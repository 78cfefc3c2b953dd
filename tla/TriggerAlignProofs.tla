------------------------- MODULE TriggerAlignProofs -------------------------
(***************************************************************************)
(* Events are built correctly, for every number of boards and chips, every *)
(* lap length and every number of laps.  Three invariants, each resting on *)
(* the one before: TypeInv holds whatever the chips miss; CoverInv, the    *)
(* chips' numbers, and SendInv, their lists and the events, when they miss *)
(* no more than MissesAllowed.                                             *)
(***************************************************************************)
EXTENDS TriggerWordProofs, FiniteSetTheorems

(* sendEventsI4() is in its loop.                                           *)
Sending == at \in {"send", "end"}

(* How far the numbers have been gone through.                              *)
Reached == IF Sending THEN counter - 1 ELSE lastTrigger

(* What a chip recorded is past; what it still keeps comes after all that   *)
(* it has handed over.                                                      *)
Recording ==
  \A c \in Chips :
    /\ recorded[c] \subseteq 0..next - 1 /\ recieved[c] < next
    /\ Ascending(sram[c]) /\ ToSet(sram[c]) \subseteq recorded[c]
    /\ \A w \in ToSet(sram[c]) :
         recieved[c] < w /\ \A n \in HandedOver(c) : n < w

(* No number is ahead of the triggers.                                      *)
Bounded ==
  /\ Sending => counter <= limit
  /\ limit < next /\ lastTrigger < next /\ event.number < next

(* The part that holds whatever the chips miss.                             *)
TypeInv == TypeOK /\ Recording /\ Bounded

(* A number that nobody may miss is recorded by each chip, from the end of  *)
(* the first lap on, and behind everything else the chip recorded.          *)
Covered ==
  \A c \in Chips : \A n \in 0..next - 1 :
    /\ n % Amount \notin MayMiss
    /\ Amount - 1 <= n \/ \E r \in recorded[c] : r < n
    => n \in recorded[c]

(* A chip's number is that of the last trigger it handed over.              *)
Exact ==
  \A c \in Chips :
    IF recieved[c] = -1 THEN HandedOver(c) = {}
    ELSE recieved[c] \in HandedOver(c) /\ \A n \in HandedOver(c) : n <= recieved[c]

(* No turn has been made yet since the first number was chosen.             *)
Untouched == first = -1 /\ failed \subseteq {0} /\ Reached < Amount - 1

(* A list holds, in order, handed-over triggers that no turn has reached;   *)
(* and all of those, except numbers that have failed.                       *)
Queued ==
  \A c \in Chips :
    /\ Ascending(eventData[c]) /\ ToSet(eventData[c]) \subseteq HandedOver(c)
    /\ Untouched \/ \A w \in ToSet(eventData[c]) : Reached < w
    /\ ~Derailed => \A n \in HandedOver(c) :
         Reached < n => n \in failed \cup ToSet(eventData[c])

(* The first number: -1 is `not set', or `before number 0'.                 *)
Starting ==
  /\ Reached = -1 => /\ first = -1 /\ failed \subseteq {0}
                     /\ \A c \in Chips : HandedOver(c) \subseteq {0}
  /\ first = -1 /\ failed = {} /\ Reached # -1 =>
       \E c \in Chips : Reached + 1 \in HandedOver(c)
  /\ \A n \in failed : n <= Reached + 1

(* How the limits and the chips' last numbers compare, in each phase.       *)
Limits ==
  /\ at = "send" => /\ \A c \in Chips : limit <= recieved[c]
                    /\ \E c \in Chips : recieved[c] <= limit
  /\ at = "idle" /\ ~Untouched => \A c \in Chips : lastTrigger <= recieved[c]
  /\ at = "end" => \A c \in Chips : recieved[c] <= limit
  /\ at \in {"end", "over"} => \A c \in Chips : sram[c] = <<>>
  /\ allReceived => \A c, d \in Chips : recieved[c] = recieved[d]
  /\ failed = {} /\ at = "idle" => \E c \in Chips : recieved[c] <= lastTrigger
  /\ failed = {} /\ at = "over" => \A c \in Chips : recieved[c] <= lastTrigger

(* The constants, and the boards' chips.                                    *)
LEMMA Numbers ==
  /\ Amount \in Nat \ {0} /\ Margin \in 0..Amount /\ MaxTrigger \in Nat
  /\ FirstNumbers \subseteq 0..Amount - 1 /\ FirstNumbers \subseteq 0..MaxTrigger
  /\ Chips # {} /\ Chips \subseteq Int
  /\ \A c \in Chips : 1 <= c
  /\ \A b \in Boards : Layout[b] \subseteq Chips
<1>1. Chips # {} /\ \A c \in Chips : c \in Int /\ 1 <= c
  BY LayoutAssumption, FS_CardinalityType
<1>2. \A b \in Boards : Layout[b] \subseteq Chips
  BY DEF Chips
<1> QED
  BY <1>1, <1>2, AmountAssumption, TriggerAssumption

(* The least and the greatest of the chips' numbers, and the check at the   *)
(* end of dataPendingI4().                                                  *)
LEMMA LeastAndGreatest ==
  ASSUME NEW rec \in [Chips -> -1..MaxTrigger]
  PROVE  /\ \E c \in Chips : Least(rec) = rec[c]
         /\ \E c \in Chips : Greatest(rec) = rec[c]
         /\ \A c \in Chips : Least(rec) <= rec[c] /\ rec[c] <= Greatest(rec)
         /\ Least(rec) \in -1..MaxTrigger /\ Greatest(rec) \in -1..MaxTrigger
         /\ SameEverywhere(rec) => \A c, d \in Chips : rec[c] = rec[d]
<1> DEFINE S == {rec[c] : c \in Chips}
<1>0. MaxTrigger \in Nat /\ \E c : c \in Chips
  BY Numbers
<1>1. /\ \A x \in S : x \in Int /\ -1 <= x /\ x <= MaxTrigger
      /\ \E x : x \in S
      /\ -1 \in Int /\ MaxTrigger \in Int
  BY <1>0
<1>2. \A x \in S : \E c \in Chips : x = rec[c]
  OBVIOUS
<1>3. \A c \in Chips : rec[c] \in S
  OBVIOUS
<1>4. Least(rec) = Min(S) /\ Greatest(rec) = Max(S)
  BY DEF Least, Greatest
<1> HIDE DEF S
<1>5. S \subseteq Int /\ S # {}
  BY <1>1
<1>6. Min(S) \in S /\ \A x \in S : Min(S) <= x
  BY <1>1, <1>5, MinInSet
<1>7. Max(S) \in S /\ \A x \in S : x <= Max(S)
  BY <1>1, <1>5, MaxInSet
<1>8. \A c \in Chips : Least(rec) <= rec[c] /\ rec[c] <= Greatest(rec)
  BY <1>3, <1>4, <1>6, <1>7
<1>9. Least(rec) \in -1..MaxTrigger /\ Greatest(rec) \in -1..MaxTrigger
  BY <1>0, <1>1, <1>4, <1>6, <1>7
<1>10. SameEverywhere(rec) => \A c, d \in Chips : rec[c] = rec[d]
  <2> SUFFICES ASSUME Greatest(rec) = Least(rec), NEW c \in Chips
               PROVE  rec[c] = Least(rec)
    BY DEF SameEverywhere
  <2>1. rec[c] \in Int
    BY <1>1, <1>3
  <2> QED
    BY <1>8, <1>9, <2>1
<1> QED
  BY <1>2, <1>4, <1>6, <1>7, <1>8, <1>9, <1>10

(* The words of a list of triggers.                                         *)
LEMMA Words ==
  ASSUME NEW s \in Seq(Triggers)
  PROVE  /\ s \in Seq(Nat) /\ ToSet(s) \subseteq Triggers
         /\ \A i \in DOMAIN s : s[i] \in ToSet(s) /\ s[i] \in Triggers
         /\ \A i \in DOMAIN s : s[i] \in Nat
         /\ s # <<>> => Len(s) \in DOMAIN s
  BY Numbers DEF Triggers, ToSet

(* A scan never takes a chip beyond the triggers (66-107), whatever it      *)
(* missed.                                                                  *)
LEMMA Scanned ==
  ASSUME TypeInv, NEW c \in Chips
  PROVE  /\ Scan(recieved[c], sram[c]) \in -1..MaxTrigger
         /\ recieved[c] <= Scan(recieved[c], sram[c])
         /\ Scan(recieved[c], sram[c]) < next
<1>1. /\ recieved[c] \in -1..MaxTrigger /\ sram[c] \in Seq(Triggers)
      /\ next \in 0..MaxTrigger + 1 /\ recieved[c] < next
      /\ Ascending(sram[c]) /\ \A w \in ToSet(sram[c]) : w \in 0..next - 1
      /\ \A w \in ToSet(sram[c]) : recieved[c] < w
  BY DEF TypeInv, TypeOK, Recording
<1>2. /\ sram[c] \in Seq(Nat) /\ \A i \in DOMAIN sram[c] : sram[c][i] \in ToSet(sram[c])
      /\ sram[c] # <<>> => Len(sram[c]) \in DOMAIN sram[c]
  BY <1>1, Words
<1>3. recieved[c] \in Nat \cup {-1}
  BY <1>1
<1>4. Scan(recieved[c], sram[c]) \in
        recieved[c]..IF sram[c] = <<>> THEN recieved[c] ELSE sram[c][Len(sram[c])]
  BY <1>1, <1>2, <1>3, ScanBounded
<1>5. CASE sram[c] = <<>>
  BY <1>1, <1>4, <1>5
<1>6. CASE sram[c] # <<>>
  <2>1. sram[c][Len(sram[c])] \in 0..next - 1
    BY <1>1, <1>2, <1>6
  <2> QED
    BY <1>1, <1>4, <1>6, <2>1, Numbers
<1> QED
  BY <1>5, <1>6

(* The run's first number: kept, or not told, or one below the first word   *)
(* that tells it (76-82).                                                   *)
LEMMA FirstWordIs ==
  ASSUME TypeOK, NEW b \in Boards, NEW last
  PROVE  \/ last # -1 /\ FirstWord(last, b) = last
         \/ /\ last = -1 /\ FirstWord(last, b) = -1
            /\ \A c \in Layout[b] : \A w \in ToSet(sram[c]) : ~Telling(w)
         \/ /\ last = -1
            /\ \E c \in Layout[b] : \E k \in DOMAIN sram[c] :
                 /\ FirstWord(last, b) = (sram[c][k] % Amount) - 1
                 /\ Telling(sram[c][k])
                 /\ \A i \in 1..k - 1 : ~Telling(sram[c][i])
<1>1. CASE last # -1 \/ Tells(b) = {}
  BY <1>1 DEF FirstWord, Tells
<1>2. CASE last = -1 /\ Tells(b) # {}
  <2> DEFINE c == Min(Tells(b))
  <2>1. Tells(b) \subseteq Layout[b] /\ Layout[b] \subseteq Chips
    BY Numbers DEF Tells
  <2>2. Tells(b) \subseteq Int /\ 1 \in Int /\ \A d \in Tells(b) : 1 <= d
    <3> HIDE DEF c
    <3>1. \A d \in Tells(b) : d \in Chips
      BY <2>1
    <3>2. \A d \in Chips : d \in Int /\ 1 <= d
      BY Numbers
    <3> QED
      BY <3>1, <3>2
  <2>3. c \in Tells(b)
    BY <1>2, <2>2, MinInSet
  <2>4. FirstWord(last, b) = (FirstIn(sram[c]) % Amount) - 1
    BY <1>2 DEF FirstWord
  <2> HIDE DEF c
  <2>5. c \in Layout[b] /\ sram[c] \in Seq(Triggers)
    BY <2>1, <2>3 DEF TypeOK
  <2>6. \E w \in ToSet(sram[c]) : Telling(w)
    BY <2>3 DEF Tells
  <2>7. sram[c] \in Seq(Nat) /\ \E j \in DOMAIN sram[c] : Telling(sram[c][j])
    BY <2>5, <2>6, Words DEF ToSet
  <2>8. \E k \in DOMAIN sram[c] : /\ FirstIn(sram[c]) = sram[c][k]
                                  /\ Telling(sram[c][k])
                                  /\ \A i \in 1..k - 1 : ~Telling(sram[c][i])
    BY <2>7, FirstInIsFirst
  <2> QED
    BY <1>2, <2>4, <2>5, <2>8
<1> QED
  BY <1>1, <1>2

-----------------------------------------------------------------------------
(* TypeInv, action by action.                                               *)

(* The start values have their types.                                       *)
LEMMA StartValues ==
  /\ Nothing \in [Chips -> Seq(Triggers)]
  /\ [c \in Chips |-> -1] \in [Chips -> -1..MaxTrigger]
  /\ [c \in Chips |-> {}] \in [Chips -> SUBSET Triggers]
  /\ NoEvent \in [number : -1..MaxTrigger, blocks : Blocks]
  /\ -1 \in -1..MaxTrigger /\ 0 \in 0..MaxTrigger + 1
  /\ \A n \in FirstNumbers : n \in 0..MaxTrigger + 1
<1>1. MaxTrigger \in Nat /\ \A n \in FirstNumbers : n \in 0..MaxTrigger
  BY Numbers
<1>2. <<>> \in Seq(Triggers)
  OBVIOUS
<1>3. Nothing \in [Chips -> Seq(Triggers)]
  BY <1>2 DEF Nothing
<1>4. [c \in Chips |-> Dummy] \in Blocks
  BY DEF Blocks
<1>5. NoEvent \in [number : -1..MaxTrigger, blocks : Blocks]
  BY <1>1, <1>4 DEF NoEvent
<1> QED
  BY <1>1, <1>3, <1>5

(* At the start of the producer.                                            *)
LEMMA TypeInit ==
  ASSUME Init
  PROVE  TypeInv
<1>1. \A c \in Chips : sram[c] = <<>> /\ recorded[c] = {} /\ recieved[c] = -1
  BY DEF Init, Nothing
<1>2. TypeOK
  BY StartValues DEF Init, TypeOK
<1>3. Recording
  BY <1>1, Numbers DEF Init, Recording, Ascending, ToSet
<1>4. Bounded
  BY Numbers DEF Init, Bounded, Sending, NoEvent
<1> QED
  BY <1>2, <1>3, <1>4 DEF TypeInv

(* OnStartRun() keeps it.                                                   *)
LEMMA TypeOnStartRun ==
  ASSUME TypeInv, OnStartRun
  PROVE  TypeInv'
<1>1. \A c \in Chips : sram'[c] = <<>> /\ recorded'[c] = {} /\ recieved'[c] = -1
  BY DEF OnStartRun, Nothing
<1>2. TypeOK'
  BY StartValues DEF OnStartRun, TypeInv, TypeOK
<1>3. Recording'
  BY <1>1, Numbers DEF OnStartRun, Recording, Ascending, ToSet, HandedOver
<1>4. Bounded'
  BY Numbers DEF OnStartRun, Bounded, Sending, NoEvent
<1> QED
  BY <1>2, <1>3, <1>4 DEF TypeInv

(* One more element at the end of an ascending list.                        *)
LEMMA AppendLast ==
  ASSUME NEW s \in Seq(Triggers), NEW n \in Triggers
  PROVE  /\ Append(s, n) \in Seq(Triggers)
         /\ ToSet(Append(s, n)) = ToSet(s) \cup {n}
         /\ Ascending(s) /\ (\A w \in ToSet(s) : w < n) => Ascending(Append(s, n))
<1>1. /\ Append(s, n) \in Seq(Triggers) /\ Len(Append(s, n)) = Len(s) + 1
      /\ \A i \in 1..Len(s) : Append(s, n)[i] = s[i]
      /\ Append(s, n)[Len(s) + 1] = n
  OBVIOUS
<1>2. DOMAIN Append(s, n) = 1..Len(s) + 1 /\ DOMAIN s = 1..Len(s)
  BY <1>1
<1>3. ToSet(Append(s, n)) = ToSet(s) \cup {n}
  <2>1. \A w \in ToSet(Append(s, n)) : w \in ToSet(s) \cup {n}
    BY <1>1, <1>2 DEF ToSet
  <2>2. \A w \in ToSet(s) \cup {n} : w \in ToSet(Append(s, n))
    BY <1>1, <1>2 DEF ToSet
  <2> QED
    BY <2>1, <2>2
<1>4. ASSUME Ascending(s), \A w \in ToSet(s) : w < n PROVE Ascending(Append(s, n))
  <2> DEFINE t == Append(s, n)
  <2> SUFFICES ASSUME NEW i \in 1..Len(s) + 1, NEW j \in 1..Len(s) + 1, i < j
               PROVE  t[i] < t[j]
    BY <1>2 DEF Ascending
  <2>1. i \in 1..Len(s) /\ t[i] = s[i] /\ s[i] \in ToSet(s)
    BY <1>1, <1>2 DEF ToSet
  <2>2. CASE j = Len(s) + 1
    BY <1>1, <1>4, <2>1, <2>2
  <2>3. CASE j \in 1..Len(s)
    BY <1>1, <1>2, <1>4, <2>1, <2>3 DEF Ascending
  <2> QED
    BY <2>2, <2>3
<1> QED
  BY <1>1, <1>3, <1>4

(* A chip either records the trigger or does not.                           *)
LEMMA TriggerAt ==
  ASSUME TypeInv, NEW C \in SUBSET Chips, Trigger(C), NEW c \in Chips
  PROVE  /\ next \in Triggers /\ next' = next + 1
         /\ sram[c] \in Seq(Triggers) /\ ToSet(sram[c]) \subseteq recorded[c]
         /\ \/ /\ c \in C /\ sram'[c] = Append(sram[c], next)
               /\ recorded'[c] = recorded[c] \cup {next}
               /\ ToSet(sram'[c]) = ToSet(sram[c]) \cup {next}
            \/ /\ c \notin C /\ sram'[c] = sram[c] /\ recorded'[c] = recorded[c]
         /\ recorded[c] \subseteq 0..next - 1
         /\ HandedOver(c)' = HandedOver(c)
<1>1. /\ next \in Triggers /\ next' = next + 1 /\ sram[c] \in Seq(Triggers)
      /\ ToSet(sram[c]) \subseteq recorded[c] /\ recorded[c] \subseteq 0..next - 1
  BY Numbers DEF TypeInv, TypeOK, Trigger, Triggers, Recording
<1>2. \/ /\ c \in C /\ sram'[c] = Append(sram[c], next)
         /\ recorded'[c] = recorded[c] \cup {next}
      \/ /\ c \notin C /\ sram'[c] = sram[c] /\ recorded'[c] = recorded[c]
  BY DEF Trigger
<1>3. c \in C => ToSet(sram'[c]) = ToSet(sram[c]) \cup {next}
  BY <1>1, <1>2, AppendLast
<1>4. next \notin recorded[c]
  BY <1>1, Numbers DEF Triggers
<1> QED
  BY <1>1, <1>2, <1>3, <1>4 DEF HandedOver

(* A trigger keeps it, whichever chips record it.                           *)
LEMMA TypeTrigger ==
  ASSUME TypeInv, NEW C \in SUBSET Chips, Trigger(C)
  PROVE  TypeInv'
<1>1. next \in Triggers /\ next' = next + 1 /\ next' \in 0..MaxTrigger + 1
  BY Numbers DEF TypeInv, TypeOK, Trigger, Triggers
<1>2. TypeOK'
  <2>1. \A c \in Chips : sram'[c] \in Seq(Triggers) /\ recorded'[c] \in SUBSET Triggers
    <3> TAKE c \in Chips
    <3>1. recorded[c] \in SUBSET Triggers /\ sram[c] \in Seq(Triggers)
      BY DEF TypeInv, TypeOK
    <3>2. Append(sram[c], next) \in Seq(Triggers)
      BY <1>1, <3>1
    <3>3. recorded[c] \cup {next} \in SUBSET Triggers
      BY <1>1, <3>1
    <3>4. \/ sram'[c] = Append(sram[c], next) /\ recorded'[c] = recorded[c] \cup {next}
          \/ sram'[c] = sram[c] /\ recorded'[c] = recorded[c]
      BY TriggerAt
    <3> QED
      BY <3>1, <3>2, <3>3, <3>4
  <2>2. sram' \in [Chips -> Seq(Triggers)] /\ recorded' \in [Chips -> SUBSET Triggers]
    <3>1. DOMAIN sram' = Chips /\ DOMAIN recorded' = Chips
      BY DEF Trigger
    <3>2. sram' = [c \in Chips |-> sram'[c]] /\ recorded' = [c \in Chips |-> recorded'[c]]
      BY DEF Trigger
    <3> QED
      BY <2>1, <3>1, <3>2
  <2> QED
    BY <1>1, <2>2 DEF TypeInv, TypeOK, Trigger, sendVars
<1>3. Recording'
  <2> SUFFICES ASSUME NEW c \in Chips
               PROVE  /\ recorded'[c] \subseteq 0..next' - 1 /\ recieved'[c] < next'
                      /\ Ascending(sram'[c]) /\ ToSet(sram'[c]) \subseteq recorded'[c]
                      /\ \A w \in ToSet(sram'[c]) :
                           recieved'[c] < w /\ \A n \in HandedOver(c)' : n < w
    BY DEF Recording, HandedOver
  <2>1. /\ recorded[c] \subseteq 0..next - 1 /\ recieved[c] < next
        /\ Ascending(sram[c]) /\ ToSet(sram[c]) \subseteq recorded[c]
        /\ \A w \in ToSet(sram[c]) :
             recieved[c] < w /\ \A n \in HandedOver(c) : n < w
        /\ recieved'[c] = recieved[c] /\ recieved[c] \in -1..MaxTrigger
    BY DEF TypeInv, TypeOK, Recording, Trigger
  <2>2. HandedOver(c)' = HandedOver(c) /\ HandedOver(c) \subseteq recorded[c]
    BY TriggerAt DEF HandedOver
  <2>3. \A n \in 0..next - 1 : n < next /\ n \in 0..next' - 1
    BY <1>1, Numbers DEF Triggers
  <2>4. CASE c \in C
    <3>1. /\ sram'[c] = Append(sram[c], next) /\ sram[c] \in Seq(Triggers)
          /\ recorded'[c] = recorded[c] \cup {next}
          /\ ToSet(sram'[c]) = ToSet(sram[c]) \cup {next}
      BY <2>4, TriggerAt
    <3>2. Ascending(sram'[c])
      BY <1>1, <2>1, <2>3, <3>1, AppendLast
    <3>3. \A w \in ToSet(sram'[c]) :
            recieved'[c] < w /\ \A n \in HandedOver(c)' : n < w
      BY <2>1, <2>2, <2>3, <3>1
    <3>4. recorded'[c] \subseteq 0..next' - 1 /\ recieved'[c] < next'
      BY <1>1, <2>1, <2>3, <3>1, Numbers DEF Triggers
    <3> QED
      BY <2>1, <3>1, <3>2, <3>3, <3>4
  <2>5. CASE c \notin C
    <3>1. sram'[c] = sram[c] /\ recorded'[c] = recorded[c]
      BY <2>5, TriggerAt
    <3>2. recieved'[c] < next' /\ recorded'[c] \subseteq 0..next' - 1
      BY <1>1, <2>1, <2>3, <3>1, Numbers DEF Triggers
    <3> QED
      BY <2>1, <2>2, <3>1, <3>2
  <2> QED
    BY <2>4, <2>5
<1>4. Bounded'
  BY <1>1, Numbers DEF Bounded, TypeInv, TypeOK, Trigger, Sending, Triggers, sendVars
<1> QED
  BY <1>2, <1>3, <1>4 DEF TypeInv

(* A round of read-outs keeps it.                                           *)
LEMMA TypeReadOut ==
  ASSUME TypeInv, ReadOut
  PROVE  TypeInv'
<1>1. /\ TypeOK /\ Recording /\ Bounded /\ due' = Boards
      /\ UNCHANGED <<next, sram, recorded, at, recieved, eventData, lastTrigger,
                     counter, limit, allReceived, event, first, failed>>
  BY DEF TypeInv, ReadOut, triggerVars, sendVars
<1>2. TypeOK'
  BY <1>1 DEF TypeOK
<1>3. Recording' /\ Bounded'
  BY <1>1 DEF Recording, Bounded, Sending, HandedOver
<1> QED
  BY <1>2, <1>3 DEF TypeInv

(* What dataPendingI4() does of one chip: its words are scanned and queued, *)
(* when it is on the board.                                                 *)
LEMMA DataAt ==
  ASSUME TypeInv, NEW b \in Boards, DataPending(b), NEW c \in Chips
  PROVE  /\ recorded'[c] = recorded[c]
         /\ \/ /\ c \in Layout[b] /\ sram'[c] = <<>>
               /\ recieved'[c] = Scan(recieved[c], sram[c])
               /\ eventData'[c] = eventData[c] \o sram[c]
               /\ HandedOver(c)' = recorded[c]
            \/ /\ c \notin Layout[b] /\ sram'[c] = sram[c]
               /\ recieved'[c] = recieved[c] /\ eventData'[c] = eventData[c]
               /\ HandedOver(c)' = HandedOver(c)
         /\ recieved'[c] \in -1..MaxTrigger /\ recieved'[c] < next
         /\ recieved[c] <= recieved'[c]
         /\ eventData'[c] \in Seq(Triggers) /\ sram'[c] \in Seq(Triggers)
<1>1. /\ recorded'[c] = recorded[c] /\ sram[c] \in Seq(Triggers)
      /\ eventData[c] \in Seq(Triggers) /\ recieved[c] < next
      /\ recieved[c] \in -1..MaxTrigger
  BY DEF TypeInv, TypeOK, Recording, DataPending
<1>2. CASE c \in Layout[b]
  <2>1. /\ sram'[c] = <<>> /\ recieved'[c] = Scan(recieved[c], sram[c])
        /\ eventData'[c] = eventData[c] \o sram[c]
    BY <1>2 DEF DataPending
  <2>2. HandedOver(c)' = recorded[c]
    BY <1>1, <2>1 DEF HandedOver, ToSet
  <2>3. eventData[c] \o sram[c] \in Seq(Triggers) /\ <<>> \in Seq(Triggers)
    BY <1>1
  <2> QED
    BY <1>1, <1>2, <2>1, <2>2, <2>3, Scanned
<1>3. CASE c \notin Layout[b]
  <2>1. /\ sram'[c] = sram[c] /\ recieved'[c] = recieved[c]
        /\ eventData'[c] = eventData[c]
    BY <1>3 DEF DataPending
  <2>2. HandedOver(c)' = HandedOver(c)
    BY <1>1, <2>1 DEF HandedOver
  <2>3. /\ recieved'[c] \in -1..MaxTrigger /\ recieved'[c] < next
        /\ recieved[c] <= recieved'[c]
    BY <1>1, <2>1, Numbers
  <2>4. eventData'[c] \in Seq(Triggers) /\ sram'[c] \in Seq(Triggers)
    BY <1>1, <2>1
  <2> QED
    BY <1>1, <1>3, <2>1, <2>2, <2>3, <2>4
<1> QED
  BY <1>2, <1>3

(* A first number is at most the number it comes from.                      *)
LEMMA FirstWordBounded ==
  ASSUME TypeInv, NEW b \in Boards
  PROVE  /\ FirstWord(lastTrigger, b) \in -1..MaxTrigger
         /\ FirstWord(lastTrigger, b) < next
         /\ lastTrigger <= FirstWord(lastTrigger, b)
<1>1. /\ TypeOK /\ lastTrigger \in -1..MaxTrigger /\ lastTrigger < next
      /\ next \in 0..MaxTrigger + 1 /\ MaxTrigger \in Nat
      /\ Amount \in Nat \ {0}
  BY Numbers DEF TypeInv, TypeOK, Bounded
<1>2. CASE lastTrigger # -1
  BY <1>1, <1>2, FirstWordIs
<1>3. CASE lastTrigger = -1 /\ FirstWord(lastTrigger, b) = -1
  BY <1>1, <1>3
<1>4. CASE lastTrigger = -1 /\ FirstWord(lastTrigger, b) # -1
  <2>1. PICK c \in Layout[b] : \E k \in DOMAIN sram[c] :
               FirstWord(lastTrigger, b) = (sram[c][k] % Amount) - 1
    BY <1>1, <1>4, FirstWordIs
  <2>2. PICK k \in DOMAIN sram[c] :
               FirstWord(lastTrigger, b) = (sram[c][k] % Amount) - 1
    BY <2>1
  <2> DEFINE w == sram[c][k]
  <2>3. c \in Chips
    BY <2>1, Numbers
  <2>4. sram[c] \in Seq(Triggers) /\ w \in ToSet(sram[c])
        /\ ToSet(sram[c]) \subseteq recorded[c] /\ recorded[c] \subseteq 0..next - 1
    BY <1>1, <2>2, <2>3, Words DEF TypeOK, TypeInv, Recording
  <2>5. w \in 0..next - 1
    BY <2>4
  <2>6. w \in Nat /\ w < next
    BY <1>1, <2>5
  <2> HIDE DEF w
  <2>7. /\ w = Amount * (w \div Amount) + (w % Amount)
        /\ w \div Amount \in Nat /\ w % Amount \in 0..Amount - 1
        /\ Amount * (w \div Amount) \in Nat
    BY <2>6, LapAndPlace, LapsApart
  <2>8. w % Amount <= w
    <3> DEFINE x == Amount * (w \div Amount)
               y == w % Amount
    <3>1. w = x + y /\ x \in Nat /\ y \in Int
      BY <2>7, <1>1
    <3> HIDE DEF x, y
    <3>2. y <= w
      BY <3>1
    <3> QED
      BY <3>2 DEF y
  <2>9. FirstWord(lastTrigger, b) = (w % Amount) - 1
    BY <2>2 DEF w
  <2> QED
    BY <1>1, <1>4, <2>6, <2>7, <2>8, <2>9
<1> QED
  BY <1>2, <1>3, <1>4

(* dataPendingI4() keeps it.                                                *)
LEMMA TypeDataPending ==
  ASSUME TypeInv, NEW b \in Boards, DataPending(b)
  PROVE  TypeInv'
<1>1. /\ next' = next /\ recorded' = recorded /\ due' = due \ {b}
      /\ allReceived' = SameEverywhere(recieved')
      /\ lastTrigger' = FirstWord(lastTrigger, b) /\ limit' = Least(recieved')
      /\ counter' = FirstWord(lastTrigger, b) + 1
      /\ at' \in {"send", "idle"} /\ (at' = "send" => counter' <= limit')
      /\ event' = event /\ first' = first /\ failed' = failed
  BY DEF DataPending, BeginSend, sendVars
<1>2. recieved' \in [Chips -> -1..MaxTrigger]
  <2>1. recieved' = [c \in Chips |-> recieved'[c]]
    BY DEF DataPending
  <2> QED
    BY <2>1, DataAt
<1>3. \A c \in Chips : recieved'[c] < next
  BY DataAt
<1>4. limit' \in -1..MaxTrigger /\ limit' < next
  <2>1. Least(recieved') \in -1..MaxTrigger /\ \E c \in Chips : Least(recieved') = recieved'[c]
    BY <1>2, LeastAndGreatest
  <2> QED
    BY <1>1, <1>3, <2>1
<1>5. sram' \in [Chips -> Seq(Triggers)] /\ eventData' \in [Chips -> Seq(Triggers)]
  <2>1. /\ sram' = [c \in Chips |-> sram'[c]]
        /\ eventData' = [c \in Chips |-> eventData'[c]]
    BY DEF DataPending
  <2> QED
    BY <2>1, DataAt
<1>6. /\ lastTrigger' \in -1..MaxTrigger /\ lastTrigger' < next
      /\ counter' \in 0..MaxTrigger + 1
  BY <1>1, FirstWordBounded, Numbers
<1>7. TypeOK'
  BY <1>1, <1>2, <1>4, <1>5, <1>6 DEF TypeInv, TypeOK, SameEverywhere
<1>8. Recording'
  <2> SUFFICES ASSUME NEW c \in Chips
               PROVE  /\ recorded'[c] \subseteq 0..next' - 1 /\ recieved'[c] < next'
                      /\ Ascending(sram'[c]) /\ ToSet(sram'[c]) \subseteq recorded'[c]
                      /\ \A w \in ToSet(sram'[c]) :
                           recieved'[c] < w /\ \A n \in HandedOver(c)' : n < w
    BY DEF Recording, HandedOver
  <2>1. /\ recorded[c] \subseteq 0..next - 1
        /\ Ascending(sram[c]) /\ ToSet(sram[c]) \subseteq recorded[c]
        /\ \A w \in ToSet(sram[c]) :
             recieved[c] < w /\ \A n \in HandedOver(c) : n < w
    BY DEF TypeInv, Recording
  <2>2. CASE c \in Layout[b]
    <3>1. sram'[c] = <<>>
      BY <2>2, DataAt
    <3>2. Ascending(sram'[c]) /\ ToSet(sram'[c]) = {}
      BY <3>1 DEF Ascending, ToSet
    <3> QED
      BY <1>1, <1>3, <2>1, <3>2
  <2>3. CASE c \notin Layout[b]
    <3>1. sram'[c] = sram[c] /\ recieved'[c] = recieved[c] /\ HandedOver(c)' = HandedOver(c)
      BY <2>3, DataAt
    <3> QED
      BY <1>1, <1>3, <2>1, <3>1
  <2> QED
    BY <2>2, <2>3
<1>9. Bounded'
  BY <1>1, <1>4, <1>6 DEF TypeInv, Bounded, Sending
<1> QED
  BY <1>7, <1>8, <1>9 DEF TypeInv

(* OnStopRun() keeps it.                                                    *)
LEMMA TypeEndRun ==
  ASSUME TypeInv, EndRun
  PROVE  TypeInv'
<1>1. /\ next' = next /\ recorded' = recorded /\ due' = due /\ sram' = sram
      /\ allReceived' = allReceived /\ recieved' = recieved
      /\ eventData' = eventData
      /\ event' = event /\ first' = first /\ failed' = failed
  BY DEF EndRun, triggerVars, sendVars
<1>2. TypeOK /\ Recording /\ Bounded
  BY DEF TypeInv
<1>3. Greatest(recieved) \in -1..MaxTrigger /\ Greatest(recieved) < next
  <2>1. recieved \in [Chips -> -1..MaxTrigger] /\ \A c \in Chips : recieved[c] < next
    BY <1>2 DEF TypeOK, Recording
  <2> QED
    BY <2>1, LeastAndGreatest
<1>4. \/ at' = "over" /\ UNCHANGED <<lastTrigger, counter, limit>>
      \/ /\ lastTrigger' = lastTrigger /\ limit' = Greatest(recieved)
         /\ counter' = lastTrigger + 1 /\ at' \in {"end", "over"}
         /\ at' = "end" => counter' <= limit'
  BY DEF EndRun, BeginSend
<1>5. /\ lastTrigger' \in -1..MaxTrigger /\ limit' \in -1..MaxTrigger
      /\ counter' \in 0..MaxTrigger + 1 /\ at' \in {"end", "over"}
      /\ lastTrigger' < next /\ limit' < next
      /\ Sending' => counter' <= limit'
  <2>1. /\ lastTrigger \in -1..MaxTrigger /\ limit \in -1..MaxTrigger
        /\ counter \in 0..MaxTrigger + 1 /\ lastTrigger < next /\ limit < next
        /\ MaxTrigger \in Nat
    BY <1>2, Numbers DEF TypeOK, Bounded
  <2> QED
    BY <1>3, <1>4, <2>1 DEF Sending
<1>6. TypeOK'
  BY <1>1, <1>2, <1>5 DEF TypeOK
<1>7. Recording'
  BY <1>1, <1>2 DEF Recording, HandedOver
<1>8. Bounded'
  BY <1>1, <1>2, <1>5 DEF Bounded
<1> QED
  BY <1>6, <1>7, <1>8 DEF TypeInv

(* A turn leaves each chip with a part of its list, and gives the event one *)
(* of its words or a dummy.                                                 *)
LEMMA TurnAt ==
  ASSUME TypeInv, Sending, TakeBlocks, NEW c \in Chips
  PROVE  /\ eventData'[c] = Rest(counter, eventData[c])
         /\ counter \in Triggers /\ counter < next
         /\ eventData[c] \in Seq(Nat) /\ eventData'[c] \in Seq(Triggers)
         /\ ToSet(eventData'[c]) \subseteq ToSet(eventData[c])
         /\ Block(counter, eventData[c]) \in Triggers \cup {Dummy}
<1>1. counter \in Triggers /\ counter < next /\ counter \in Nat
  BY Numbers DEF TypeInv, TypeOK, Bounded, Triggers
<1>2. eventData'[c] = Rest(counter, eventData[c])
  BY DEF TakeBlocks
<1>3. eventData[c] \in Seq(Triggers)
  BY DEF TypeInv, TypeOK
<1>4. eventData[c] \in Seq(Nat) /\ ToSet(eventData[c]) \subseteq Triggers
  BY <1>3, Words
<1> DEFINE rest == Rest(counter, eventData[c])
<1>5. /\ rest \in Seq(Nat) /\ ToSet(rest) \subseteq ToSet(eventData[c])
      /\ Block(counter, eventData[c]) \in ToSet(eventData[c]) \cup {Dummy}
  BY <1>1, <1>4, RestIsPart
<1> HIDE DEF rest
<1>6. rest \in Seq(Triggers)
  <2>1. \A i \in 1..Len(rest) : rest[i] \in Triggers
    <3> TAKE i \in 1..Len(rest)
    <3>1. rest[i] \in ToSet(rest)
      BY <1>5 DEF ToSet
    <3> QED
      BY <1>4, <1>5, <3>1
  <2> QED
    BY <1>5, <2>1
<1> QED
  BY <1>1, <1>2, <1>4, <1>5, <1>6 DEF rest

(* A turn of the loop keeps it.                                             *)
LEMMA TypeSendEvent ==
  ASSUME TypeInv, SendEvent
  PROVE  TypeInv'
<1>1. /\ Sending /\ TakeBlocks
      /\ next' = next /\ recorded' = recorded /\ due' = due /\ sram' = sram
      /\ allReceived' = allReceived /\ recieved' = recieved /\ limit' = limit
      /\ failed' = failed /\ counter' = counter + 1
      /\ event'.number = counter
      /\ event' = [number |-> counter,
                   blocks |-> [c \in Chips |-> Block(counter, eventData[c])]]
      /\ first' \in {first, counter}
      /\ \/ counter' <= limit /\ at' = at /\ lastTrigger' = lastTrigger
         \/ at' = Idle /\ lastTrigger' = counter
  BY DEF SendEvent, Sending, triggerVars
<1>2. TypeOK /\ Recording /\ Bounded
  BY DEF TypeInv
<1>3. counter \in Triggers /\ counter < next /\ MaxTrigger \in Nat
  BY <1>1, TurnAt, Numbers
<1>4. eventData' \in [Chips -> Seq(Triggers)]
  <2>1. eventData' = [c \in Chips |-> eventData'[c]]
    BY <1>1 DEF TakeBlocks
  <2> QED
    BY <1>1, <2>1, TurnAt
<1>5. event' \in [number : -1..MaxTrigger, blocks : Blocks]
  <2>1. [c \in Chips |-> Block(counter, eventData[c])] \in Blocks
    BY <1>1, TurnAt DEF Blocks
  <2> QED
    BY <1>1, <1>3, <2>1 DEF Triggers
<1>6. TypeOK'
  BY <1>1, <1>2, <1>3, <1>4, <1>5 DEF TypeOK, Triggers, Idle
<1>7. Recording'
  BY <1>1, <1>2 DEF Recording, HandedOver
<1>8. Bounded'
  BY <1>1, <1>2, <1>3 DEF Bounded, Sending, Idle
<1> QED
  BY <1>6, <1>7, <1>8 DEF TypeInv

(* A turn whose SendEvent() throws keeps it.                                *)
LEMMA TypeSendFails ==
  ASSUME TypeInv, SendFails
  PROVE  TypeInv'
<1>1. /\ Sending /\ TakeBlocks
      /\ next' = next /\ recorded' = recorded /\ due' = due /\ sram' = sram
      /\ allReceived' = allReceived /\ recieved' = recieved /\ limit' = limit
      /\ failed' = failed \cup {counter} /\ counter' = counter
      /\ event' = event /\ first' = first
      /\ at' = Idle /\ lastTrigger' = counter - 1
  BY DEF SendFails, Sending, triggerVars
<1>2. TypeOK /\ Recording /\ Bounded
  BY DEF TypeInv
<1>3. counter \in Triggers /\ counter < next /\ MaxTrigger \in Nat
  BY <1>1, TurnAt, Numbers
<1>4. eventData' \in [Chips -> Seq(Triggers)]
  <2>1. eventData' = [c \in Chips |-> eventData'[c]]
    BY <1>1 DEF TakeBlocks
  <2> QED
    BY <1>1, <2>1, TurnAt
<1>6. TypeOK'
  BY <1>1, <1>2, <1>3, <1>4 DEF TypeOK, Triggers, Idle
<1>7. Recording'
  BY <1>1, <1>2 DEF Recording, HandedOver
<1>8. Bounded'
  <2>1. ~Sending'
    BY <1>1 DEF Sending, Idle
  <2>2. next \in Int /\ counter - 1 < next
    BY <1>2, <1>3 DEF TypeOK, Triggers
  <2> QED
    BY <1>1, <1>2, <2>1, <2>2 DEF Bounded
<1> QED
  BY <1>6, <1>7, <1>8 DEF TypeInv

(* So does every step.                                                      *)
LEMMA TypeNext ==
  ASSUME TypeInv, [Next]_vars
  PROVE  TypeInv'
<1>1. CASE UNCHANGED vars
  <2>1. UNCHANGED <<next, sram, due, at, recieved, eventData, lastTrigger, counter,
                    limit, allReceived, recorded, event, first, failed>>
    BY <1>1 DEF vars, triggerVars, sendVars
  <2>2. TypeOK' /\ Recording' /\ Bounded'
    BY <2>1 DEF TypeInv, TypeOK, Recording, Bounded, Sending, HandedOver
  <2> QED
    BY <2>2 DEF TypeInv
<1> QED
  BY <1>1, TypeOnStartRun, TypeReadOut, TypeEndRun, TypeSendEvent, TypeSendFails,
     TypeTrigger, TypeDataPending DEF Next

(* The invariant holds, whatever the chips miss.                            *)
LEMMA TypeInvariant == Spec => []TypeInv
  BY TypeInit, TypeNext, PTL DEF Spec

(* Type correctness, whatever the chips miss: no number is ahead of the     *)
(* triggers, no chip's list holds anything but triggers, and the loop never *)
(* runs beyond its limit.                                                   *)
THEOREM TypeCorrect == Spec => []TypeOK
<1>1. TypeInv => TypeOK
  BY DEF TypeInv
<1> QED
  BY <1>1, TypeInvariant, PTL

-----------------------------------------------------------------------------
(* CoverInv, action by action.                                              *)

(* The number after a lap's last one is the next lap's first.               *)
LEMMA NextLap ==
  ASSUME NEW r \in Nat, r % Amount = Amount - 1
  PROVE  (r + 1) % Amount = 0
<1> DEFINE j == r \div Amount
           k == (r + 1) \div Amount
           t == (r + 1) % Amount
<1>1. /\ j \in Nat /\ r = Amount * j + (Amount - 1)
      /\ k \in Nat /\ t \in 0..Amount - 1 /\ r + 1 = Amount * k + t
  BY LapAndPlace
<1>2. Amount \in Nat \ {0}
  BY AmountAssumption
<1> HIDE DEF j, k, t
<1>3. /\ Amount * j \in Nat /\ Amount * k \in Nat /\ Amount * (j + 1) \in Nat
      /\ Amount * (j + 1) = Amount * j + Amount
      /\ k < j + 1 => Amount * k + Amount <= Amount * (j + 1)
      /\ j + 1 < k => Amount * (j + 1) + Amount <= Amount * k
  BY <1>1, LapsApart
<1>4. k = j + 1
  BY <1>1, <1>2, <1>3
<1> QED
  BY <1>1, <1>2, <1>3, <1>4 DEF t

(* The code can follow a chip that misses no more than is allowed: from one *)
(* trigger that it records to the next one.                                 *)
LEMMA RecordedFollow ==
  ASSUME MissesAllowed, TypeInv, Covered, NEW c \in Chips,
         NEW r \in recorded[c] \cup {-1}, NEW n \in recorded[c], r < n,
         \A m \in recorded[c] : ~(r < m /\ m < n)
  PROVE  Follows(r, n)
<1>1. /\ Amount \in Nat \ {0} /\ Margin \in 0..Amount /\ Margin > 1
      /\ Amount - 1 \notin MayMiss
  BY AmountAssumption DEF MissesAllowed
<1>2. next \in Nat /\ recorded[c] \subseteq 0..next - 1
  BY Numbers DEF TypeInv, TypeOK, Recording
<1>3. n \in Nat /\ n < next /\ \A m \in Nat : m < n => m \in 0..next - 1
  BY <1>2
<1>4. \A m \in Nat : m < n /\ m % Amount \notin MayMiss
                       /\ (Amount - 1 <= m \/ \E s \in recorded[c] : s < m)
                     => m \in recorded[c]
  BY <1>3 DEF Covered
<1>5. CASE r = -1
  <2>1. (Amount - 1) % Amount = Amount - 1 /\ Amount - 1 \in Nat
    BY <1>1
  <2>2. Amount - 1 < n => Amount - 1 \in recorded[c]
    BY <1>1, <1>4, <2>1
  <2> QED
    BY <1>1, <1>3, <1>5, <2>1, <2>2 DEF Follows
<1>6. CASE r \in recorded[c]
  <2>1. r \in Nat
    BY <1>2, <1>6
  <2> DEFINE e == LapEnd(r)
  <2>2. /\ e \in Nat /\ r <= e /\ Amount - 1 <= e /\ e % Amount = Amount - 1
        /\ \A w \in r..e : w % Amount = (r % Amount) + (w - r)
        /\ e = r + (Amount - 1 - (r % Amount)) /\ r % Amount \in 0..Amount - 1
    BY <2>1, WithinLap, LapAndPlace DEF LapEnd
  <2> HIDE DEF e
  <2>3. CASE n <= e
    <3>1. n \in r..e
      BY <1>3, <2>1, <2>2, <2>3
    <3>2. n % Amount = (r % Amount) + (n - r)
      BY <2>2, <3>1
    <3>3. n % Amount > r % Amount /\ n - r < Amount /\ r # -1
      BY <1>1, <1>3, <2>1, <2>2, <2>3, <3>2
    <3> QED
      BY <3>3 DEF Follows
  <2>4. CASE e < n
    <3>1. e \in recorded[c]
      BY <1>1, <1>4, <2>2, <2>4
    <3>2. r = e
      BY <2>1, <2>2, <2>4, <3>1
    <3>3. /\ r % Amount = Amount - 1 /\ Amount - 1 <= r
          /\ r % Amount > Amount - Margin /\ r # -1
      <4>1. r % Amount = Amount - 1 /\ Amount - 1 <= r
        BY <2>2, <3>2
      <4>2. Amount - 1 > Amount - Margin /\ r # -1
        BY <1>1, <2>1
      <4> QED
        BY <4>1, <4>2
    <3>4. PICK q \in 0..Amount - 2 : q \notin MayMiss
      BY DEF MissesAllowed
    <3> DEFINE m == r + 1 + q
    <3>5. m % Amount = q
      <4>1. (r + 1) % Amount = 0 /\ r + 1 \in Nat
        BY <2>1, <2>2, <3>2, NextLap
      <4>2. LapEnd(r + 1) = r + Amount
        BY <1>1, <2>1, <4>1 DEF LapEnd
      <4>3. m \in r + 1..LapEnd(r + 1)
        BY <1>1, <2>1, <3>4, <4>2
      <4>4. m % Amount = ((r + 1) % Amount) + (m - (r + 1))
        BY <4>1, <4>3, WithinLap
      <4> HIDE DEF m
      <4>5. m % Amount = m - (r + 1)
        BY <1>1, <2>1, <3>4, <4>1, <4>4 DEF m
      <4> QED
        BY <1>1, <2>1, <3>4, <4>5 DEF m
    <3>6. m \in Nat /\ r < m /\ Amount - 1 <= m
      BY <1>1, <2>1, <3>3, <3>4
    <3>7. m < n => FALSE
      BY <1>4, <3>4, <3>5, <3>6
    <3>8. n - r < Amount
      BY <1>1, <1>3, <2>1, <3>4, <3>7
    <3> QED
      BY <3>3, <3>8 DEF Follows
  <2> QED
    BY <1>3, <2>2, <2>3, <2>4
<1> QED
  BY <1>5, <1>6

(* A scan comes out at the last word, when the chip has handed over         *)
(* everything before.                                                       *)
LEMMA ScanComesOut ==
  ASSUME MissesAllowed, TypeInv, Covered, Exact, NEW c \in Chips, sram[c] # <<>>
  PROVE  Scan(recieved[c], sram[c]) = sram[c][Len(sram[c])]
<1> DEFINE r == recieved[c]
           s == sram[c]
<1>1. /\ s \in Seq(Triggers) /\ Ascending(s) /\ ToSet(s) \subseteq recorded[c]
      /\ \A w \in ToSet(s) : r < w /\ \A n \in HandedOver(c) : n < w
      /\ r \in -1..MaxTrigger /\ recorded[c] \subseteq 0..next - 1
      /\ next \in Nat
  BY Numbers DEF TypeInv, TypeOK, Recording
<1>2. /\ s \in Seq(Nat) /\ \A i \in DOMAIN s : s[i] \in ToSet(s) /\ s[i] \in Nat
      /\ DOMAIN s = 1..Len(s) /\ r \in Nat \cup {-1}
  BY <1>1, Words
<1>3. \A m \in recorded[c] : m \in Int /\ (m \in HandedOver(c) \/ m \in ToSet(s))
  BY <1>1 DEF HandedOver
<1>4. /\ r = -1 => HandedOver(c) = {}
      /\ r # -1 => r \in recorded[c] /\ \A n \in HandedOver(c) : n <= r
  BY DEF Exact, HandedOver
<1>5. \A w \in ToSet(s) : \E i \in DOMAIN s : w = s[i]
  BY DEF ToSet
<1>6. s # <<>>
  OBVIOUS
<1> HIDE DEF r, s
<1>7. Follows(r, s[1])
  <2>1. 1 \in DOMAIN s
    BY <1>2, <1>6
  <2>2. s[1] \in recorded[c] /\ r < s[1] /\ s[1] \in Nat
    BY <1>1, <1>2, <2>1
  <2>3. ASSUME NEW m \in recorded[c], r < m, m < s[1] PROVE FALSE
    <3>1. CASE m \in HandedOver(c)
      BY <1>2, <1>3, <1>4, <2>3, <3>1
    <3>2. CASE m \in ToSet(s)
      <4>1. PICK i \in DOMAIN s : m = s[i]
        BY <1>5, <3>2
      <4>2. i = 1 \/ s[1] < s[i]
        BY <1>1, <1>2, <2>1, <4>1 DEF Ascending
      <4> QED
        BY <1>2, <2>2, <2>3, <4>1, <4>2
    <3> QED
      BY <1>3, <3>1, <3>2
  <2>4. r \in recorded[c] \cup {-1}
    BY <1>4
  <2> QED
    BY <2>2, <2>3, <2>4, RecordedFollow
<1>8. ASSUME NEW i \in 1..Len(s) - 1 PROVE Follows(s[i], s[i + 1])
  <2>0. Len(s) \in Nat
    BY <1>2
  <2>1. i \in DOMAIN s /\ i + 1 \in DOMAIN s /\ i < i + 1
    BY <1>2, <2>0
  <2>2. /\ s[i] \in recorded[c] /\ s[i + 1] \in recorded[c] /\ s[i] < s[i + 1]
        /\ s[i] \in Nat /\ s[i + 1] \in Nat /\ s[i] \in ToSet(s)
    BY <1>1, <1>2, <2>1 DEF Ascending
  <2>3. ASSUME NEW m \in recorded[c], s[i] < m, m < s[i + 1] PROVE FALSE
    <3>1. CASE m \in HandedOver(c)
      <4>1. m < s[i]
        BY <1>1, <2>2, <3>1
      <4> QED
        BY <1>3, <2>2, <2>3, <4>1
    <3>2. CASE m \in ToSet(s)
      <4>1. PICK j \in DOMAIN s : m = s[j]
        BY <1>5, <3>2
      <4>2. j \in Int /\ (j < i => s[j] < s[i]) /\ (i + 1 < j => s[i + 1] < s[j])
        BY <1>1, <1>2, <2>1, <4>1 DEF Ascending
      <4>3. j = i \/ j = i + 1 \/ j < i \/ i + 1 < j
        BY <4>2
      <4> QED
        BY <1>2, <2>2, <2>3, <4>1, <4>2, <4>3
    <3> QED
      BY <1>3, <3>1, <3>2
  <2> QED
    BY <2>2, <2>3, RecordedFollow
<1>9. Scan(r, s) = s[Len(s)]
  BY <1>2, <1>6, <1>7, <1>8, ScanExact
<1> QED
  BY <1>9 DEF r, s

(* The part about the chips' numbers.                                       *)
CoverInv == TypeInv /\ Covered /\ Exact

(* At the start of the producer.                                            *)
LEMMA CoverInit ==
  ASSUME Init
  PROVE  CoverInv
<1>1. \A c \in Chips : sram[c] = <<>> /\ recorded[c] = {} /\ recieved[c] = -1
  BY DEF Init, Nothing
<1>2. Covered
  <2>1. next \in 0..Amount - 1 /\ Amount \in Nat
    BY Numbers DEF Init
  <2> SUFFICES ASSUME NEW c \in Chips, NEW n \in 0..next - 1,
                      Amount - 1 <= n \/ \E r \in recorded[c] : r < n
               PROVE  FALSE
    BY DEF Covered
  <2>2. ~(Amount - 1 <= n)
    BY <2>1
  <2>3. recorded[c] = {}
    BY <1>1
  <2> QED
    BY <2>2, <2>3
<1>3. Exact
  BY <1>1 DEF Exact, HandedOver
<1> QED
  BY <1>2, <1>3, TypeInit DEF CoverInv

(* OnStartRun() keeps it.                                                   *)
LEMMA CoverOnStartRun ==
  ASSUME CoverInv, OnStartRun
  PROVE  Covered' /\ Exact'
<1>1. \A c \in Chips : sram'[c] = <<>> /\ recorded'[c] = {} /\ recieved'[c] = -1
  BY DEF OnStartRun, Nothing
<1>2. Covered'
  <2>1. next' \in 0..Amount - 1 /\ Amount \in Nat
    BY Numbers DEF OnStartRun
  <2> SUFFICES ASSUME NEW c \in Chips, NEW n \in 0..next' - 1,
                      Amount - 1 <= n \/ \E r \in recorded'[c] : r < n
               PROVE  FALSE
    BY DEF Covered
  <2>2. ~(Amount - 1 <= n)
    <3> DEFINE x == next'
    <3>1. x \in 0..Amount - 1 /\ n \in 0..x - 1 /\ Amount \in Nat
      BY <2>1
    <3> HIDE DEF x
    <3> QED
      BY <3>1
  <2>3. recorded'[c] = {}
    BY <1>1
  <2> QED
    BY <2>2, <2>3
<1>3. Exact'
  BY <1>1 DEF Exact, HandedOver
<1> QED
  BY <1>2, <1>3

(* A trigger keeps it: all chips record a number that nobody may miss.      *)
LEMMA CoverTrigger ==
  ASSUME CoverInv, NEW C \in SUBSET Chips, Trigger(C)
  PROVE  Covered' /\ Exact'
<1>1. TypeInv /\ Covered /\ Exact /\ next \in Nat /\ next' = next + 1
  BY Numbers DEF CoverInv, TypeInv, TypeOK, Trigger
<1>2. Covered'
  <2> SUFFICES ASSUME NEW c \in Chips, NEW n \in 0..next' - 1, n % Amount \notin MayMiss,
                      Amount - 1 <= n \/ \E r \in recorded'[c] : r < n
               PROVE  n \in recorded'[c]
    BY DEF Covered
  <2>1. recorded'[c] = recorded[c] \cup {next} \/ (c \notin C /\ recorded'[c] = recorded[c])
    BY <1>1, TriggerAt
  <2>2. CASE n = next
    <3>1. C = Chips
      BY <2>2 DEF Trigger
    <3> QED
      BY <2>1, <2>2, <3>1
  <2>3. CASE n # next
    <3>1. n \in 0..next - 1
      BY <1>1, <2>3
    <3>2. Amount - 1 <= n \/ \E r \in recorded[c] : r < n
      BY <1>1, <2>1, <3>1
    <3>3. n \in recorded[c]
      BY <1>1, <3>1, <3>2 DEF Covered
    <3> QED
      BY <2>1, <3>3
  <2> QED
    BY <2>2, <2>3
<1>3. Exact'
  <2>1. \A c \in Chips : HandedOver(c)' = HandedOver(c) /\ recieved'[c] = recieved[c]
    BY <1>1, TriggerAt DEF Trigger
  <2> QED
    BY <1>1, <2>1 DEF Exact, HandedOver
<1> QED
  BY <1>2, <1>3

(* dataPendingI4() keeps it: the scan comes out exactly.                    *)
LEMMA CoverDataPending ==
  ASSUME MissesAllowed, CoverInv, NEW b \in Boards, DataPending(b)
  PROVE  Covered' /\ Exact'
<1>1. /\ TypeInv /\ Covered /\ Exact /\ next' = next /\ recorded' = recorded
  BY DEF CoverInv, DataPending
<1>2. Covered'
  BY <1>1 DEF Covered
<1>3. ASSUME NEW c \in Chips
      PROVE  IF recieved'[c] = -1 THEN HandedOver(c)' = {}
             ELSE recieved'[c] \in HandedOver(c)'
                  /\ \A n \in HandedOver(c)' : n <= recieved'[c]
  <2>1. CASE c \in Layout[b] /\ sram[c] # <<>>
    <3> DEFINE s == sram[c]
               l == s[Len(s)]
    <3>1. recieved'[c] = l /\ HandedOver(c)' = recorded[c]
      BY <1>1, <2>1, DataAt, ScanComesOut
    <3>2. /\ s \in Seq(Triggers) /\ Ascending(s) /\ ToSet(s) \subseteq recorded[c]
          /\ \A w \in ToSet(s) : recieved[c] < w /\ \A n \in HandedOver(c) : n < w
          /\ recorded[c] \subseteq 0..next - 1
      BY <1>1 DEF TypeInv, TypeOK, Recording
    <3>3. /\ DOMAIN s = 1..Len(s) /\ Len(s) \in DOMAIN s
          /\ \A i \in DOMAIN s : s[i] \in ToSet(s) /\ s[i] \in Nat
      BY <2>1, <3>2, Words
    <3>4. \A n \in recorded[c] : n \in HandedOver(c) \/ \E i \in DOMAIN s : n = s[i]
      BY DEF HandedOver, ToSet
    <3>5. l \in recorded[c] /\ l \in Nat /\ l \in ToSet(s)
      BY <3>2, <3>3
    <3>6. \A i \in DOMAIN s : s[i] <= l
      <4> TAKE i \in DOMAIN s
      <4>1. i = Len(s) \/ s[i] < s[Len(s)]
        BY <3>2, <3>3 DEF Ascending
      <4> QED
        BY <3>3, <4>1
    <3>7. \A n \in HandedOver(c) : n <= l
      <4> TAKE n \in HandedOver(c)
      <4>1. n < l /\ n \in Int
        BY <3>2, <3>5 DEF HandedOver
      <4> QED
        BY <3>5, <4>1
    <3>8. \A n \in recorded[c] : n <= l
      BY <3>4, <3>6, <3>7
    <3> HIDE DEF s, l
    <3> QED
      BY <3>1, <3>5, <3>8
  <2>2. CASE ~(c \in Layout[b] /\ sram[c] # <<>>)
    <3>1. recieved'[c] = recieved[c] /\ HandedOver(c)' = HandedOver(c)
      <4>1. CASE c \in Layout[b]
        <5>0. sram[c] = <<>>
          BY <2>2, <4>1
        <5>1. sram[c] = <<>> /\ sram[c] \in Seq(Nat)
          BY <5>0
        <5>2. Scan(recieved[c], sram[c]) = recieved[c]
          <6>1. /\ Ascending(sram[c]) /\ \A i \in DOMAIN sram[c] : recieved[c] < sram[c][i]
                /\ recieved[c] \in Nat \cup {-1}
            BY <1>1, <5>1 DEF Ascending, TypeInv, TypeOK
          <6>2. Scan(recieved[c], sram[c]) \in recieved[c]..recieved[c]
            BY <5>1, <6>1, ScanBounded
          <6> QED
            BY <6>1, <6>2
        <5>3. HandedOver(c) = recorded[c]
          BY <5>1 DEF HandedOver, ToSet
        <5> QED
          BY <1>1, <4>1, <5>2, <5>3, DataAt
      <4>2. CASE c \notin Layout[b]
        BY <1>1, <4>2, DataAt
      <4> QED
        BY <4>1, <4>2
    <3> QED
      BY <1>1, <3>1 DEF Exact
  <2> QED
    BY <2>1, <2>2
<1> QED
  BY <1>2, <1>3 DEF Exact, HandedOver

(* So does every step.                                                      *)
LEMMA CoverNext ==
  ASSUME MissesAllowed, CoverInv, [Next]_vars
  PROVE  CoverInv'
<1>1. TypeInv /\ Covered /\ Exact /\ TypeInv'
  BY TypeNext DEF CoverInv
<1>2. CASE UNCHANGED <<next, sram, recorded, recieved>>
  BY <1>1, <1>2 DEF CoverInv, Covered, Exact, HandedOver
<1>3. CASE UNCHANGED vars
  BY <1>2, <1>3 DEF vars, triggerVars
<1>4. CASE ReadOut
  BY <1>2, <1>4 DEF ReadOut, triggerVars
<1>5. CASE EndRun
  BY <1>2, <1>5 DEF EndRun, triggerVars
<1>6. CASE SendEvent
  BY <1>2, <1>6 DEF SendEvent, triggerVars
<1>7. CASE SendFails
  BY <1>2, <1>7 DEF SendFails, triggerVars
<1>8. CASE OnStartRun
  BY <1>1, <1>8, CoverOnStartRun DEF CoverInv
<1>9. ASSUME NEW C \in SUBSET Chips, Trigger(C) PROVE CoverInv'
  BY <1>1, <1>9, CoverTrigger DEF CoverInv
<1>10. ASSUME NEW b \in Boards, DataPending(b) PROVE CoverInv'
  BY <1>1, <1>10, CoverDataPending DEF CoverInv
<1> QED
  BY <1>3, <1>4, <1>5, <1>6, <1>7, <1>8, <1>9, <1>10 DEF Next

(* The chip's number is the greatest one it handed over.                    *)
LEMMA ExactIsMax ==
  ASSUME TypeInv, Exact
  PROVE  RecievedIsExact
<1> SUFFICES ASSUME NEW c \in Chips PROVE recieved[c] = Max(HandedOver(c) \cup {-1})
  BY DEF RecievedIsExact
<1>1. /\ recorded[c] \subseteq 0..next - 1 /\ next \in Nat /\ recieved[c] \in Int
      /\ HandedOver(c) \subseteq recorded[c]
  BY Numbers DEF TypeInv, TypeOK, Recording, HandedOver
<1> DEFINE S == HandedOver(c) \cup {-1}
<1>2. S \subseteq Int /\ -1 \in S /\ \A x \in S : x <= next
  BY <1>1
<1>3. recieved[c] \in S /\ \A x \in S : x <= recieved[c]
  <2>1. CASE recieved[c] = -1
    BY <2>1 DEF Exact
  <2>2. CASE recieved[c] # -1
    <3>1. recieved[c] \in HandedOver(c) /\ \A n \in HandedOver(c) : n <= recieved[c]
      BY <2>2 DEF Exact
    <3> QED
      BY <1>1, <3>1
  <2> QED
    BY <2>1, <2>2
<1> HIDE DEF S
<1>4. S # {} /\ next \in Int
  BY <1>1, <1>2
<1>5. Max(S) \in S /\ \A x \in S : x <= Max(S)
  BY <1>2, <1>4, MaxInSet
<1>6. recieved[c] = Max(S)
  <2>1. Max(S) <= recieved[c] /\ recieved[c] <= Max(S) /\ Max(S) \in Int
    BY <1>2, <1>3, <1>5
  <2> QED
    BY <1>1, <2>1
<1> QED
  BY <1>6 DEF S

(* The rollover is undone exactly (84-106), for every lap length, every     *)
(* number of laps and every cutting of the triggers into rounds:            *)
(* recieved_trigger is the true number of the last trigger the chip handed  *)
(* over, provided that the chips miss no more than MissesAllowed.           *)
THEOREM ExactCorrect ==
  ASSUME MissesAllowed
  PROVE  Spec => []RecievedIsExact
<1>1. CoverInv /\ [Next]_vars => CoverInv'
  BY CoverNext
<1>2. CoverInv => RecievedIsExact
  BY ExactIsMax DEF CoverInv
<1>3. Init => CoverInv
  BY CoverInit
<1> QED
  BY <1>1, <1>2, <1>3, PTL DEF Spec

-----------------------------------------------------------------------------
(* SendInv: what a turn of the loop does, then action by action.            *)

(* Before a number beyond the first lap there is a lap's last one.          *)
LEMMA EndBefore ==
  ASSUME NEW w \in Nat, Amount <= w
  PROVE  \E e \in Nat : e < w /\ Amount - 1 <= e /\ e % Amount = Amount - 1
<1> DEFINE j == w \div Amount
           s == w % Amount
           e == w - s - 1
           k == e \div Amount
           t == e % Amount
<1>1. j \in Nat /\ s \in 0..Amount - 1 /\ w = Amount * j + s /\ Amount * j \in Nat
  BY LapAndPlace, LapsApart
<1>2. Amount \in Nat \ {0}
  BY AmountAssumption
<1>3. j # 0
  <2>1. j = 0 => Amount * j = 0
    BY <1>2
  <2> HIDE DEF j, s
  <2> QED
    BY <1>1, <1>2, <2>1
<1>4. j - 1 \in Nat /\ Amount * (j - 1) \in Nat
      /\ Amount * j = Amount * (j - 1) + Amount
  <2> HIDE DEF j
  <2>1. j - 1 \in Nat
    BY <1>1, <1>3
  <2>2. Amount * (j - 1) \in Nat /\ Amount * ((j - 1) + 1) = Amount * (j - 1) + Amount
    BY <2>1, LapsApart
  <2>3. (j - 1) + 1 = j
    BY <1>1, <2>1
  <2> QED
    BY <2>1, <2>2, <2>3
<1>5. e = Amount * (j - 1) + (Amount - 1) /\ e \in Nat /\ e < w
  <2> HIDE DEF j, s
  <2> QED
    BY <1>1, <1>2, <1>4
<1>6. k \in Nat /\ t \in 0..Amount - 1 /\ e = Amount * k + t /\ Amount * k \in Nat
  BY <1>5, LapAndPlace, LapsApart
<1> HIDE DEF e, j, k, s, t
<1>7. /\ k < j - 1 => Amount * k + Amount <= Amount * (j - 1)
      /\ j - 1 < k => Amount * (j - 1) + Amount <= Amount * k
  BY <1>4, <1>6, LapsApart
<1>8. k = j - 1
  BY <1>1, <1>2, <1>4, <1>5, <1>6, <1>7
<1>9. t = Amount - 1 /\ Amount - 1 <= e
  BY <1>2, <1>4, <1>5, <1>6, <1>8
<1> QED
  BY <1>5, <1>9 DEF t

(* What a chip has handed over are earlier triggers, and those it keeps are *)
(* the others.                                                              *)
LEMMA Handed ==
  ASSUME TypeInv, NEW c \in Chips
  PROVE  /\ HandedOver(c) \subseteq recorded[c] /\ recorded[c] \subseteq 0..next - 1
         /\ \A n \in recorded[c] : n \in Nat /\ n < next
         /\ \A n \in recorded[c] : n \in HandedOver(c) \/ n \in ToSet(sram[c])
         /\ next \in Nat /\ recieved[c] \in Int
<1>1. recorded[c] \subseteq 0..next - 1 /\ next \in Nat /\ recieved[c] \in Int
  BY Numbers DEF TypeInv, TypeOK, Recording
<1>2. HandedOver(c) \subseteq recorded[c]
  BY DEF HandedOver
<1>3. \A n \in recorded[c] : n \in Nat /\ n < next
  BY <1>1
<1>4. \A n \in recorded[c] : n \in HandedOver(c) \/ n \in ToSet(sram[c])
  BY DEF HandedOver
<1> QED
  BY <1>1, <1>2, <1>3, <1>4

(* How far the numbers have been gone through is a number from -1 on.       *)
LEMMA ReachedIs ==
  ASSUME TypeInv
  PROVE  /\ Reached \in Int /\ -1 <= Reached /\ counter \in Nat /\ limit \in Int
         /\ lastTrigger \in Int
         /\ Sending => Reached = counter - 1 /\ counter <= limit
         /\ ~Sending => Reached = lastTrigger
<1>1. /\ counter \in 0..MaxTrigger + 1 /\ limit \in -1..MaxTrigger
      /\ lastTrigger \in -1..MaxTrigger /\ MaxTrigger \in Nat
      /\ Sending => counter <= limit
  BY Numbers DEF TypeInv, TypeOK, Bounded
<1> QED
  BY <1>1 DEF Reached

(* Behind the last number of a lap every chip has something to show for it. *)
LEMMA EndIsRecorded ==
  ASSUME MissesAllowed, TypeInv, Covered, NEW c \in Chips, NEW e \in Nat,
         e < next, e % Amount = Amount - 1, Amount - 1 <= e
  PROVE  e \in recorded[c]
<1>1. Amount - 1 \notin MayMiss /\ e \in 0..next - 1
  BY Numbers DEF MissesAllowed, TypeInv, TypeOK
<1> QED
  BY <1>1 DEF Covered

(* The inductive invariant of the whole.                                    *)
SendInv ==
  /\ CoverInv /\ Queued /\ Starting /\ Limits /\ EventAligned /\ DummyMeansMissing

(* Before a turn: the words that are too small by their true numbers are so *)
(* by their TLU numbers, and behind the next rollover there is nothing      *)
(* without its last number before it.                                       *)
LEMMA TurnPremises ==
  ASSUME MissesAllowed, SendInv, Sending, NEW c \in Chips
  PROVE  /\ counter \in Nat /\ eventData[c] \in Seq(Nat) /\ Ascending(eventData[c])
         /\ \A w \in ToSet(eventData[c]) :
              w < counter => w % Amount < counter % Amount
         /\ ~Derailed => \A w \in ToSet(eventData[c]) :
              LapEnd(counter) < w => LapEnd(counter) \in ToSet(eventData[c])
<1> DEFINE n == counter
           q == eventData[c]
<1>1. /\ CoverInv /\ TypeInv /\ Covered /\ Queued
      /\ n \in Nat /\ Reached = n - 1
  BY ReachedIs DEF SendInv, CoverInv
<1>2. /\ q \in Seq(Nat) /\ Ascending(q) /\ ToSet(q) \subseteq HandedOver(c)
      /\ \A w \in ToSet(q) : w \in Nat /\ w < next
      /\ Untouched \/ \A w \in ToSet(q) : n - 1 < w
      /\ ~Derailed => \A m \in HandedOver(c) : n - 1 < m => m \in failed \cup ToSet(q)
  <2>1. q \in Seq(Triggers)
    BY <1>1 DEF TypeInv, TypeOK
  <2>2. q \in Seq(Nat)
    BY <2>1, Words
  <2>3. ToSet(q) \subseteq HandedOver(c)
    BY <1>1 DEF Queued
  <2>4. \A w \in ToSet(q) : w \in Nat /\ w < next
    BY <1>1, <2>3, Handed
  <2> QED
    BY <1>1, <2>2, <2>3, <2>4 DEF Queued
<1>3. Amount \in Nat \ {0} /\ next \in Nat
  BY <1>1, Numbers DEF TypeInv, TypeOK
<1>4. ASSUME NEW w \in ToSet(q), w < n PROVE w % Amount < n % Amount
  <2>1. Untouched
    BY <1>1, <1>2, <1>4
  <2>2. n - 1 < Amount - 1
    BY <1>1, <2>1 DEF Untouched
  <2>3. w \in 0..Amount - 1 /\ n \in 0..Amount - 1 /\ w < n
    BY <1>1, <1>2, <1>3, <1>4, <2>2
  <2> HIDE DEF n
  <2>4. w % Amount = w /\ n % Amount = n
    BY <1>3, <2>3
  <2> QED
    BY <2>3, <2>4
<1>5. ASSUME ~Derailed, NEW w \in ToSet(q), LapEnd(n) < w PROVE LapEnd(n) \in ToSet(q)
  <2> DEFINE e == LapEnd(n)
  <2>1. e \in Nat /\ n <= e /\ Amount - 1 <= e /\ e % Amount = Amount - 1
    BY <1>1, WithinLap
  <2>2. e < w /\ w \in HandedOver(c) /\ w \in Nat /\ w < next
    BY <1>2, <1>5
  <2> HIDE DEF e
  <2>3. e \in recorded[c]
    BY <1>1, <1>3, <2>1, <2>2, EndIsRecorded
  <2>4. e \notin ToSet(sram[c])
    <3>1. e \in ToSet(sram[c]) => w < e
      BY <1>1, <2>2 DEF TypeInv, Recording
    <3> QED
      BY <2>1, <2>2, <3>1
  <2>5. e \in HandedOver(c)
    BY <2>3, <2>4 DEF HandedOver
  <2>6. e \notin failed
    BY <1>5, <2>1 DEF Derailed
  <2> QED
    BY <1>1, <1>2, <1>5, <2>1, <2>5, <2>6 DEF e
<1> QED
  BY <1>1, <1>2, <1>4, <1>5

(* What a turn does of one chip.                                            *)
LEMMA TurnDone ==
  ASSUME MissesAllowed, SendInv, Sending, NEW c \in Chips
  PROVE  LET rest == Rest(counter, eventData[c])
             block == Block(counter, eventData[c])
         IN  /\ Ascending(rest) /\ ToSet(rest) \subseteq HandedOver(c)
             /\ \A w \in ToSet(rest) : counter < w
             /\ ~Derailed =>
                  /\ block \in {counter, Dummy}
                  /\ counter \in ToSet(eventData[c]) => block = counter
                  /\ \A m \in HandedOver(c) :
                       counter < m => m \in failed \cup ToSet(rest)
                  /\ \A i \in DOMAIN eventData[c] :
                       i <= Len(eventData[c]) - Len(Remaining(counter, eventData[c]))
                         => eventData[c][i] < counter
<1> DEFINE rest == Rest(counter, eventData[c])
           block == Block(counter, eventData[c])
<1>1. /\ counter \in Nat /\ eventData[c] \in Seq(Nat) /\ Ascending(eventData[c])
      /\ \A w \in ToSet(eventData[c]) :
           w < counter => w % Amount < counter % Amount
      /\ ~Derailed => \A w \in ToSet(eventData[c]) :
           LapEnd(counter) < w => LapEnd(counter) \in ToSet(eventData[c])
  BY TurnPremises
<1>2. Ascending(rest) /\ ToSet(rest) \subseteq ToSet(eventData[c])
  BY <1>1, RestIsPart
<1>3. /\ ToSet(eventData[c]) \subseteq HandedOver(c)
      /\ ~Derailed => \A m \in HandedOver(c) :
           Reached < m => m \in failed \cup ToSet(eventData[c])
  BY DEF SendInv, Queued
<1>4. Reached = counter - 1
  BY ReachedIs DEF SendInv, CoverInv
<1>5. \A w \in ToSet(rest) : counter < w
  BY <1>1, TurnGoesOn
<1>6. ASSUME ~Derailed
      PROVE  /\ block \in {counter, Dummy}
             /\ counter \in ToSet(eventData[c]) => block = counter
             /\ \A w \in ToSet(eventData[c]) : counter < w => w \in ToSet(rest)
             /\ \A i \in DOMAIN eventData[c] :
                  i <= Len(eventData[c]) - Len(Remaining(counter, eventData[c]))
                    => eventData[c][i] < counter
  <2>1. \A w \in ToSet(eventData[c]) :
           LapEnd(counter) < w => LapEnd(counter) \in ToSet(eventData[c])
    BY <1>1, <1>6
  <2> QED
    BY <1>1, <2>1, TurnIsExact
<1>7. ASSUME ~Derailed, NEW m \in HandedOver(c), counter < m
      PROVE  m \in failed \cup ToSet(rest)
  <2>1. m \in Nat /\ Reached < m
    BY <1>1, <1>4, <1>7, Handed DEF SendInv, CoverInv
  <2> QED
    BY <1>3, <1>6, <1>7, <2>1
<1> QED
  BY <1>2, <1>3, <1>5, <1>6, <1>7

(* The part about the loop that sends.                                      *)
SendParts == Queued /\ Starting /\ Limits /\ EventAligned /\ DummyMeansMissing

(* At the start of the producer.                                            *)
LEMMA SendInit ==
  ASSUME Init
  PROVE  SendParts
<1>1. /\ \A c \in Chips : sram[c] = <<>> /\ recorded[c] = {} /\ recieved[c] = -1
                          /\ eventData[c] = <<>> /\ event.blocks[c] = Dummy
      /\ at = "idle" /\ lastTrigger = -1 /\ event.number = -1
      /\ first = -1 /\ failed = {}
  BY DEF Init, Nothing, NoEvent
<1>2. \A c \in Chips : HandedOver(c) = {}
  BY <1>1 DEF HandedOver
<1>3. Reached = -1 /\ ~Sending
  BY <1>1 DEF Reached, Sending
<1>4. Untouched
  BY <1>1, <1>3, Numbers DEF Untouched
<1>5. Queued
  BY <1>1, <1>2, <1>4 DEF Queued, Ascending, ToSet
<1>6. Starting
  BY <1>1, <1>2, <1>3 DEF Starting
<1>7. Limits
  <2>1. \E c \in Chips : recieved[c] <= lastTrigger
    <3>1. PICK c \in Chips : TRUE
      BY Numbers
    <3>2. recieved[c] = -1 /\ lastTrigger = -1
      BY <1>1
    <3> QED
      BY <3>2
  <2> QED
    BY <1>1, <1>4, <2>1 DEF Limits
<1>8. EventAligned /\ DummyMeansMissing
  BY <1>1 DEF EventAligned, DummyMeansMissing
<1> QED
  BY <1>5, <1>6, <1>7, <1>8 DEF SendParts

(* OnStartRun() keeps it.                                                   *)
LEMMA SendOnStartRun ==
  ASSUME SendInv, OnStartRun
  PROVE  SendParts'
<1>1. /\ \A c \in Chips : sram'[c] = <<>> /\ recorded'[c] = {} /\ recieved'[c] = -1
                          /\ eventData'[c] = <<>> /\ event'.blocks[c] = Dummy
      /\ at' = "idle" /\ lastTrigger' = -1 /\ event'.number = -1
      /\ first' = -1 /\ failed' = {}
  BY DEF OnStartRun, Nothing, NoEvent
<1>2. \A c \in Chips : HandedOver(c)' = {}
  BY <1>1 DEF HandedOver
<1>3. Reached' = -1 /\ ~Sending'
  BY <1>1 DEF Reached, Sending
<1>4. Untouched'
  BY <1>1, <1>3, Numbers DEF Untouched
<1>5. Queued'
  BY <1>1, <1>2, <1>4 DEF Queued, Ascending, ToSet
<1>6. Starting'
  BY <1>1, <1>2, <1>3 DEF Starting
<1>7. Limits'
  <2>1. \E c \in Chips : recieved'[c] <= lastTrigger'
    <3>1. PICK c \in Chips : TRUE
      BY Numbers
    <3>2. recieved'[c] = -1 /\ lastTrigger' = -1
      BY <1>1
    <3> QED
      BY <3>2
  <2> QED
    BY <1>1, <1>4, <2>1 DEF Limits
<1>8. EventAligned' /\ DummyMeansMissing'
  BY <1>1 DEF EventAligned, DummyMeansMissing
<1> QED
  BY <1>5, <1>6, <1>7, <1>8 DEF SendParts

(* Nothing changes for the loop that sends while the chips record, or while *)
(* a round of read-outs starts.                                             *)
LEMMA SendQuiet ==
  ASSUME SendInv,
         UNCHANGED <<at, recieved, eventData, lastTrigger, counter, limit,
                     allReceived, event, first, failed>>,
         \A c \in Chips : HandedOver(c)' = HandedOver(c),
         sram' = sram \/ at = "idle",
         \A c \in Chips : event.number \in recorded'[c] => event.number \in recorded[c]
  PROVE  SendParts'
<1>1. Reached' = Reached /\ (Untouched <=> Untouched') /\ (Derailed <=> Derailed')
  BY DEF Reached, Sending, Untouched, Derailed
<1>2. Queued'
  BY <1>1 DEF SendInv, Queued
<1>3. Starting'
  BY <1>1 DEF SendInv, Starting
<1>4. Limits'
  BY <1>1 DEF SendInv, Limits
<1>5. EventAligned' /\ DummyMeansMissing'
  BY <1>1 DEF SendInv, EventAligned, DummyMeansMissing
<1> QED
  BY <1>2, <1>3, <1>4, <1>5 DEF SendParts

(* A trigger keeps it.                                                      *)
LEMMA SendTrigger ==
  ASSUME SendInv, NEW C \in SUBSET Chips, Trigger(C)
  PROVE  SendParts'
<1>1. TypeInv /\ next \in Nat /\ event.number < next /\ at = "idle"
  BY Numbers DEF SendInv, CoverInv, TypeInv, TypeOK, Bounded, Trigger
<1>2. \A c \in Chips : HandedOver(c)' = HandedOver(c)
  BY <1>1, TriggerAt
<1>3. \A c \in Chips : event.number \in recorded'[c] => event.number \in recorded[c]
  <2> TAKE c \in Chips
  <2>1. recorded'[c] = recorded[c] \cup {next} \/ recorded'[c] = recorded[c]
    BY <1>1, TriggerAt
  <2>2. event.number # next
    BY <1>1
  <2> QED
    BY <2>1, <2>2
<1>4. UNCHANGED <<at, recieved, eventData, lastTrigger, counter, limit,
                  allReceived, event, first, failed>>
  BY DEF Trigger, sendVars
<1> QED
  BY <1>1, <1>2, <1>3, <1>4, SendQuiet

(* A round of read-outs keeps it.                                           *)
LEMMA SendReadOut ==
  ASSUME SendInv, ReadOut
  PROVE  SendParts'
<1>1. /\ UNCHANGED <<at, recieved, eventData, lastTrigger, counter, limit,
                     allReceived, event, first, failed>>
      /\ sram' = sram /\ recorded' = recorded
  BY DEF ReadOut, triggerVars, sendVars
<1>2. \A c \in Chips : HandedOver(c)' = HandedOver(c)
  BY <1>1 DEF HandedOver
<1> QED
  BY <1>1, <1>2, SendQuiet

(* The first number of the run, when a board's data sets it: either that    *)
(* board has only words with the number 0, or one of its chips recorded the *)
(* number itself, which is in the first lap.                                *)
LEMMA FirstNumber ==
  ASSUME MissesAllowed, SendInv, NEW b \in Boards, DataPending(b), lastTrigger = -1
  PROVE  /\ lastTrigger' = -1 =>
              \A c \in Layout[b] : \A w \in ToSet(sram[c]) : w = 0
         /\ lastTrigger' # -1 =>
              \E c \in Layout[b] : lastTrigger' + 1 \in recorded[c]
         /\ lastTrigger' < Amount - 1
<1>1. /\ TypeInv /\ TypeOK /\ Covered /\ at = "idle" /\ Reached = -1
      /\ lastTrigger' = FirstWord(lastTrigger, b)
      /\ \A c \in Layout[b] : c \in Chips
  BY Numbers DEF SendInv, CoverInv, TypeInv, DataPending, BeginSend, Reached, Sending
<1>2. Amount \in Nat \ {0} /\ Amount - 1 \in Nat \ {0}
  BY AmountAssumption DEF MissesAllowed
<1>3. ASSUME NEW c \in Layout[b], NEW k \in DOMAIN sram[c],
             \A i \in 1..k - 1 : ~Telling(sram[c][i])
      PROVE  sram[c][k] \in Nat /\ sram[c][k] < Amount /\ sram[c][k] \in recorded[c]
  <2> DEFINE w == sram[c][k]
  <2>1. c \in Chips /\ sram[c] \in Seq(Triggers) /\ Ascending(sram[c])
        /\ ToSet(sram[c]) \subseteq recorded[c]
    BY <1>1 DEF TypeInv, TypeOK, Recording
  <2>2. w \in ToSet(sram[c]) /\ w \in Nat
    BY <2>1, Words
  <2>3. w \in recorded[c] /\ w < next
    BY <1>1, <2>1, <2>2, Handed
  <2>4. DOMAIN sram[c] = 1..Len(sram[c]) /\ \A i \in DOMAIN sram[c] : sram[c][i] \in Nat
    BY <2>1, Words
  <2> HIDE DEF w
  <2>5. ASSUME Amount <= w PROVE FALSE
    <3>1. PICK e \in Nat : e < w /\ Amount - 1 <= e /\ e % Amount = Amount - 1
      BY <2>2, <2>5, EndBefore
    <3>2. e < next
      <4>1. next \in Nat
        BY <1>1, <2>1, Handed
      <4> QED
        BY <2>2, <2>3, <3>1, <4>1
    <3>3. e \in recorded[c]
      BY <1>1, <2>1, <3>1, <3>2, EndIsRecorded
    <3>4. HandedOver(c) \subseteq {0}
      BY <1>1, <2>1 DEF SendInv, Starting
    <3>5. e # 0
      BY <1>2, <3>1
    <3>6. e \in ToSet(sram[c])
      BY <3>3, <3>4, <3>5 DEF HandedOver
    <3>7. PICK j \in DOMAIN sram[c] : e = sram[c][j]
      BY <3>6 DEF ToSet
    <3>8. j < k
      <4>1. k < j => w < e
        BY <2>1, <3>7 DEF Ascending, w
      <4>2. k = j => w = e
        BY <3>7 DEF w
      <4>3. j \in Int /\ k \in Int
        BY <2>4
      <4> QED
        BY <2>2, <3>1, <4>1, <4>2, <4>3
    <3>9. j \in 1..k - 1
      BY <2>4, <3>8
    <3>10. ~Telling(e)
      BY <1>3, <3>7, <3>9
    <3>11. Telling(e)
      BY <1>2, <3>1 DEF Telling
    <3> QED
      BY <3>10, <3>11
  <2> QED
    BY <1>2, <2>2, <2>3, <2>5 DEF w
<1>4. \A n \in 0..Amount - 1 : n % Amount = n
  BY <1>2
<1>5. \/ /\ lastTrigger' = -1
         /\ \A c \in Layout[b] : \A w \in ToSet(sram[c]) : ~Telling(w)
      \/ \E c \in Layout[b] : \E k \in DOMAIN sram[c] :
           /\ lastTrigger' = (sram[c][k] % Amount) - 1
           /\ Telling(sram[c][k])
           /\ \A i \in 1..k - 1 : ~Telling(sram[c][i])
  BY <1>1, FirstWordIs
<1>6. CASE /\ lastTrigger' = -1
           /\ \A c \in Layout[b] : \A w \in ToSet(sram[c]) : ~Telling(w)
  <2> SUFFICES ASSUME NEW c \in Layout[b], NEW w \in ToSet(sram[c])
               PROVE  w = 0
    BY <1>2, <1>6
  <2>1. PICK k \in DOMAIN sram[c] : w = sram[c][k]
    BY DEF ToSet
  <2>2. sram[c] \in Seq(Triggers)
    BY <1>1 DEF TypeOK
  <2>3. \A i \in DOMAIN sram[c] : sram[c][i] \in ToSet(sram[c])
    BY <2>2, Words
  <2>4. \A i \in 1..k - 1 : i \in DOMAIN sram[c]
    BY <2>2
  <2>5. \A i \in 1..k - 1 : ~Telling(sram[c][i])
    BY <1>6, <2>3, <2>4
  <2>6. w \in Nat /\ w < Amount
    BY <1>3, <2>1, <2>5
  <2>7. w % Amount = w /\ ~Telling(w)
    BY <1>2, <1>4, <1>6, <2>6
  <2> QED
    BY <2>7 DEF Telling
<1>7. ASSUME NEW c \in Layout[b], NEW k \in DOMAIN sram[c],
             lastTrigger' = (sram[c][k] % Amount) - 1,
             Telling(sram[c][k]),
             \A i \in 1..k - 1 : ~Telling(sram[c][i])
      PROVE  lastTrigger' # -1 /\ lastTrigger' + 1 \in recorded[c]
             /\ lastTrigger' < Amount - 1
  <2> DEFINE w == sram[c][k]
  <2>1. w \in Nat /\ w < Amount /\ w \in recorded[c]
    BY <1>3, <1>7
  <2>2. lastTrigger' = (w % Amount) - 1 /\ w % Amount # 0
    BY <1>7 DEF Telling
  <2> HIDE DEF w
  <2>3. w % Amount = w
    BY <1>2, <1>4, <2>1
  <2> QED
    BY <1>2, <2>1, <2>2, <2>3
<1> QED
  BY <1>5, <1>6, <1>7

(* dataPendingI4() keeps it.                                                *)
LEMMA SendDataPending ==
  ASSUME MissesAllowed, SendInv, NEW b \in Boards, DataPending(b)
  PROVE  SendParts'
<1>1. /\ TypeInv /\ TypeOK /\ Covered /\ Queued /\ Starting /\ Limits /\ TypeInv'
      /\ CoverInv
      /\ at = "idle" /\ Reached = lastTrigger /\ ~Sending
      /\ lastTrigger \in Int /\ lastTrigger' \in Int /\ -1 <= lastTrigger
  <2>1. TypeInv /\ TypeInv' /\ at = "idle"
    BY TypeDataPending DEF SendInv, CoverInv, DataPending
  <2>2. lastTrigger \in Int /\ -1 <= lastTrigger /\ lastTrigger' \in Int
    BY <2>1 DEF TypeInv, TypeOK
  <2> QED
    BY <2>1, <2>2 DEF SendInv, CoverInv, TypeInv, Reached, Sending
<1>2. /\ next' = next /\ recorded' = recorded /\ allReceived' = SameEverywhere(recieved')
      /\ lastTrigger' = FirstWord(lastTrigger, b) /\ limit' = Least(recieved')
      /\ counter' = lastTrigger' + 1
      /\ at' = IF limit' # -1 /\ lastTrigger' + 1 <= limit' THEN "send" ELSE "idle"
      /\ event' = event /\ first' = first /\ failed' = failed
  BY DEF DataPending, BeginSend, sendVars
<1>3. Reached' = lastTrigger' /\ lastTrigger <= lastTrigger'
      /\ (lastTrigger # -1 => lastTrigger' = lastTrigger)
  <2>1. lastTrigger <= lastTrigger'
    BY <1>1, <1>2, FirstWordBounded
  <2>2. lastTrigger # -1 => lastTrigger' = lastTrigger
    BY <1>1, <1>2, FirstWordIs
  <2>3. Reached' = lastTrigger'
    BY <1>1, <1>2 DEF Reached
  <2> QED
    BY <2>1, <2>2, <2>3
<1>4. \A c \in Chips : HandedOver(c) \subseteq HandedOver(c)'
  <2> TAKE c \in Chips
  <2>1. HandedOver(c) \subseteq recorded[c]
    BY <1>1, Handed
  <2>2. HandedOver(c)' = recorded[c] \/ HandedOver(c)' = HandedOver(c)
    BY <1>1, DataAt
  <2> QED
    BY <2>1, <2>2
<1>5. (Untouched <=> Untouched') /\ (Derailed <=> Derailed')
  <2>1. Derailed <=> Derailed'
    BY <1>2 DEF Derailed
  <2>2. CASE lastTrigger # -1
    <3>1. Reached' = Reached /\ first' = first /\ failed' = failed
      BY <1>1, <1>2, <1>3, <2>2
    <3> QED
      BY <2>1, <3>1 DEF Untouched
  <2>3. CASE lastTrigger = -1
    <3>1. lastTrigger' < Amount - 1
      BY <2>3, FirstNumber
    <3>2. first = -1 /\ failed \subseteq {0} /\ lastTrigger < Amount - 1
      BY <1>1, <2>3, AmountAssumption DEF Starting, MissesAllowed
    <3> QED
      BY <1>1, <1>2, <1>3, <2>1, <3>1, <3>2 DEF Untouched
  <2> QED
    BY <2>1, <2>2, <2>3
<1>6. /\ recieved' \in [Chips -> -1..MaxTrigger]
      /\ \A c \in Chips : recieved[c] <= recieved'[c] /\ recieved[c] \in Int
                          /\ recieved'[c] \in Int
  <2>1. TypeOK' /\ \A c \in Chips : recieved[c] \in Int
    BY <1>1 DEF TypeInv, TypeOK
  <2>2. recieved' \in [Chips -> -1..MaxTrigger]
    BY <2>1 DEF TypeOK
  <2>3. ASSUME NEW c \in Chips
        PROVE  recieved[c] <= recieved'[c] /\ recieved[c] \in Int /\ recieved'[c] \in Int
    <3>1. recieved'[c] \in -1..MaxTrigger /\ MaxTrigger \in Nat
      BY <2>2, Numbers
    <3>2. recieved[c] <= recieved'[c]
      BY <1>1, DataAt
    <3> QED
      BY <2>1, <3>1, <3>2
  <2> QED
    BY <2>2, <2>3
<1>7. ~Untouched => \A c \in Chips : lastTrigger <= recieved[c] /\ lastTrigger' = lastTrigger
  <2>1. ~Untouched => lastTrigger # -1
    <3>1. lastTrigger = -1 => first = -1 /\ failed \subseteq {0} /\ lastTrigger < Amount - 1
      BY <1>1, AmountAssumption DEF Starting, MissesAllowed
    <3> QED
      BY <1>1, <3>1 DEF Untouched
  <2> QED
    BY <1>1, <1>3, <2>1 DEF Limits
<1>8. Queued'
  <2> SUFFICES ASSUME NEW c \in Chips
               PROVE  /\ Ascending(eventData'[c])
                      /\ ToSet(eventData'[c]) \subseteq HandedOver(c)'
                      /\ Untouched' \/ \A w \in ToSet(eventData'[c]) : Reached' < w
                      /\ ~Derailed' => \A n \in HandedOver(c)' :
                           Reached' < n => n \in failed' \cup ToSet(eventData'[c])
    BY DEF Queued
  <2> DEFINE q == eventData[c]
             s == sram[c]
  <2>1. /\ Ascending(q) /\ ToSet(q) \subseteq HandedOver(c)
        /\ Untouched \/ \A w \in ToSet(q) : Reached < w
        /\ ~Derailed => \A n \in HandedOver(c) : Reached < n => n \in failed \cup ToSet(q)
    BY <1>1 DEF Queued
  <2>2. /\ s \in Seq(Triggers) /\ q \in Seq(Triggers) /\ Ascending(s)
        /\ ToSet(s) \subseteq recorded[c]
        /\ \A w \in ToSet(s) : recieved[c] < w /\ \A n \in HandedOver(c) : n < w
    BY <1>1 DEF TypeInv, TypeOK, Recording
  <2>3. \A n \in recorded[c] : n \in Nat /\ (n \in HandedOver(c) \/ n \in ToSet(s))
    BY <1>1, Handed
  <2>4. CASE c \notin Layout[b]
    <3>1. eventData'[c] = q /\ HandedOver(c)' = HandedOver(c)
      BY <1>1, <2>4, DataAt
    <3>2. Untouched' \/ \A w \in ToSet(q) : Reached' < w
      BY <1>1, <1>3, <1>5, <1>7, <2>1
    <3>3. ASSUME ~Derailed', NEW n \in HandedOver(c)', Reached' < n
          PROVE  n \in failed' \cup ToSet(q)
      <4>1. n \in HandedOver(c) /\ n \in Nat
        BY <1>1, <3>1, <3>3, Handed
      <4>2. Reached < n
        BY <1>1, <1>3, <3>3, <4>1
      <4> QED
        BY <1>2, <1>5, <2>1, <3>3, <4>1, <4>2
    <3> QED
      BY <2>1, <3>1, <3>2, <3>3
  <2>5. CASE c \in Layout[b]
    <3>1. eventData'[c] = q \o s /\ HandedOver(c)' = recorded[c]
      BY <1>1, <2>5, DataAt
    <3> HIDE DEF q, s
    <3>2. ToSet(q \o s) = ToSet(q) \cup ToSet(s) /\ Ascending(q \o s)
      <4>1. /\ Len(q \o s) = Len(q) + Len(s)
            /\ \A i \in 1..Len(q) : (q \o s)[i] = q[i]
            /\ \A i \in 1..Len(s) : (q \o s)[Len(q) + i] = s[i]
            /\ DOMAIN q = 1..Len(q) /\ DOMAIN s = 1..Len(s)
            /\ DOMAIN (q \o s) = 1..Len(q) + Len(s)
            /\ Len(q) \in Nat /\ Len(s) \in Nat
        BY <2>2
      <4>2. \A i \in DOMAIN (q \o s) : i \in 1..Len(q) \/ i - Len(q) \in 1..Len(s)
        BY <4>1
      <4>3. \A i \in DOMAIN (q \o s) :
              \/ i \in DOMAIN q /\ (q \o s)[i] = q[i]
              \/ /\ i - Len(q) \in DOMAIN s /\ (q \o s)[i] = s[i - Len(q)]
                 /\ i \notin DOMAIN q
        <5> TAKE i \in DOMAIN (q \o s)
        <5>1. CASE i \in 1..Len(q)
          BY <4>1, <5>1
        <5>2. CASE i \notin 1..Len(q)
          <6>1. i - Len(q) \in 1..Len(s) /\ Len(q) + (i - Len(q)) = i
            BY <4>1, <4>2, <5>2
          <6> QED
            BY <4>1, <5>2, <6>1
        <5> QED
          BY <5>1, <5>2
      <4>4. /\ \A w \in ToSet(q \o s) : w \in ToSet(q) \cup ToSet(s)
        BY <4>3 DEF ToSet
      <4>5. \A i \in DOMAIN q : q[i] \in ToSet(q \o s)
        BY <4>1 DEF ToSet
      <4>6. \A i \in DOMAIN s : s[i] \in ToSet(q \o s)
        <5> TAKE i \in DOMAIN s
        <5>1. Len(q) + i \in DOMAIN (q \o s) /\ (q \o s)[Len(q) + i] = s[i]
          BY <4>1
        <5> QED
          BY <5>1 DEF ToSet
      <4>7. ToSet(q \o s) = ToSet(q) \cup ToSet(s)
        BY <4>4, <4>5, <4>6 DEF ToSet
      <4>8. ASSUME NEW i \in DOMAIN (q \o s), NEW j \in DOMAIN (q \o s), i < j
            PROVE  (q \o s)[i] < (q \o s)[j]
        <5>1. CASE i \in DOMAIN q /\ j \in DOMAIN q
          BY <2>1, <4>1, <4>8, <5>1 DEF Ascending, q
        <5>2. CASE i \in DOMAIN q /\ j \notin DOMAIN q
          <6>1. (q \o s)[i] \in ToSet(q) /\ (q \o s)[j] \in ToSet(s)
            BY <4>3, <5>2 DEF ToSet
          <6> QED
            BY <2>1, <2>2, <6>1 DEF q, s
        <5>3. CASE i \notin DOMAIN q
          <6>1. j \notin DOMAIN q /\ i - Len(q) < j - Len(q)
            BY <4>1, <4>8, <5>3
          <6>2. /\ i - Len(q) \in DOMAIN s /\ j - Len(q) \in DOMAIN s
                /\ (q \o s)[i] = s[i - Len(q)] /\ (q \o s)[j] = s[j - Len(q)]
            BY <4>3, <5>3, <6>1
          <6> QED
            BY <2>2, <6>1, <6>2 DEF Ascending, s
        <5> QED
          BY <5>1, <5>2, <5>3
      <4> QED
        BY <4>7, <4>8 DEF Ascending
    <3>3. ToSet(q \o s) \subseteq recorded[c]
      BY <1>1, <2>1, <2>2, <3>2, Handed DEF q, s
    <3>4. Untouched' \/ \A w \in ToSet(q \o s) : Reached' < w
      <4> SUFFICES ASSUME ~Untouched, NEW w \in ToSet(q \o s) PROVE Reached' < w
        BY <1>5
      <4>1. lastTrigger <= recieved[c] /\ lastTrigger' = lastTrigger
        BY <1>7
      <4>2. CASE w \in ToSet(q)
        BY <1>1, <1>3, <2>1, <4>1, <4>2 DEF q
      <4>3. CASE w \in ToSet(s)
        <5>1. recieved[c] < w /\ w \in Nat
          BY <2>2, <2>3, <4>3 DEF s
        <5> QED
          BY <1>1, <1>3, <1>6, <4>1, <5>1
      <4> QED
        BY <3>2, <4>2, <4>3
    <3>5. ASSUME ~Derailed', NEW n \in recorded[c], Reached' < n
          PROVE  n \in failed' \cup ToSet(q \o s)
      <4>1. CASE n \in ToSet(s)
        BY <3>2, <4>1
      <4>2. CASE n \in HandedOver(c)
        <5>1. Reached < n
          BY <1>1, <1>3, <2>3, <3>5
        <5> QED
          BY <1>2, <1>5, <2>1, <3>2, <3>5, <4>2, <5>1 DEF q
      <4> QED
        BY <2>3, <4>1, <4>2 DEF s
    <3> QED
      BY <3>1, <3>2, <3>3, <3>4, <3>5
  <2> QED
    BY <2>4, <2>5
<1>9. Starting'
  <2>1. Reached' = -1 => /\ first' = -1 /\ failed' \subseteq {0}
                         /\ \A c \in Chips : HandedOver(c)' \subseteq {0}
    <3> SUFFICES ASSUME Reached' = -1
                 PROVE  /\ first' = -1 /\ failed' \subseteq {0}
                        /\ \A c \in Chips : HandedOver(c)' \subseteq {0}
      OBVIOUS
    <3>1. lastTrigger' = -1 /\ lastTrigger = -1
      BY <1>1, <1>3
    <3>2. /\ first = -1 /\ failed \subseteq {0}
          /\ \A c \in Chips : HandedOver(c) \subseteq {0}
      BY <1>1, <3>1 DEF Starting
    <3>3. \A c \in Layout[b] : \A w \in ToSet(sram[c]) : w = 0
      BY <3>1, FirstNumber
    <3>4. \A c \in Chips : HandedOver(c)' \subseteq {0}
      <4> TAKE c \in Chips
      <4>1. CASE c \notin Layout[b]
        BY <1>1, <3>2, <4>1, DataAt
      <4>2. CASE c \in Layout[b]
        <5>1. HandedOver(c)' = recorded[c]
          BY <1>1, <4>2, DataAt
        <5>2. \A n \in recorded[c] : n \in HandedOver(c) \/ n \in ToSet(sram[c])
          BY <1>1, Handed
        <5> QED
          BY <3>2, <3>3, <4>2, <5>1, <5>2
      <4> QED
        BY <4>1, <4>2
    <3> QED
      BY <1>2, <3>2, <3>4
  <2>2. first' = -1 /\ failed' = {} /\ Reached' # -1 =>
          \E c \in Chips : Reached' + 1 \in HandedOver(c)'
    <3> SUFFICES ASSUME first' = -1, failed' = {}, Reached' # -1
                 PROVE  \E c \in Chips : Reached' + 1 \in HandedOver(c)'
      OBVIOUS
    <3>1. CASE lastTrigger # -1
      <4>1. \E c \in Chips : Reached + 1 \in HandedOver(c)
        BY <1>1, <1>2, <3>1 DEF Starting
      <4> QED
        BY <1>1, <1>3, <1>4, <3>1, <4>1
    <3>2. CASE lastTrigger = -1
      <4>1. PICK c \in Layout[b] : lastTrigger' + 1 \in recorded[c]
        BY <1>3, <3>2, FirstNumber
      <4>2. c \in Chips /\ HandedOver(c)' = recorded[c]
        BY <1>1, <4>1, DataAt, Numbers
      <4> QED
        BY <1>3, <4>1, <4>2
    <3> QED
      BY <3>1, <3>2
  <2>3. \A n \in failed' : n <= Reached' + 1
    <3> TAKE n \in failed'
    <3>1. n \in failed /\ n \in Int
      BY <1>1, <1>2 DEF TypeOK, Triggers
    <3>2. n <= Reached + 1
      BY <1>1, <3>1 DEF Starting
    <3>3. Reached \in Int /\ Reached' \in Int /\ Reached <= Reached'
      BY <1>1, <1>3
    <3> DEFINE r == Reached
               q == Reached'
    <3>4. r \in Int /\ q \in Int /\ r <= q /\ n <= r + 1 /\ n \in Int
      BY <3>1, <3>2, <3>3
    <3> HIDE DEF r, q
    <3>5. n <= q + 1
      BY <3>4
    <3> QED
      BY <3>5 DEF q
  <2> QED
    BY <2>1, <2>2, <2>3 DEF Starting
<1>10. Limits'
  <2>1. /\ \A c \in Chips : limit' <= recieved'[c]
        /\ \E c \in Chips : limit' = recieved'[c]
        /\ limit' \in Int /\ -1 <= limit'
        /\ allReceived' => \A c, d \in Chips : recieved'[c] = recieved'[d]
    BY <1>2, <1>6, LeastAndGreatest
  <2>2. PICK d \in Chips : limit' = recieved'[d]
    BY <2>1
  <2>3. at' = "idle" => recieved'[d] <= lastTrigger'
    BY <1>1, <1>2, <1>3, <2>1, <2>2
  <2>4. \A c \in Chips : at' = "idle" /\ ~Untouched' => lastTrigger' <= recieved'[c]
    <3> TAKE c \in Chips
    <3> HAVE at' = "idle" /\ ~Untouched'
    <3>1. lastTrigger <= recieved[c] /\ lastTrigger' = lastTrigger
      BY <1>5, <1>7
    <3> QED
      BY <1>1, <1>6, <3>1
  <2>5. at' \in {"send", "idle"}
    BY <1>2
  <2>6. recieved'[d] <= limit'
    BY <2>1, <2>2
  <2> QED
    BY <2>1, <2>3, <2>4, <2>5, <2>6 DEF Limits
<1>11. EventAligned' /\ DummyMeansMissing'
  BY <1>2, <1>5 DEF SendInv, EventAligned, DummyMeansMissing
<1> QED
  BY <1>8, <1>9, <1>10, <1>11 DEF SendParts

(* OnStopRun() keeps it.                                                    *)
LEMMA SendEndRun ==
  ASSUME SendInv, EndRun
  PROVE  SendParts'
<1>1. /\ TypeInv /\ TypeOK /\ Queued /\ Starting /\ Limits
      /\ at = "idle" /\ Reached = lastTrigger /\ lastTrigger \in Int /\ -1 <= lastTrigger
  BY DEF SendInv, CoverInv, TypeInv, TypeOK, EndRun, Reached, Sending
<1>2. /\ \A c \in Chips : sram[c] = <<>>
      /\ next' = next /\ recorded' = recorded /\ sram' = sram
      /\ allReceived' = allReceived /\ recieved' = recieved
      /\ eventData' = eventData
      /\ event' = event /\ first' = first /\ failed' = failed
      /\ lastTrigger' = lastTrigger
  BY DEF EndRun, BeginSend, triggerVars, sendVars, Nothing
<1>3. \/ at' = "over" /\ allReceived
      \/ /\ limit' = Greatest(recieved) /\ counter' = lastTrigger + 1
         /\ at' = IF limit' # -1 /\ lastTrigger + 1 <= limit' THEN "end" ELSE "over"
  BY DEF EndRun, BeginSend
<1>4. Reached' = Reached /\ (Untouched <=> Untouched') /\ (Derailed <=> Derailed')
  <2>1. Reached' = Reached
    BY <1>1, <1>2, <1>3 DEF Reached, Sending
  <2> QED
    BY <1>2, <2>1 DEF Untouched, Derailed
<1>5. Queued'
  BY <1>1, <1>2, <1>4 DEF Queued, HandedOver
<1>6. Starting'
  BY <1>1, <1>2, <1>4 DEF Starting, HandedOver
<1>7. Limits'
  <2>1. recieved \in [Chips -> -1..MaxTrigger] /\ \A c \in Chips : recieved[c] \in Int
    BY <1>1 DEF TypeOK
  <2>2. /\ \A c \in Chips : recieved[c] <= Greatest(recieved)
        /\ Greatest(recieved) \in Int /\ -1 <= Greatest(recieved)
    BY <2>1, LeastAndGreatest, Numbers
  <2>3. at' = "end" => \A c \in Chips : recieved[c] <= limit'
    BY <1>3, <2>2
  <2>4. failed = {} /\ at' = "over" => \A c \in Chips : recieved[c] <= lastTrigger
    <3>1. CASE allReceived
      BY <1>1, <3>1 DEF Limits
    <3>2. ASSUME limit' = Greatest(recieved),
                 ~(limit' # -1 /\ lastTrigger + 1 <= limit'), NEW c \in Chips
          PROVE  recieved[c] <= lastTrigger
      BY <1>1, <2>1, <2>2, <3>2
    <3> QED
      BY <1>3, <3>1, <3>2
  <2>5. at' \in {"end", "over"}
    BY <1>3
  <2> QED
    BY <1>1, <1>2, <2>3, <2>4, <2>5 DEF Limits
<1>8. EventAligned' /\ DummyMeansMissing'
  BY <1>2, <1>4 DEF SendInv, EventAligned, DummyMeansMissing
<1> QED
  BY <1>5, <1>6, <1>7, <1>8 DEF SendParts

(* A turn of the loop keeps it.                                             *)
LEMMA SendSendEvent ==
  ASSUME MissesAllowed, SendInv, SendEvent
  PROVE  SendParts'
<1>1. /\ TypeInv /\ TypeOK /\ Queued /\ Starting /\ Limits /\ Sending
      /\ TakeBlocks /\ next' = next /\ recorded' = recorded /\ sram' = sram
      /\ allReceived' = allReceived /\ recieved' = recieved /\ limit' = limit
      /\ failed' = failed /\ counter' = counter + 1
      /\ event' = [number |-> counter,
                   blocks |-> [c \in Chips |-> Block(counter, eventData[c])]]
      /\ first' = IF first = -1 THEN counter ELSE first
      /\ \/ counter' <= limit /\ at' = at /\ lastTrigger' = lastTrigger
         \/ ~(counter' <= limit) /\ at' = Idle /\ lastTrigger' = counter
  BY DEF SendInv, CoverInv, TypeInv, SendEvent, Sending, triggerVars
<1>2. /\ counter \in Nat /\ Reached = counter - 1 /\ counter <= limit /\ limit \in Int
      /\ \A c \in Chips : recieved[c] \in Int
  BY <1>1, ReachedIs DEF TypeOK
<1>3. /\ Reached' = counter /\ first' # -1 /\ ~Untouched'
      /\ (Derailed <=> Derailed')
      /\ \A c \in Chips : HandedOver(c)' = HandedOver(c)
  <2>1. Reached' = counter
    BY <1>1, <1>2 DEF Reached, Sending, Idle
  <2>2. first' # -1
    BY <1>1, <1>2
  <2> QED
    BY <1>1, <2>1, <2>2 DEF Untouched, Derailed, HandedOver
<1>4. ASSUME NEW c \in Chips
      PROVE  /\ eventData'[c] = Rest(counter, eventData[c])
             /\ Ascending(eventData'[c]) /\ ToSet(eventData'[c]) \subseteq HandedOver(c)
             /\ \A w \in ToSet(eventData'[c]) : counter < w
             /\ ~Derailed =>
                  /\ Block(counter, eventData[c]) \in {counter, Dummy}
                  /\ counter \in ToSet(eventData[c]) =>
                       Block(counter, eventData[c]) = counter
                  /\ \A m \in HandedOver(c) :
                       counter < m => m \in failed \cup ToSet(eventData'[c])
  <2>1. eventData'[c] = Rest(counter, eventData[c])
    BY <1>1 DEF TakeBlocks
  <2> QED
    BY <1>1, <2>1, TurnDone
<1>5. Queued'
  BY <1>1, <1>3, <1>4 DEF Queued
<1>6. Starting'
  <2>1. \A n \in failed' : n <= Reached' + 1
    <3> TAKE n \in failed'
    <3>1. n \in failed /\ n \in Int
      BY <1>1 DEF TypeOK, Triggers
    <3>2. n <= Reached + 1
      BY <1>1, <3>1 DEF Starting
    <3>3. n <= counter
      BY <1>2, <3>1, <3>2
    <3> QED
      BY <1>2, <1>3, <3>1, <3>3
  <2>2. Reached' # -1
    BY <1>2, <1>3
  <2> QED
    BY <1>3, <2>1, <2>2 DEF Starting
<1>7. Limits'
  <2>1. CASE at = "send"
    <3>1. /\ \A c \in Chips : limit <= recieved[c]
          /\ \E c \in Chips : recieved[c] <= limit
      BY <1>1, <2>1 DEF Limits
    <3>2. at' \in {"send", "idle"} /\ (at' = "idle" => lastTrigger' = counter /\ limit = counter)
      BY <1>1, <1>2, <2>1 DEF Idle
    <3>3. at' = "idle" => /\ \A c \in Chips : lastTrigger' <= recieved[c]
                          /\ \E c \in Chips : recieved[c] <= lastTrigger'
      BY <3>1, <3>2
    <3>4. allReceived' => \A c, d \in Chips : recieved'[c] = recieved'[d]
      BY <1>1 DEF Limits
    <3> QED
      BY <1>1, <3>1, <3>2, <3>3, <3>4 DEF Limits
  <2>2. CASE at = "end"
    <3>1. /\ \A c \in Chips : recieved[c] <= limit
          /\ \A c \in Chips : sram[c] = <<>>
      BY <1>1, <2>2 DEF Limits
    <3>2. at' \in {"end", "over"} /\ (at' = "over" => lastTrigger' = counter /\ limit = counter)
      BY <1>1, <1>2, <2>2 DEF Idle
    <3>3. at' = "over" => \A c \in Chips : recieved[c] <= lastTrigger'
      BY <3>1, <3>2
    <3>4. allReceived' => \A c, d \in Chips : recieved'[c] = recieved'[d]
      BY <1>1 DEF Limits
    <3> QED
      BY <1>1, <3>1, <3>2, <3>3, <3>4 DEF Limits
  <2> QED
    BY <1>1, <2>1, <2>2 DEF Sending
<1>8. EventAligned' /\ DummyMeansMissing'
  <2>1. event'.number = counter
        /\ \A c \in Chips : event'.blocks[c] = Block(counter, eventData[c])
    BY <1>1
  <2>2. EventAligned'
    BY <1>3, <1>4, <2>1 DEF EventAligned
  <2>3. DummyMeansMissing'
    <3> SUFFICES ASSUME ~Derailed, NEW c \in Chips, counter \in recorded[c],
                        Block(counter, eventData[c]) = Dummy
                 PROVE  counter \in failed
      BY <1>1, <1>3, <2>1 DEF DummyMeansMissing
    <3>1. counter \notin ToSet(sram[c])
      <4>1. CASE at = "send"
        <5>1. counter <= recieved[c]
          BY <1>1, <1>2, <4>1 DEF Limits
        <5>2. counter \in ToSet(sram[c]) => recieved[c] < counter
          BY <1>1 DEF TypeInv, Recording
        <5> QED
          BY <1>2, <5>1, <5>2
      <4>2. CASE at = "end"
        <5>1. sram[c] = <<>>
          BY <1>1, <4>2 DEF Limits
        <5> QED
          BY <5>1 DEF ToSet
      <4> QED
        BY <1>1, <4>1, <4>2 DEF Sending
    <3>2. counter \in HandedOver(c)
      BY <3>1 DEF HandedOver
    <3>3. counter \in failed \cup ToSet(eventData[c])
      BY <1>1, <1>2, <3>2 DEF Queued
    <3>4. counter # Dummy
      BY <1>2 DEF Dummy
    <3> QED
      BY <1>4, <3>3, <3>4
  <2> QED
    BY <2>2, <2>3
<1> QED
  BY <1>5, <1>6, <1>7, <1>8 DEF SendParts

(* A turn whose SendEvent() throws keeps it.                                *)
LEMMA SendSendFails ==
  ASSUME MissesAllowed, SendInv, SendFails
  PROVE  SendParts'
<1>1. /\ TypeInv /\ TypeOK /\ Queued /\ Starting /\ Limits /\ Sending
      /\ TakeBlocks /\ next' = next /\ recorded' = recorded /\ sram' = sram
      /\ allReceived' = allReceived /\ recieved' = recieved /\ limit' = limit
      /\ failed' = failed \cup {counter} /\ counter' = counter
      /\ event' = event /\ first' = first
      /\ at' = Idle /\ lastTrigger' = counter - 1
  BY DEF SendInv, CoverInv, TypeInv, SendFails, Sending, triggerVars
<1>2. /\ counter \in Nat /\ Reached = counter - 1 /\ counter <= limit /\ limit \in Int
      /\ \A c \in Chips : recieved[c] \in Int
  BY <1>1, ReachedIs DEF TypeOK
<1>3. /\ Reached' = Reached /\ (~Derailed' => ~Derailed)
      /\ \A c \in Chips : HandedOver(c)' = HandedOver(c)
  <2>1. Reached' = counter - 1
    BY <1>1 DEF Reached, Sending, Idle
  <2> QED
    BY <1>1, <1>2, <2>1 DEF Derailed, HandedOver
<1>4. ASSUME NEW c \in Chips
      PROVE  /\ Ascending(eventData'[c]) /\ ToSet(eventData'[c]) \subseteq HandedOver(c)
             /\ \A w \in ToSet(eventData'[c]) : counter < w /\ w \in Nat
             /\ ~Derailed => \A m \in HandedOver(c) :
                  counter < m => m \in failed \cup ToSet(eventData'[c])
  <2>1. eventData'[c] = Rest(counter, eventData[c])
    BY <1>1 DEF TakeBlocks
  <2>2. /\ Ascending(eventData'[c]) /\ ToSet(eventData'[c]) \subseteq HandedOver(c)
        /\ \A w \in ToSet(eventData'[c]) : counter < w
        /\ ~Derailed => \A m \in HandedOver(c) :
                  counter < m => m \in failed \cup ToSet(eventData'[c])
    BY <1>1, <2>1, TurnDone
  <2>3. \A w \in HandedOver(c) : w \in Nat
    BY <1>1, Handed
  <2> QED
    BY <2>2, <2>3
<1>5. Queued'
  <2> SUFFICES ASSUME NEW c \in Chips
               PROVE  /\ Ascending(eventData'[c])
                      /\ ToSet(eventData'[c]) \subseteq HandedOver(c)'
                      /\ \A w \in ToSet(eventData'[c]) : Reached' < w
                      /\ ~Derailed' => \A n \in HandedOver(c)' :
                           Reached' < n => n \in failed' \cup ToSet(eventData'[c])
    BY DEF Queued
  <2>1. \A w \in ToSet(eventData'[c]) : Reached' < w
    <3> TAKE w \in ToSet(eventData'[c])
    <3>1. counter < w /\ w \in Nat
      BY <1>4
    <3> QED
      BY <1>2, <1>3, <3>1
  <2>2. ASSUME ~Derailed', NEW n \in HandedOver(c)', Reached' < n
        PROVE  n \in failed' \cup ToSet(eventData'[c])
    <3>1. n \in HandedOver(c) /\ n \in Nat
      BY <1>1, <1>3, Handed
    <3>2. n = counter \/ counter < n
      BY <1>2, <1>3, <2>2, <3>1
    <3> QED
      BY <1>1, <1>3, <1>4, <2>2, <3>1, <3>2
  <2> QED
    BY <1>3, <1>4, <2>1, <2>2
<1>6. Starting'
  <2>1. \A n \in failed' : n <= Reached' + 1
    <3> TAKE n \in failed'
    <3>1. n \in Int /\ (n \in failed \/ n = counter)
      BY <1>1, <1>2 DEF TypeOK, Triggers
    <3>2. n \in failed => n <= Reached + 1
      BY <1>1, <3>1 DEF Starting
    <3>3. n <= counter
      BY <1>2, <3>1, <3>2
    <3> QED
      BY <1>2, <1>3, <3>1, <3>3
  <2>2. Reached' = -1 => /\ first' = -1 /\ failed' \subseteq {0}
                         /\ \A c \in Chips : HandedOver(c)' \subseteq {0}
    <3> SUFFICES ASSUME Reached' = -1
                 PROVE  /\ first' = -1 /\ failed' \subseteq {0}
                        /\ \A c \in Chips : HandedOver(c)' \subseteq {0}
      OBVIOUS
    <3>1. counter = 0 /\ Reached = -1
      BY <1>2, <1>3
    <3>2. first = -1 /\ failed \subseteq {0} /\ \A c \in Chips : HandedOver(c) \subseteq {0}
      BY <1>1, <3>1 DEF Starting
    <3> QED
      BY <1>1, <1>3, <3>1, <3>2
  <2>3. failed' # {}
    BY <1>1
  <2> QED
    BY <2>1, <2>2, <2>3 DEF Starting
<1>7. Limits'
  <2>1. failed' # {} /\ at' \in {"idle", "over"} /\ (at' = "idle" => at = "send")
        /\ (at' = "over" => at = "end")
    BY <1>1 DEF Idle, Sending
  <2>2. at = "send" => \A c \in Chips : lastTrigger' <= recieved[c]
    <3> SUFFICES ASSUME at = "send", NEW c \in Chips PROVE lastTrigger' <= recieved[c]
      OBVIOUS
    <3>1. limit <= recieved[c]
      BY <1>1 DEF Limits
    <3> QED
      BY <1>1, <1>2, <3>1
  <2>3. allReceived' => \A c, d \in Chips : recieved'[c] = recieved'[d]
    BY <1>1 DEF Limits
  <2>4. at' = "over" => \A c \in Chips : sram'[c] = <<>>
    BY <1>1, <2>1 DEF Limits
  <2> QED
    BY <1>1, <2>1, <2>2, <2>3, <2>4 DEF Limits
<1>8. EventAligned' /\ DummyMeansMissing'
  BY <1>1, <1>3 DEF SendInv, EventAligned, DummyMeansMissing
<1> QED
  BY <1>5, <1>6, <1>7, <1>8 DEF SendParts

(* So does every step.                                                      *)
LEMMA SendNext ==
  ASSUME MissesAllowed, SendInv, [Next]_vars
  PROVE  SendInv'
<1>1. CoverInv'
  BY CoverNext DEF SendInv
<1>2. CASE UNCHANGED vars
  <2>1. /\ UNCHANGED <<at, recieved, eventData, lastTrigger, counter, limit,
                       allReceived, event, first, failed>>
        /\ sram' = sram /\ recorded' = recorded
    BY <1>2 DEF vars, triggerVars, sendVars
  <2>2. \A c \in Chips : HandedOver(c)' = HandedOver(c)
    BY <2>1 DEF HandedOver
  <2> QED
    BY <1>1, <2>1, <2>2, SendQuiet DEF SendInv, SendParts
<1>3. CASE OnStartRun
  BY <1>1, <1>3, SendOnStartRun DEF SendInv, SendParts
<1>4. CASE ReadOut
  BY <1>1, <1>4, SendReadOut DEF SendInv, SendParts
<1>5. CASE EndRun
  BY <1>1, <1>5, SendEndRun DEF SendInv, SendParts
<1>6. CASE SendEvent
  BY <1>1, <1>6, SendSendEvent DEF SendInv, SendParts
<1>7. CASE SendFails
  BY <1>1, <1>7, SendSendFails DEF SendInv, SendParts
<1>8. ASSUME NEW C \in SUBSET Chips, Trigger(C) PROVE SendInv'
  BY <1>1, <1>8, SendTrigger DEF SendInv, SendParts
<1>9. ASSUME NEW b \in Boards, DataPending(b) PROVE SendInv'
  BY <1>1, <1>9, SendDataPending DEF SendInv, SendParts
<1> QED
  BY <1>2, <1>3, <1>4, <1>5, <1>6, <1>7, <1>8, <1>9 DEF Next

(* What a turn drops is past.                                               *)
LEMMA DroppedPast ==
  ASSUME MissesAllowed, SendInv
  PROVE  DroppedIsPast
  BY TurnDone DEF DroppedIsPast, Sending

(* When no chip is ahead of the numbers gone through, nothing is queued.    *)
LEMMA NothingAhead ==
  ASSUME SendInv, failed = {}, ~Sending, \A c \in Chips : recieved[c] <= lastTrigger
  PROVE  \A c \in Chips : eventData[c] = <<>>
<1>1. /\ TypeInv /\ TypeOK /\ Exact /\ Queued /\ Starting
      /\ Reached = lastTrigger /\ lastTrigger \in Int /\ -1 <= lastTrigger
  BY ReachedIs DEF SendInv, CoverInv, TypeInv
<1>2. ASSUME NEW c \in Chips, NEW w \in HandedOver(c)
      PROVE  w \in Nat /\ w <= recieved[c] /\ recieved[c] # -1 /\ w <= lastTrigger
  <2>1. recieved[c] # -1 /\ w <= recieved[c]
    BY <1>1, <1>2 DEF Exact
  <2>2. w \in Nat /\ recieved[c] \in Int /\ recieved[c] <= lastTrigger
    BY <1>1, Handed
  <2> QED
    BY <1>1, <2>1, <2>2
<1>3. ASSUME NEW c \in Chips, NEW w \in ToSet(eventData[c]) PROVE FALSE
  <2>1. w \in HandedOver(c) /\ w \in Nat /\ w <= lastTrigger /\ recieved[c] <= lastTrigger
    BY <1>1, <1>2 DEF Queued
  <2>2. CASE Untouched
    <3>1. first = -1
      BY <2>2 DEF Untouched
    <3>2. lastTrigger # -1
      BY <2>1
    <3>3. PICK d \in Chips : lastTrigger + 1 \in HandedOver(d)
      BY <1>1, <3>1, <3>2 DEF Starting
    <3>4. lastTrigger + 1 <= lastTrigger
      BY <1>2, <3>3
    <3> QED
      BY <1>1, <3>4
  <2>3. CASE ~Untouched
    <3>1. Reached < w
      BY <1>1, <2>3 DEF Queued
    <3> QED
      BY <1>1, <2>1, <3>1
  <2> QED
    BY <2>2, <2>3
<1>4. ASSUME NEW c \in Chips PROVE eventData[c] = <<>>
  <2>1. eventData[c] \in Seq(Triggers)
    BY <1>1 DEF TypeOK
  <2>2. eventData[c] # <<>> => \E w : w \in ToSet(eventData[c])
    BY <2>1, Words
  <2> QED
    BY <1>3, <2>2
<1> QED
  BY <1>4

(* At the end of a run, and when all_events_recieved says so, nothing is    *)
(* queued.                                                                  *)
LEMMA NothingKeptBack ==
  ASSUME SendInv
  PROVE  NothingKept
<1>1. TypeInv /\ TypeOK /\ Exact /\ Limits
  BY DEF SendInv, CoverInv, TypeInv
<1>2. (\A c \in Chips : eventData[c] = <<>>) => eventData = Nothing
  BY <1>1 DEF TypeOK, Nothing
<1>3. ASSUME failed = {}, at = "idle", allReceived
      PROVE  eventData = Nothing
  <2>1. \A c \in Chips : recieved[c] <= lastTrigger
    BY <1>1, <1>3 DEF Limits
  <2> QED
    BY <1>2, <1>3, <2>1, NothingAhead DEF Sending
<1>4. ASSUME failed = {}, at = "over"
      PROVE  /\ eventData = Nothing
             /\ \A c \in Chips : \A n \in recorded[c] : n <= lastTrigger
  <2>1. \A c \in Chips : recieved[c] <= lastTrigger /\ sram[c] = <<>>
    BY <1>1, <1>4 DEF Limits
  <2>2. eventData = Nothing
    BY <1>2, <1>4, <2>1, NothingAhead DEF Sending
  <2>3. ASSUME NEW c \in Chips, NEW n \in recorded[c] PROVE n <= lastTrigger
    <3>1. n \in HandedOver(c)
      BY <2>1 DEF HandedOver, ToSet
    <3>2. n <= recieved[c]
      BY <1>1, <3>1 DEF Exact
    <3>3. n \in Nat /\ recieved[c] \in Int /\ lastTrigger \in Int
      BY <1>1, Handed, ReachedIs
    <3> QED
      BY <2>1, <3>2, <3>3
  <2> QED
    BY <2>2, <2>3
<1> QED
  BY <1>3, <1>4 DEF NothingKept

(* The invariant holds, when the chips miss no more than MissesAllowed.     *)
LEMMA SendInvariant ==
  ASSUME MissesAllowed
  PROVE  Spec => []SendInv
<1>1. Init => SendInv
  BY CoverInit, SendInit DEF SendInv, SendParts
<1>2. SendInv /\ [Next]_vars => SendInv'
  BY SendNext
<1> QED
  BY <1>1, <1>2, PTL DEF Spec

(* Events are aligned (255-309), for every lap length, number of chips and  *)
(* pattern of allowed misses: all the data in an event is of the event's    *)
(* own trigger, unless SendEvent() threw at the last number of a lap.       *)
THEOREM AlignedCorrect ==
  ASSUME MissesAllowed
  PROVE  Spec => []EventAligned
<1>1. SendInv => EventAligned
  BY DEF SendInv
<1> QED
  BY <1>1, SendInvariant, PTL

(* A dummy tells the truth (270-289, 311-321): the chip did not record that *)
(* trigger, or SendEvent() threw for this number before.                    *)
THEOREM DummyCorrect ==
  ASSUME MissesAllowed
  PROVE  Spec => []DummyMeansMissing
<1>1. SendInv => DummyMeansMissing
  BY DEF SendInv
<1> QED
  BY <1>1, SendInvariant, PTL

(* What is dropped as too small (260-269) is indeed past, when the chips    *)
(* never miss the last number of a lap (without that condition it is not).  *)
THEOREM DroppedCorrect ==
  ASSUME MissesAllowed
  PROVE  Spec => []DroppedIsPast
<1>1. SendInv => DroppedIsPast
  BY DroppedPast
<1> QED
  BY <1>1, SendInvariant, PTL

(* Nothing is kept back for good (155-161, STeudaq_producer.cxx:485): a run *)
(* that no SendEvent() threw in ends with every recorded trigger sent, and  *)
(* all_events_recieved says so only when nothing is queued.                 *)
THEOREM NothingKeptCorrect ==
  ASSUME MissesAllowed
  PROVE  Spec => []NothingKept
<1>1. SendInv => NothingKept
  BY NothingKeptBack
<1> QED
  BY <1>1, SendInvariant, PTL
=============================================================================
