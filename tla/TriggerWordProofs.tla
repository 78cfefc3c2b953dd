------------------------- MODULE TriggerWordProofs --------------------------
(***************************************************************************)
(* What the code makes of one list of trigger words: facts about the       *)
(* operators of TriggerAlign, for every Amount, every Margin and every     *)
(* list.  Scan goes through a list by recursion, so there is induction     *)
(* over the words here; it comes from the least-number principle, which is *)
(* a fact of first-order logic about sets of natural numbers.              *)
(***************************************************************************)
EXTENDS TriggerAlign, WellFoundedInduction, SequenceTheorems, TLAPS

(* A set of natural numbers has a least one: what induction rests on here.  *)
LEMMA LeastNatural ==
  ASSUME NEW T, T \subseteq Nat, T # {}
  PROVE  \E m \in T : \A k \in T : m <= k
<1> DEFINE R == OpToRel(<, Nat)
<1>1. IsWellFoundedOn(R, Nat)
  BY NatLessThanWellFounded
<1>2. \A x, y \in Nat : <<x, y>> \in R <=> x < y
  BY DEF OpToRel
<1> HIDE DEF R
<1>3. PICK m \in T : \A y \in T : ~ (<<y, m>> \in R)
  BY <1>1, WFMin
<1>4. \A y \in T : ~(y < m)
  BY <1>2, <1>3
<1> QED
  BY <1>4

(* Induction over the natural numbers, stated of a set.                     *)
LEMMA Induction ==
  ASSUME NEW S, 0 \in S, \A n \in Nat : n \in S => n + 1 \in S
  PROVE  Nat \subseteq S
<1> SUFFICES ASSUME Nat \ S # {} PROVE FALSE
  OBVIOUS
<1>1. PICK m \in Nat \ S : \A k \in Nat \ S : m <= k
  BY LeastNatural
<1>2. m # 0 /\ m - 1 \in Nat /\ m - 1 \in S
  BY <1>1
<1> QED
  BY <1>1, <1>2

(* A set of integers that is bounded below has a least element, and Min is  *)
(* it.                                                                      *)
LEMMA MinInSet ==
  ASSUME NEW S, S \subseteq Int, S # {}, NEW low \in Int, \A x \in S : low <= x
  PROVE  Min(S) \in S /\ \A x \in S : Min(S) <= x
<1> DEFINE T == {x - low : x \in S}
<1>1. /\ \A t \in T : t \in Nat
      /\ \E t : t \in T
  <2>1. \E x : x \in S
    OBVIOUS
  <2>2. \A x \in S : x \in Int /\ x - low \in Nat
    OBVIOUS
  <2> QED
    BY <2>1, <2>2
<1> HIDE DEF T
<1>2. PICK m \in T : \A k \in T : m <= k
  <2>1. T \subseteq Nat /\ T # {}
    BY <1>1
  <2> QED
    BY <2>1, LeastNatural
<1>3. PICK x \in S : m = x - low
  BY DEF T
<1>4. \A y \in S : x <= y
  <2> TAKE y \in S
  <2>1. y - low \in T
    BY DEF T
  <2> QED
    BY <1>2, <1>3, <2>1
<1> QED
  BY <1>4 DEF Min

(* A set of integers that is bounded above has a greatest one, and Max is   *)
(* it.                                                                      *)
LEMMA MaxInSet ==
  ASSUME NEW S, S \subseteq Int, S # {}, NEW high \in Int, \A x \in S : x <= high
  PROVE  Max(S) \in S /\ \A x \in S : x <= Max(S)
<1> DEFINE T == {high - x : x \in S}
<1>1. /\ \A t \in T : t \in Nat
      /\ \E t : t \in T
  <2>1. \E x : x \in S
    OBVIOUS
  <2>2. \A x \in S : x \in Int /\ high - x \in Nat
    OBVIOUS
  <2> QED
    BY <2>1, <2>2
<1> HIDE DEF T
<1>2. PICK m \in T : \A k \in T : m <= k
  <2>1. T \subseteq Nat /\ T # {}
    BY <1>1
  <2> QED
    BY <2>1, LeastNatural
<1>3. PICK x \in S : m = high - x
  BY DEF T
<1>4. \A y \in S : x >= y
  <2> TAKE y \in S
  <2>1. high - y \in T
    BY DEF T
  <2> QED
    BY <1>2, <1>3, <2>1
<1> QED
  BY <1>4 DEF Max

(* FirstIn finds the first word whose TLU number is not zero (76-82).       *)
LEMMA FirstInIsFirst ==
  ASSUME NEW words \in Seq(Nat), NEW j \in DOMAIN words, Telling(words[j])
  PROVE  \E k \in DOMAIN words : /\ FirstIn(words) = words[k] /\ Telling(words[k])
                                 /\ \A i \in 1..k - 1 : ~Telling(words[i])
<1> DEFINE I == {i \in 1..Len(words) : Telling(words[i])}
<1>1. j \in I /\ I \subseteq Int /\ \A i \in I : 1 <= i
  OBVIOUS
<1>2. Min(I) \in I /\ \A i \in I : Min(I) <= i
  <2> HIDE DEF I
  <2>1. I # {} /\ 1 \in Int
    BY <1>1
  <2> QED
    BY <1>1, <2>1, MinInSet
<1>3. SelectInSeq(words, Telling) = Min(I)
  BY <1>1 DEF SelectInSeq
<1> HIDE DEF I
<1>4. FirstIn(words) = words[Min(I)]
  BY <1>3 DEF FirstIn
<1> QED
  <2>1. Min(I) \in 1..Len(words) /\ Telling(words[Min(I)])
    BY <1>2 DEF I
  <2>2. \A i \in 1..Min(I) - 1 : ~Telling(words[i])
    BY <1>2, <2>1 DEF I
  <2> QED
    BY <1>4, <2>1, <2>2

(* What TooSmall leaves of a list (260-269) starts at the first word that   *)
(* is not too small.                                                        *)
LEMMA RemainingIsTail ==
  ASSUME NEW n \in Nat, NEW words \in Seq(Nat)
  PROVE  \E k \in 1..Len(words) + 1 :
           /\ \A i \in 1..k - 1 : TooSmall(n, words[i])
           /\ k <= Len(words) => ~TooSmall(n, words[k])
           /\ Remaining(n, words) = SubSeq(words, k, Len(words))
<1> DEFINE I == {i \in 1..Len(words) : ~TooSmall(n, words[i])}
           s == SelectInSeq(words, LAMBDA w : ~TooSmall(n, w))
<1>1. s = IF I # {} THEN Min(I) ELSE 0
  BY DEF SelectInSeq
<1>2. Remaining(n, words) = IF s = 0 THEN <<>> ELSE SubSeq(words, s, Len(words))
  BY DEF Remaining
<1> HIDE DEF s
<1>3. CASE I = {}
  BY <1>1, <1>2, <1>3
<1>4. CASE I # {}
  <2>1. I \subseteq Int /\ \A i \in I : 1 <= i
    OBVIOUS
  <2> HIDE DEF I
  <2>2. Min(I) \in I /\ \A i \in I : Min(I) <= i
    <3>1. 1 \in Int
      OBVIOUS
    <3> QED
      BY <1>4, <2>1, <3>1, MinInSet
  <2>3. s \in I /\ \A i \in I : s <= i
    BY <1>1, <1>4, <2>2
  <2>4. s \in 1..Len(words) /\ s # 0
    BY <2>3 DEF I
  <2>5. ~TooSmall(n, words[s])
    BY <2>3 DEF I
  <2>6. \A i \in 1..s - 1 : TooSmall(n, words[i])
    BY <2>3, <2>4 DEF I
  <2> QED
    BY <1>2, <2>4, <2>5, <2>6
<1> QED
  BY <1>3, <1>4

(* A scan takes the words one by one (66-107): the number after a word      *)
(* comes from the number before it by Unwrap. The recursion in Scan is well *)
(* defined, by induction on the words.                                      *)
LEMMA ScanByWord ==
  ASSUME NEW r, NEW words \in Seq(Nat)
  PROVE  \E got : /\ got[0] = r
                  /\ \A i \in 1..Len(words) :
                       got[i] = Unwrap(got[i - 1], words[i] % Amount)
                  /\ Scan(r, words) = got[Len(words)]
<1> DEFINE Step(g, i) == IF i = 0 THEN r ELSE Unwrap(g[i - 1], words[i] % Amount)
           S == {n \in Nat : \E g : g = [i \in 0..n |-> Step(g, i)]}
<1>1. 0 \in S
  <2> DEFINE g == [i \in 0..0 |-> r]
  <2>1. g = [i \in 0..0 |-> Step(g, i)]
    OBVIOUS
  <2> QED
    BY <2>1
<1>2. ASSUME NEW n \in Nat, n \in S PROVE n + 1 \in S
  <2>1. PICK g : g = [i \in 0..n |-> Step(g, i)]
    BY <1>2
  <2> DEFINE h == [i \in 0..n + 1 |->
                     IF i = n + 1 THEN Unwrap(g[n], words[n + 1] % Amount) ELSE g[i]]
  <2>2. ASSUME NEW i \in 0..n + 1 PROVE h[i] = Step(h, i)
    <3>1. CASE i = n + 1
      <4>1. h[n] = g[n]
        OBVIOUS
      <4> QED
        BY <3>1, <4>1
    <3>2. CASE i # n + 1
      <4>1. i \in 0..n /\ h[i] = g[i] /\ (i # 0 => h[i - 1] = g[i - 1])
        BY <3>2
      <4>2. g[i] = Step(g, i)
        BY <2>1, <4>1
      <4> QED
        BY <4>1, <4>2
    <3> QED
      BY <3>1, <3>2
  <2>3. h = [i \in 0..n + 1 |-> Step(h, i)]
    <3> HIDE DEF Step
    <3> QED
      BY <2>2
  <2>4. \E f : f = [i \in 0..n + 1 |-> Step(f, i)]
    <3> HIDE DEF Step, h
    <3> QED
      BY <2>3
  <2> HIDE DEF Step, h
  <2>5. n + 1 \in Nat
    OBVIOUS
  <2> QED
    BY <2>4, <2>5 DEF S
<1>3. Len(words) \in S
  <2> HIDE DEF S
  <2> QED
    BY <1>1, <1>2, Induction
<1> DEFINE got == CHOOSE g : g = [i \in 0..Len(words) |-> Step(g, i)]
<1>4. got = [i \in 0..Len(words) |-> Step(got, i)]
  BY <1>3
<1>5. Scan(r, words) = got[Len(words)]
  BY DEF Scan
<1> HIDE DEF got
<1>6. \A i \in 0..Len(words) : got[i] = Step(got, i)
  <2> HIDE DEF Step
  <2> QED
    BY <1>4
<1>7. got[0] = r
  BY <1>6
<1>8. ASSUME NEW i \in 1..Len(words)
      PROVE  got[i] = Unwrap(got[i - 1], words[i] % Amount)
  BY <1>6
<1> QED
  BY <1>5, <1>7, <1>8

(* A number is its lap and its place in the lap.                            *)
LEMMA LapAndPlace ==
  ASSUME NEW n \in Nat
  PROVE  /\ n \div Amount \in Nat /\ n % Amount \in 0..Amount - 1
         /\ n = Amount * (n \div Amount) + (n % Amount)
  BY AmountAssumption, SMT

(* The laps j and k: a later lap starts at least Amount further on.         *)
LEMMA LapsApart ==
  ASSUME NEW j \in Nat, NEW k \in Nat
  PROVE  /\ Amount * j \in Nat
         /\ Amount * (j + 1) = Amount * j + Amount
         /\ j < k => Amount * j + Amount <= Amount * k
<1>1. Amount * j \in Nat /\ Amount * (j + 1) = Amount * j + Amount
  BY AmountAssumption, SMT
<1>2. ASSUME j < k PROVE Amount * j + Amount <= Amount * k
  <2>1. PICK d \in Nat : k = j + 1 + d
    BY <1>2
  <2>2. Amount * k = Amount * j + Amount + Amount * d /\ Amount * d >= 0
    BY <2>1, AmountAssumption, SMT
  <2> QED
    BY <1>1, <2>2, AmountAssumption, SMT
<1> QED
  BY <1>1, <1>2

(* The rollover is undone exactly (84-106): when a chip's last number is r  *)
(* and the next one it records is n, less than a lap later, then the code   *)
(* gets n from its TLU number, provided that a step over the rollover       *)
(* starts within Margin of it.                                              *)
THEOREM UnwrapExact ==
  ASSUME NEW r \in Nat, NEW n \in Nat, r < n, n - r < Amount,
         n % Amount > r % Amount \/ r % Amount > Amount - Margin
  PROVE  Unwrap(r, n % Amount) = n
<1> DEFINE j == r \div Amount
           k == n \div Amount
           s == r % Amount
           t == n % Amount
<1>1. /\ j \in Nat /\ s \in 0..Amount - 1 /\ r = Amount * j + s
      /\ k \in Nat /\ t \in 0..Amount - 1 /\ n = Amount * k + t
  BY LapAndPlace
<1>2. Amount \in Nat \ {0} /\ Margin \in 0..Amount
  BY AmountAssumption
<1>3. Seen(r) = s /\ Lap(r) = j
  BY DEF Seen, Lap
<1> HIDE DEF j, k, s, t
<1>4. /\ Amount * j \in Nat /\ Amount * (j + 1) \in Nat /\ Amount * k \in Nat
      /\ Amount * (j + 1) = Amount * j + Amount
      /\ k < j => Amount * k + Amount <= Amount * j
      /\ j + 1 < k => Amount * (j + 1) + Amount <= Amount * k
  BY <1>1, LapsApart
<1>5. k = j \/ k = j + 1
  <2>1. ~(k < j)
    BY <1>1, <1>2, <1>4
  <2>2. ~(j + 1 < k)
    BY <1>1, <1>2, <1>4
  <2> QED
    BY <1>1, <2>1, <2>2
<1>6. CASE k = j
  <2>1. t > s
    BY <1>1, <1>2, <1>4, <1>6
  <2>2. Unwrap(r, t) = j * Amount + t
    BY <1>1, <1>2, <1>3, <2>1 DEF Unwrap
  <2> QED
    BY <1>1, <1>2, <1>6, <2>2 DEF t
<1>7. CASE k = j + 1
  <2>1. t < s
    BY <1>1, <1>2, <1>4, <1>7
  <2>2. s > Amount - Margin
    BY <1>1, <1>2, <2>1 DEF s, t
  <2>3. Unwrap(r, t) = (j + 1) * Amount + t
    BY <1>3, <2>1, <2>2 DEF Unwrap
  <2> QED
    BY <1>1, <1>2, <1>7, <2>3 DEF t
<1> QED
  BY <1>5, <1>6, <1>7

(* The first trigger of a run is taken as it is, from the start value -1.   *)
THEOREM UnwrapFirst ==
  ASSUME NEW n \in 0..Amount - 1
  PROVE  Unwrap(-1, n % Amount) = n
<1>1. n % Amount = n
  BY AmountAssumption
<1>2. Seen(-1) = -1 /\ Lap(-1) = 0
  BY DEF Seen, Lap
<1> QED
  BY <1>1, <1>2, AmountAssumption DEF Unwrap

(* A block that fits is the event's own (255-309): as long as the front of  *)
(* a chip's list is less than a lap away from the event's number, the       *)
(* comparison of the TLU numbers cannot confuse two triggers.               *)
THEOREM FitsIsAligned ==
  ASSUME NEW n \in Nat, NEW words, Head(words) \in Nat, Fits(n, words),
         n - Head(words) < Amount, Head(words) - n < Amount
  PROVE  Head(words) = n
<1> DEFINE w == Head(words)
           j == w \div Amount
           k == n \div Amount
           t == n % Amount
<1>1. w % Amount = t
  BY DEF Fits
<1>2. /\ j \in Nat /\ w = Amount * j + t
      /\ k \in Nat /\ t \in 0..Amount - 1 /\ n = Amount * k + t
  BY <1>1, LapAndPlace
<1>3. Amount \in Nat \ {0}
  BY AmountAssumption
<1>4. w \in Nat /\ n - w < Amount /\ w - n < Amount
  OBVIOUS
<1> HIDE DEF w, j, k, t
<1>5. /\ Amount * j \in Nat /\ Amount * k \in Nat
      /\ k < j => Amount * k + Amount <= Amount * j
      /\ j < k => Amount * j + Amount <= Amount * k
  BY <1>2, LapsApart
<1>6. j = k
  BY <1>2, <1>3, <1>4, <1>5
<1> QED
  BY <1>2, <1>6 DEF w

(* In ascending order.                                                      *)
Ascending(q) == \A i, j \in DOMAIN q : i < j => q[i] < q[j]

(* The code can follow a chip from its number r to its next number n: it is *)
(* less than a lap further, and a step over the rollover starts within      *)
(* Margin of it.                                                            *)
Follows(r, n) ==
  IF r = -1 THEN n < Amount
  ELSE /\ r < n /\ n - r < Amount
       /\ n % Amount > r % Amount \/ r % Amount > Amount - Margin

(* Then the code gets the number exactly, the first one included.           *)
LEMMA UnwrapFollows ==
  ASSUME NEW r \in Nat \cup {-1}, NEW n \in Nat, Follows(r, n)
  PROVE  Unwrap(r, n % Amount) = n
<1>1. CASE r = -1
  <2>1. n \in 0..Amount - 1
    BY <1>1, AmountAssumption DEF Follows
  <2> QED
    BY <1>1, <2>1, UnwrapFirst
<1>2. CASE r \in Nat
  BY <1>2, UnwrapExact DEF Follows
<1> QED
  BY <1>1, <1>2

(* Whatever a chip misses, a number comes out no lower than the last one    *)
(* and no higher than the true one: numbers never go back, nor ahead of the *)
(* triggers.                                                                *)
LEMMA UnwrapBounded ==
  ASSUME NEW r \in Nat \cup {-1}, NEW n \in Nat, r < n
  PROVE  Unwrap(r, n % Amount) \in r..n
<1>0. Amount \in Nat \ {0} /\ Margin \in 0..Amount
  BY AmountAssumption
<1> DEFINE k == n \div Amount
           t == n % Amount
<1>1. k \in Nat /\ t \in 0..Amount - 1 /\ n = Amount * k + t
  BY LapAndPlace
<1>2. CASE r = -1
  <2>1. Seen(r) = -1 /\ Lap(r) = 0
    BY <1>2 DEF Seen, Lap
  <2>2. Amount * k \in Nat
    BY <1>1, LapsApart
  <2> HIDE DEF k, t
  <2>3. Unwrap(r, t) = t
    BY <1>0, <1>1, <2>1 DEF Unwrap
  <2>4. t \in r..n
    BY <1>0, <1>1, <1>2, <2>2
  <2> QED
    BY <2>3, <2>4 DEF t
<1>3. CASE r \in Nat
  <2> DEFINE j == r \div Amount
             s == r % Amount
  <2>1. j \in Nat /\ s \in 0..Amount - 1 /\ r = Amount * j + s
    BY <1>3, LapAndPlace
  <2>2. Seen(r) = s /\ Lap(r) = j
    BY <1>3 DEF Seen, Lap
  <2> HIDE DEF j, k, s, t
  <2>3. /\ Amount * j \in Nat /\ Amount * (j + 1) \in Nat /\ Amount * k \in Nat
        /\ Amount * (j + 1) = Amount * j + Amount
        /\ k < j => Amount * k + Amount <= Amount * j
        /\ j < k => Amount * j + Amount <= Amount * k
        /\ j * Amount = Amount * j /\ (j + 1) * Amount = Amount * (j + 1)
    BY <1>0, <1>1, <2>1, LapsApart
  <2>4. j <= k /\ (t < s => j < k)
    BY <1>0, <1>1, <1>3, <2>1, <2>3
  <2>5. Unwrap(r, t) \in {r, (j + 1) * Amount + t, j * Amount + t}
    BY <2>2 DEF Unwrap
  <2>6. Unwrap(r, t) = (j + 1) * Amount + t /\ t < s => Unwrap(r, t) \in r..n
    BY <1>0, <1>1, <1>3, <2>1, <2>3, <2>4
  <2>7. Unwrap(r, t) = j * Amount + t /\ t > s => Unwrap(r, t) \in r..n
    BY <1>0, <1>1, <1>3, <2>1, <2>3, <2>4
  <2>8. \/ Unwrap(r, t) = (j + 1) * Amount + t /\ t < s
        \/ Unwrap(r, t) = j * Amount + t /\ t > s
        \/ Unwrap(r, t) = r
    BY <2>2 DEF Unwrap
  <2>9. r \in r..n
    BY <1>3
  <2> QED
    BY <2>6, <2>7, <2>8, <2>9 DEF t
<1> QED
  BY <1>2, <1>3

(* So does a scan of any list of words (66-107), by induction on its words. *)
LEMMA ScanBounded ==
  ASSUME NEW r \in Nat \cup {-1}, NEW words \in Seq(Nat), Ascending(words),
         \A i \in DOMAIN words : r < words[i]
  PROVE  Scan(r, words) \in r..IF words = <<>> THEN r ELSE words[Len(words)]
<1>1. PICK got : /\ got[0] = r
                 /\ \A i \in 1..Len(words) :
                      got[i] = Unwrap(got[i - 1], words[i] % Amount)
                 /\ Scan(r, words) = got[Len(words)]
  BY ScanByWord
<1> DEFINE Upto(i) == IF i = 0 THEN r ELSE words[i]
           S == {i \in Nat : i <= Len(words) => got[i] \in r..Upto(i)}
<1>2. 0 \in S
  BY <1>1
<1>3. ASSUME NEW n \in Nat, n \in S PROVE n + 1 \in S
  <2> SUFFICES ASSUME n + 1 <= Len(words) PROVE got[n + 1] \in r..words[n + 1]
    OBVIOUS
  <2>1. n + 1 \in DOMAIN words /\ words[n + 1] \in Nat /\ r < words[n + 1]
    OBVIOUS
  <2>2. got[n] \in r..Upto(n)
    BY <1>3
  <2>3. got[n] \in Nat \cup {-1} /\ got[n] < words[n + 1] /\ r <= got[n]
    <3>1. CASE n = 0
      BY <1>1, <2>1, <3>1
    <3>2. CASE n # 0
      <4>1. n \in DOMAIN words /\ words[n] \in Nat /\ words[n] < words[n + 1]
        BY <2>1, <3>2 DEF Ascending
      <4> QED
        BY <2>1, <2>2, <3>2, <4>1
    <3> QED
      BY <3>1, <3>2
  <2>4. got[n + 1] = Unwrap(got[n], words[n + 1] % Amount)
    BY <1>1, <2>1
  <2>5. Unwrap(got[n], words[n + 1] % Amount) \in got[n]..words[n + 1]
    BY <2>1, <2>3, UnwrapBounded
  <2> QED
    BY <2>1, <2>3, <2>4, <2>5
<1>4. Len(words) \in S
  <2> HIDE DEF S
  <2> QED
    BY <1>2, <1>3, Induction
<1> QED
  BY <1>1, <1>4

(* A scan of words that the code can follow comes out at the true number of *)
(* the last of them, by induction on the words.                             *)
LEMMA ScanExact ==
  ASSUME NEW r \in Nat \cup {-1}, NEW words \in Seq(Nat), words # <<>>,
         Follows(r, words[1]),
         \A i \in 1..Len(words) - 1 : Follows(words[i], words[i + 1])
  PROVE  Scan(r, words) = words[Len(words)]
<1>1. PICK got : /\ got[0] = r
                 /\ \A i \in 1..Len(words) :
                      got[i] = Unwrap(got[i - 1], words[i] % Amount)
                 /\ Scan(r, words) = got[Len(words)]
  BY ScanByWord
<1> DEFINE S == {i \in Nat : i \in 1..Len(words) => got[i] = words[i]}
<1>2. 0 \in S
  OBVIOUS
<1>3. ASSUME NEW n \in Nat, n \in S PROVE n + 1 \in S
  <2> SUFFICES ASSUME n + 1 \in 1..Len(words) PROVE got[n + 1] = words[n + 1]
    OBVIOUS
  <2>1. words[n + 1] \in Nat
    OBVIOUS
  <2>2. got[n + 1] = Unwrap(got[n], words[n + 1] % Amount)
    BY <1>1
  <2>3. got[n] \in Nat \cup {-1} /\ Follows(got[n], words[n + 1])
    BY <1>1, <1>3
  <2> QED
    BY <2>1, <2>2, <2>3, UnwrapFollows
<1>4. Len(words) \in S
  <2> HIDE DEF S
  <2>1. Nat \subseteq S
    BY <1>2, <1>3, Induction
  <2>2. Len(words) \in Nat
    OBVIOUS
  <2> QED
    BY <2>1, <2>2
<1> QED
  BY <1>1, <1>4

(* A list from its k-th word on.                                            *)
LEMMA Suffix ==
  ASSUME NEW words \in Seq(Nat), NEW k \in 1..Len(words) + 1
  PROVE  LET rest == SubSeq(words, k, Len(words))
         IN  /\ rest \in Seq(Nat) /\ Len(rest) = Len(words) + 1 - k
             /\ \A i \in 1..Len(rest) : rest[i] = words[k + i - 1]
             /\ k <= Len(words) => /\ rest # <<>> /\ Head(rest) = words[k]
                                  /\ Tail(rest) = SubSeq(words, k + 1, Len(words))
             /\ k = Len(words) + 1 => rest = <<>>
<1> DEFINE rest == SubSeq(words, k, Len(words))
<1>1. /\ rest \in Seq(Nat) /\ Len(rest) = Len(words) + 1 - k
      /\ \A i \in 1..Len(rest) : rest[i] = words[k + i - 1]
  OBVIOUS
<1>2. CASE k <= Len(words)
  <2> DEFINE last == SubSeq(words, k + 1, Len(words))
  <2>1. /\ last \in Seq(Nat) /\ Len(last) = Len(words) - k
        /\ \A i \in 1..Len(last) : last[i] = words[k + i]
    <3>1. k + 1 \in 1..Len(words) + 1
      BY <1>2
    <3> HIDE DEF rest
    <3> QED
      BY <3>1
  <2> HIDE DEF rest, last
  <2>2. rest # <<>> /\ Head(rest) = words[k]
    BY <1>1, <1>2
  <2>3. /\ Tail(rest) \in Seq(Nat) /\ Len(Tail(rest)) = Len(words) - k
        /\ \A i \in 1..Len(Tail(rest)) : Tail(rest)[i] = words[k + i]
    BY <1>1, <1>2, <2>2
  <2>4. Tail(rest) = last
    BY <2>1, <2>3, SeqEqual
  <2> QED
    BY <1>1, <1>2, <2>2, <2>4 DEF rest, last
<1>3. CASE k = Len(words) + 1
  BY <1>1, <1>3
<1> QED
  BY <1>1, <1>2, <1>3

(* What a turn for number n makes of a chip's list.                         *)
LEMMA Turn ==
  ASSUME NEW n \in Nat, NEW words \in Seq(Nat)
  PROVE  \E k \in 1..Len(words) + 1 :
           /\ \A i \in 1..k - 1 : TooSmall(n, words[i])
           /\ k <= Len(words) => ~TooSmall(n, words[k])
           /\ Len(Remaining(n, words)) = Len(words) + 1 - k
           /\ IF k <= Len(words) /\ words[k] % Amount = n % Amount
              THEN /\ Block(n, words) = words[k]
                   /\ Rest(n, words) = SubSeq(words, k + 1, Len(words))
              ELSE /\ Block(n, words) = Dummy
                   /\ Rest(n, words) = SubSeq(words, k, Len(words))
<1>1. PICK k \in 1..Len(words) + 1 :
        /\ \A i \in 1..k - 1 : TooSmall(n, words[i])
        /\ k <= Len(words) => ~TooSmall(n, words[k])
        /\ Remaining(n, words) = SubSeq(words, k, Len(words))
  BY RemainingIsTail
<1> DEFINE rest == SubSeq(words, k, Len(words))
<1>2. /\ Len(rest) = Len(words) + 1 - k
      /\ k <= Len(words) => /\ rest # <<>> /\ Head(rest) = words[k]
                           /\ Tail(rest) = SubSeq(words, k + 1, Len(words))
      /\ k = Len(words) + 1 => rest = <<>>
  BY Suffix
<1>3. Fits(n, rest) <=> k <= Len(words) /\ words[k] % Amount = n % Amount
  BY <1>2 DEF Fits
<1>4. /\ Block(n, words) = IF Fits(n, rest) THEN Head(rest) ELSE Dummy
      /\ Rest(n, words) = IF Fits(n, rest) THEN Tail(rest) ELSE rest
  BY <1>1 DEF Block, Rest
<1> HIDE DEF rest
<1>5. Len(Remaining(n, words)) = Len(words) + 1 - k
  BY <1>1, <1>2 DEF rest
<1> QED
  BY <1>1, <1>2, <1>3, <1>4, <1>5 DEF rest

(* What is left is a part of the list, in order.                            *)
LEMMA RestIsPart ==
  ASSUME NEW n \in Nat, NEW words \in Seq(Nat)
  PROVE  /\ Rest(n, words) \in Seq(Nat)
         /\ ToSet(Rest(n, words)) \subseteq ToSet(words)
         /\ Block(n, words) \in ToSet(words) \cup {Dummy}
         /\ Ascending(words) => Ascending(Rest(n, words))
<1>0. PICK k \in 1..Len(words) + 1 :
        IF k <= Len(words) /\ words[k] % Amount = n % Amount
        THEN /\ Block(n, words) = words[k]
             /\ Rest(n, words) = SubSeq(words, k + 1, Len(words))
        ELSE /\ Block(n, words) = Dummy
             /\ Rest(n, words) = SubSeq(words, k, Len(words))
  BY Turn
<1>1. PICK j \in 1..Len(words) + 1 : Rest(n, words) = SubSeq(words, j, Len(words))
  <2>1. CASE k <= Len(words) /\ words[k] % Amount = n % Amount
    <3>1. k + 1 \in 1..Len(words) + 1
      BY <2>1
    <3> QED
      BY <1>0, <2>1, <3>1
  <2>2. CASE ~(k <= Len(words) /\ words[k] % Amount = n % Amount)
    BY <1>0, <2>2
  <2> QED
    BY <2>1, <2>2
<1> DEFINE rest == SubSeq(words, j, Len(words))
<1>2. /\ rest \in Seq(Nat) /\ Len(rest) = Len(words) + 1 - j
      /\ \A i \in 1..Len(rest) : rest[i] = words[j + i - 1]
  BY Suffix
<1> HIDE DEF rest
<1>3. \A i \in DOMAIN rest : /\ i \in 1..Len(rest) /\ j + i - 1 \in DOMAIN words
                             /\ rest[i] = words[j + i - 1]
  <2>1. DOMAIN rest = 1..Len(rest) /\ DOMAIN words = 1..Len(words)
    BY <1>2
  <2> TAKE i \in DOMAIN rest
  <2>2. i \in 1..Len(rest)
    BY <2>1
  <2>3. rest[i] = words[j + i - 1]
    BY <1>2, <2>2
  <2>4. j + i - 1 \in 1..Len(words)
    BY <1>2, <2>2
  <2> QED
    BY <2>1, <2>2, <2>3, <2>4
<1>4. ToSet(rest) \subseteq ToSet(words)
  BY <1>3 DEF ToSet
<1>5. Ascending(words) => Ascending(rest)
  BY <1>2, <1>3 DEF Ascending
<1>6. Block(n, words) \in ToSet(words) \cup {Dummy}
  <2>1. k <= Len(words) => words[k] \in ToSet(words)
    BY DEF ToSet
  <2> QED
    BY <1>0, <2>1
<1> QED
  BY <1>1, <1>2, <1>4, <1>5, <1>6 DEF rest

(* The last number of the lap that n is in.                                 *)
LapEnd(n) == n + (Amount - 1 - (n % Amount))

(* From n to the end of its lap, the TLU numbers count up one by one.       *)
LEMMA WithinLap ==
  ASSUME NEW n \in Nat
  PROVE  /\ LapEnd(n) \in Nat /\ n <= LapEnd(n) /\ Amount - 1 <= LapEnd(n)
         /\ LapEnd(n) % Amount = Amount - 1
         /\ \A w \in n..LapEnd(n) : w % Amount = (n % Amount) + (w - n)
<1> DEFINE k == n \div Amount
           t == n % Amount
<1>1. k \in Nat /\ t \in 0..Amount - 1 /\ n = Amount * k + t
  BY LapAndPlace
<1>2. Amount * k \in Nat
  BY <1>1, LapsApart
<1>3. Amount \in Nat \ {0}
  BY AmountAssumption
<1>4. LapEnd(n) = Amount * k + (Amount - 1)
  BY <1>1, <1>2, <1>3 DEF LapEnd
<1> HIDE DEF k, t
<1>5. ASSUME NEW w \in n..LapEnd(n) PROVE w % Amount = t + (w - n)
  <2> DEFINE j == w \div Amount
             s == w % Amount
  <2>1. w \in Nat /\ w <= Amount * k + (Amount - 1) /\ n <= w
    BY <1>1, <1>2, <1>3, <1>4
  <2>2. j \in Nat /\ s \in 0..Amount - 1 /\ w = Amount * j + s
    BY <2>1, LapAndPlace
  <2> HIDE DEF j, s
  <2>3. /\ Amount * j \in Nat
        /\ j < k => Amount * j + Amount <= Amount * k
        /\ k < j => Amount * k + Amount <= Amount * j
    BY <1>1, <2>2, LapsApart
  <2>4. j = k
    BY <1>1, <1>2, <1>3, <2>1, <2>2, <2>3
  <2>5. s = t + (w - n)
    BY <1>1, <1>2, <2>1, <2>2, <2>4
  <2> QED
    BY <2>5 DEF s
<1>6. LapEnd(n) \in Nat /\ n <= LapEnd(n) /\ Amount - 1 <= LapEnd(n)
  BY <1>1, <1>2, <1>3, <1>4
<1>7. LapEnd(n) % Amount = Amount - 1
  <2>1. LapEnd(n) \in n..LapEnd(n)
    BY <1>6
  <2>2. LapEnd(n) % Amount = t + (LapEnd(n) - n)
    BY <1>5, <2>1
  <2> QED
    BY <1>1, <1>2, <1>3, <1>4, <2>2
<1> QED
  BY <1>5, <1>6, <1>7 DEF t

(* After the turn for n only later words are left (255-309), provided that  *)
(* none of the earlier ones has a larger TLU number.                        *)
LEMMA TurnGoesOn ==
  ASSUME NEW n \in Nat, NEW words \in Seq(Nat), Ascending(words),
         \A w \in ToSet(words) : w < n => w % Amount < n % Amount
  PROVE  \A w \in ToSet(Rest(n, words)) : n < w
<1>1. PICK k \in 1..Len(words) + 1 :
        /\ k <= Len(words) => ~TooSmall(n, words[k])
        /\ IF k <= Len(words) /\ words[k] % Amount = n % Amount
           THEN Rest(n, words) = SubSeq(words, k + 1, Len(words))
           ELSE Rest(n, words) = SubSeq(words, k, Len(words))
  BY Turn
<1>2. CASE k = Len(words) + 1
  <2>1. Rest(n, words) = <<>>
    BY <1>1, <1>2
  <2> QED
    BY <2>1 DEF ToSet
<1>3. CASE k <= Len(words)
  <2>1. k \in DOMAIN words /\ words[k] \in ToSet(words) /\ words[k] \in Nat
    BY <1>3 DEF ToSet
  <2>2. n <= words[k]
    BY <1>1, <1>3, <2>1, AmountAssumption DEF TooSmall
  <2> DEFINE j == IF words[k] % Amount = n % Amount THEN k + 1 ELSE k
  <2>3. j \in 1..Len(words) + 1 /\ Rest(n, words) = SubSeq(words, j, Len(words))
    BY <1>1, <1>3
  <2>4. \A i \in DOMAIN words : j <= i => n < words[i]
    <3> TAKE i \in DOMAIN words
    <3> HAVE j <= i
    <3>1. words[i] \in Nat /\ k <= i /\ (k < i => words[k] < words[i])
      BY <2>1 DEF Ascending
    <3>2. CASE words[k] % Amount = n % Amount
      BY <2>1, <2>2, <3>1, <3>2
    <3>3. CASE words[k] % Amount # n % Amount
      BY <2>1, <2>2, <3>1, <3>3
    <3> QED
      BY <3>2, <3>3
  <2> DEFINE rest == SubSeq(words, j, Len(words))
  <2> HIDE DEF j
  <2>5. /\ rest \in Seq(Nat) /\ Len(rest) = Len(words) + 1 - j
        /\ \A i \in 1..Len(rest) : rest[i] = words[j + i - 1]
    BY <2>3, Suffix
  <2> HIDE DEF rest
  <2>6. \A i \in 1..Len(rest) : n < rest[i]
    <3> TAKE i \in 1..Len(rest)
    <3>1. j + i - 1 \in DOMAIN words /\ j <= j + i - 1
      BY <2>3, <2>5
    <3> QED
      BY <2>4, <2>5, <3>1
  <2>7. DOMAIN rest = 1..Len(rest)
    BY <2>5
  <2> QED
    BY <2>3, <2>6, <2>7 DEF ToSet, rest
<1> QED
  BY <1>2, <1>3

(* The turn for n is exact (255-321): its block is n's own word when the    *)
(* list has it and a dummy otherwise, it loses no later word, and what it   *)
(* drops is past. This holds when the list has no earlier word with a       *)
(* larger TLU number and, if it goes on beyond n's lap, has the last number *)
(* of that lap.                                                             *)
THEOREM TurnIsExact ==
  ASSUME NEW n \in Nat, NEW words \in Seq(Nat), Ascending(words),
         \A w \in ToSet(words) : w < n => w % Amount < n % Amount,
         \A w \in ToSet(words) : LapEnd(n) < w => LapEnd(n) \in ToSet(words)
  PROVE  /\ Block(n, words) \in {n, Dummy}
         /\ n \in ToSet(words) => Block(n, words) = n
         /\ \A w \in ToSet(words) : n < w => w \in ToSet(Rest(n, words))
         /\ \A i \in DOMAIN words :
              i <= Len(words) - Len(Remaining(n, words)) => words[i] < n
<1>1. PICK k \in 1..Len(words) + 1 :
        /\ \A i \in 1..k - 1 : TooSmall(n, words[i])
        /\ k <= Len(words) => ~TooSmall(n, words[k])
        /\ Len(Remaining(n, words)) = Len(words) + 1 - k
        /\ IF k <= Len(words) /\ words[k] % Amount = n % Amount
           THEN /\ Block(n, words) = words[k]
                /\ Rest(n, words) = SubSeq(words, k + 1, Len(words))
           ELSE /\ Block(n, words) = Dummy
                /\ Rest(n, words) = SubSeq(words, k, Len(words))
  BY Turn
<1> DEFINE e == LapEnd(n)
<1>2. /\ e \in Nat /\ n <= e /\ e % Amount = Amount - 1
      /\ \A w \in n..e : w % Amount = (n % Amount) + (w - n)
      /\ n % Amount \in 0..Amount - 1
  BY WithinLap, LapAndPlace
<1>3. \A w \in ToSet(words) : \E i \in DOMAIN words : w = words[i]
  BY DEF ToSet
<1>4. \A i \in DOMAIN words : words[i] \in Nat /\ words[i] \in ToSet(words)
  BY DEF ToSet
<1>5. ~TooSmall(n, e) /\ ~TooSmall(n, n)
  BY <1>2, AmountAssumption DEF TooSmall
<1> HIDE DEF e
<1>6. \A w \in ToSet(words) : e < w => e \in ToSet(words)
  BY DEF e
<1>7. ASSUME NEW i \in DOMAIN words, i <= k, e < words[i] PROVE FALSE
  <2>1. PICK j \in DOMAIN words : e = words[j]
    BY <1>3, <1>4, <1>6, <1>7
  <2>2. j < i
    <3>1. i < j => words[i] < words[j]
      BY DEF Ascending
    <3>2. words[i] \in Nat /\ ~(words[i] < words[j]) /\ words[i] # words[j]
      BY <1>2, <1>4, <1>7, <2>1
    <3>3. i \in 1..Len(words) /\ j \in 1..Len(words)
      OBVIOUS
    <3> QED
      BY <3>1, <3>2, <3>3
  <2>3. TooSmall(n, words[j])
    BY <1>1, <1>7, <2>2
  <2> QED
    BY <1>5, <2>1, <2>3
<1>8. \A i \in 1..k - 1 : words[i] < n
  <2> TAKE i \in 1..k - 1
  <2>1. i \in DOMAIN words /\ words[i] \in Nat /\ words[i] <= e
    <3>1. i \in DOMAIN words /\ i <= k
      OBVIOUS
    <3>2. ~(e < words[i])
      BY <1>7, <3>1
    <3> QED
      BY <1>2, <1>4, <3>1, <3>2
  <2>2. words[i] % Amount < n % Amount
    BY <1>1 DEF TooSmall
  <2>3. words[i] \in n..e => FALSE
    BY <1>2, <2>1, <2>2
  <2> QED
    BY <1>2, <2>1, <2>3
<1>9. ASSUME k <= Len(words), words[k] % Amount = n % Amount PROVE words[k] = n
  <2>1. k \in DOMAIN words /\ words[k] \in Nat /\ words[k] <= e
    <3>1. k \in DOMAIN words /\ k <= k
      BY <1>9
    <3>2. ~(e < words[k])
      BY <1>7, <3>1
    <3> QED
      BY <1>2, <1>4, <3>1, <3>2
  <2>2. n <= words[k]
    <3>1. ~(words[k] % Amount < n % Amount)
      BY <1>2, <1>9
    <3> QED
      BY <1>4, <2>1, <3>1
  <2> QED
    BY <1>2, <1>9, <2>1, <2>2
<1>10. Block(n, words) \in {n, Dummy}
  BY <1>1, <1>9
<1>11. ASSUME n \in ToSet(words) PROVE Block(n, words) = n
  <2>1. PICK j \in DOMAIN words : n = words[j]
    BY <1>3, <1>11
  <2>2. k <= j /\ k \in DOMAIN words
    <3>1. ~(j < k)
      BY <1>1, <1>5, <2>1
    <3> QED
      BY <2>1, <3>1
  <2>3. words[k] \in Nat /\ words[k] <= n
    BY <1>4, <2>1, <2>2 DEF Ascending
  <2>4. n <= words[k]
    <3>1. ~(words[k] % Amount < n % Amount)
      BY <1>1, <2>2 DEF TooSmall
    <3> QED
      BY <1>4, <2>2, <2>3, <3>1
  <2>5. words[k] = n
    BY <2>3, <2>4
  <2> QED
    BY <1>1, <2>2, <2>5
<1>12. ASSUME NEW w \in ToSet(words), n < w PROVE w \in ToSet(Rest(n, words))
  <2>1. PICK j \in DOMAIN words : w = words[j]
    BY <1>3
  <2>2. k <= j
    <3>1. CASE j < k
      <4>1. j \in 1..k - 1
        BY <3>1
      <4>2. words[j] < n /\ words[j] \in Nat
        BY <1>4, <1>8, <4>1
      <4> QED
        BY <1>12, <2>1, <4>2
    <3> QED
      BY <3>1
  <2> DEFINE l == IF words[k] % Amount = n % Amount THEN k + 1 ELSE k
  <2>3. k <= Len(words) /\ l \in 1..Len(words) + 1
    BY <2>2
  <2>4. Rest(n, words) = SubSeq(words, l, Len(words))
    BY <1>1, <2>3
  <2>5. l <= j
    BY <1>9, <1>12, <2>1, <2>2, <2>3
  <2> DEFINE rest == SubSeq(words, l, Len(words))
  <2> HIDE DEF l
  <2>6. /\ rest \in Seq(Nat) /\ Len(rest) = Len(words) + 1 - l
        /\ \A i \in 1..Len(rest) : rest[i] = words[l + i - 1]
    BY <2>3, Suffix
  <2> HIDE DEF rest
  <2>7. j + 1 - l \in 1..Len(rest) /\ l + (j + 1 - l) - 1 = j
    BY <2>3, <2>5, <2>6
  <2>8. rest[j + 1 - l] = w /\ j + 1 - l \in DOMAIN rest
    BY <2>1, <2>6, <2>7
  <2> QED
    BY <2>4, <2>8 DEF ToSet, rest
<1>13. \A i \in DOMAIN words :
         i <= Len(words) - Len(Remaining(n, words)) => words[i] < n
  <2> TAKE i \in DOMAIN words
  <2> HAVE i <= Len(words) - Len(Remaining(n, words))
  <2>1. i \in 1..k - 1
    BY <1>1
  <2> QED
    BY <1>8, <2>1
<1> QED
  BY <1>10, <1>11, <1>12, <1>13
=============================================================================
