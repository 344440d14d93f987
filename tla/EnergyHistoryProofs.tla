------------------------ MODULE EnergyHistoryProofs -------------------------
(***************************************************************************)
(* Proofs about EnergyHistory for every calendar, base month and number of *)
(* clears, with clears and power failures at any point.                    *)
(***************************************************************************)
EXTENDS EnergyHistory, TLAPS

-----------------------------------------------------------------------------
(* Months as numbers.                                                      *)

(* A smaller factor leaves at least one multiple of B of difference.       *)
LEMMA MultipleGap ==
  ASSUME NEW B \in Nat, NEW p \in Nat, NEW q \in Nat, p < q
  PROVE  (B * p) + B <= B * q
<1> DEFINE d == (q - p) - 1
<1>1. d \in Nat
  OBVIOUS
<1>2. q = p + 1 + d
  OBVIOUS
<1> HIDE DEF d
<1>3. B * (p + 1 + d) = (B * p) + B + (B * d)
  BY <1>1
<1>4. B * d >= 0
  BY <1>1
<1> QED
  BY <1>1, <1>2, <1>3, <1>4

(* The year and the month of an encoded month.                             *)
LEMMA YearAndMonth ==
  ASSUME NEW B \in Nat, NEW y \in Nat, NEW m \in Nat, m < B
  PROVE  /\ ((B * y) + m) % B = m
         /\ ((B * y) + m) \div B = y
<1> DEFINE t == (B * y) + m
           q == t \div B
           r == t % B
<1>1. t \in Nat /\ B * y \in Nat
  OBVIOUS
<1>2. q \in Nat /\ r \in Nat /\ r < B /\ t = (B * q) + r
  <2> HIDE DEF t
  <2> QED BY <1>1
<1>3. t = (B * y) + m
  OBVIOUS
<1> HIDE DEF t, q, r
<1>4. B * q \in Nat
  BY <1>2
<1>5. ~(y < q)
  <2> SUFFICES ASSUME y < q PROVE FALSE
    OBVIOUS
  <2>1. (B * y) + B <= B * q
    BY <1>2, MultipleGap
  <2> QED
    BY <1>1, <1>2, <1>3, <1>4, <2>1
<1>6. ~(q < y)
  <2> SUFFICES ASSUME q < y PROVE FALSE
    OBVIOUS
  <2>1. (B * q) + B <= B * y
    BY <1>2, MultipleGap
  <2> QED
    BY <1>1, <1>2, <1>3, <1>4, <2>1
<1>7. q = y
  BY <1>2, <1>5, <1>6
<1>8. r = m
  BY <1>1, <1>2, <1>3, <1>4, <1>7
<1> QED
  BY <1>7, <1>8 DEF t, q, r

(* A month in its parts.                                                   *)
LEMMA TimeParts ==
  ASSUME NEW t \in Times
  PROVE  \E y \in 0 .. LastYear, m \in 1 .. Months :
           /\ t = (YearBase * y) + m
           /\ t % YearBase = m
           /\ Linear(t) = (y * Months) + m
<1>1. PICK y \in 0 .. LastYear : \E m \in 1 .. Months : t = (YearBase * y) + m
  BY DEF Times
<1>2. PICK m \in 1 .. Months : t = (YearBase * y) + m
  BY <1>1
<1>3. /\ YearBase \in Nat /\ Months \in Nat /\ LastYear \in Nat
      /\ y \in Nat /\ m \in Nat /\ m < YearBase
  BY CalendarAssumption
<1>4. t % YearBase = m /\ t \div YearBase = y
  BY <1>2, <1>3, YearAndMonth
<1> QED
  BY <1>2, <1>4 DEF Linear

(* The order of encoded months is that of months.                          *)
LEMMA MonthOrder ==
  ASSUME NEW t \in Times, NEW u \in Times
  PROVE  /\ t \in Nat /\ t >= 1 /\ t <= LastMonth
         /\ Linear(t) \in Nat /\ Linear(t) >= 1
         /\ t < u => Linear(t) < Linear(u)
<1>1. PICK y \in 0 .. LastYear : \E m \in 1 .. Months :
        t = (YearBase * y) + m /\ Linear(t) = (y * Months) + m
  BY TimeParts
<1>2. PICK m \in 1 .. Months :
        t = (YearBase * y) + m /\ Linear(t) = (y * Months) + m
  BY <1>1
<1>3. PICK z \in 0 .. LastYear : \E n \in 1 .. Months :
        u = (YearBase * z) + n /\ Linear(u) = (z * Months) + n
  BY TimeParts
<1>4. PICK n \in 1 .. Months :
        u = (YearBase * z) + n /\ Linear(u) = (z * Months) + n
  BY <1>3
<1>5. /\ YearBase \in Nat /\ Months \in Nat /\ LastYear \in Nat
      /\ YearBase > Months
      /\ y \in Nat /\ m \in Nat /\ z \in Nat /\ n \in Nat
      /\ y <= LastYear /\ m <= Months /\ m >= 1 /\ n <= Months /\ n >= 1
  BY CalendarAssumption
<1>6. /\ YearBase * y \in Nat /\ YearBase * z \in Nat
      /\ y * Months \in Nat /\ z * Months \in Nat
      /\ y * Months = Months * y /\ z * Months = Months * z
      /\ YearBase * LastYear \in Nat
  BY <1>5
<1>7. t <= LastMonth
  <2>1. CASE y < LastYear
    <3>1. (YearBase * y) + YearBase <= YearBase * LastYear
      BY <1>5, <2>1, MultipleGap
    <3> QED
      BY <1>2, <1>5, <1>6, <3>1 DEF LastMonth
  <2>2. CASE y = LastYear
    BY <1>2, <1>5, <1>6, <2>2 DEF LastMonth
  <2> QED
    BY <1>5, <2>1, <2>2
<1>8. ASSUME t < u
      PROVE  Linear(t) < Linear(u)
  <2>1. CASE y < z
    <3>1. (Months * y) + Months <= Months * z
      BY <1>5, <2>1, MultipleGap
    <3> QED
      BY <1>2, <1>4, <1>5, <1>6, <3>1
  <2>2. CASE y = z
    BY <1>2, <1>4, <1>5, <1>6, <1>8, <2>2
  <2>3. CASE z < y
    <3>1. (YearBase * z) + YearBase <= YearBase * y
      BY <1>5, <2>3, MultipleGap
    <3> QED
      BY <1>2, <1>4, <1>5, <1>6, <1>8, <3>1
  <2> QED
    BY <1>5, <2>1, <2>2, <2>3
<1> QED
  BY <1>2, <1>5, <1>6, <1>7, <1>8

(* A base of 0 stands for no month at all.                                 *)
LEMMA BaseOrder ==
  ASSUME NEW b \in Times \cup {0}, NEW t \in Times
  PROVE  /\ b \in Nat /\ Linear(b) \in Nat
         /\ b < t => Linear(b) < Linear(t)
         /\ b = t => Linear(b) = Linear(t)
<1>1. CASE b = 0
  <2>1. YearBase \in Nat \ {0} /\ Months \in Nat
    BY CalendarAssumption
  <2>2. 0 \div YearBase = 0 /\ 0 % YearBase = 0
    BY <2>1
  <2>3. Linear(0) = 0
    BY <2>1, <2>2 DEF Linear
  <2> QED
    BY <1>1, <2>3, MonthOrder
<1>2. CASE b \in Times
  BY <1>2, MonthOrder
<1> QED
  BY <1>1, <1>2

LEMMA LastMonthIsMonth == LastMonth \in Times
<1>1. LastYear \in 0 .. LastYear /\ Months \in 1 .. Months
  BY CalendarAssumption
<1> QED
  BY <1>1 DEF Times, LastMonth

(* A month that is not before the base has a slot, or -1 for the base      *)
(* itself; no two months share a slot.                                     *)
LEMMA AddrInRange ==
  ASSUME NEW b \in Times \cup {0}, NEW t \in Times, b <= t
  PROVE  nPTE_Addr(t, b) \in SlotIndex
<1>1. /\ Linear(b) \in Nat /\ Linear(t) \in Nat
      /\ Linear(b) <= Linear(t)
      /\ b \in Nat /\ t \in Nat
  BY BaseOrder, MonthOrder
<1>2. Linear(t) <= Linear(LastMonth) /\ Linear(LastMonth) \in Nat
  BY LastMonthIsMonth, MonthOrder
<1> QED
  BY <1>1, <1>2 DEF nPTE_Addr, SlotIndex

LEMMA AddrDistinct ==
  ASSUME NEW b \in Times \cup {0}, NEW t \in Times, NEW u \in Times,
         t # u
  PROVE  nPTE_Addr(t, b) # nPTE_Addr(u, b)
<1>1. /\ Linear(b) \in Nat /\ Linear(t) \in Nat /\ Linear(u) \in Nat
      /\ Linear(t) # Linear(u)
  BY BaseOrder, MonthOrder
<1> QED
  BY <1>1 DEF nPTE_Addr

(* The month after and the month before.                                   *)
LEMMA NextIsMonth ==
  ASSUME NEW t \in Times, t < LastMonth
  PROVE  NextMonth(t) \in Times /\ NextMonth(t) > t
<1>1. PICK y \in 0 .. LastYear : \E m \in 1 .. Months :
        t = (YearBase * y) + m /\ t % YearBase = m
  BY TimeParts
<1>2. PICK m \in 1 .. Months : t = (YearBase * y) + m /\ t % YearBase = m
  BY <1>1
<1>3. /\ YearBase \in Nat /\ Months \in Nat /\ LastYear \in Nat
      /\ YearBase > Months /\ Months >= 1
      /\ y \in Nat /\ m \in Nat /\ y <= LastYear /\ m <= Months /\ m >= 1
      /\ YearBase * y \in Nat
  BY CalendarAssumption
<1>4. CASE m = Months
  <2>1. y + 1 \in 0 .. LastYear /\ 1 \in 1 .. Months
    BY <1>2, <1>3, <1>4 DEF LastMonth
  <2>2. NextMonth(t) = (YearBase * (y + 1)) + 1
    BY <1>2, <1>3, <1>4 DEF NextMonth
  <2>3. NextMonth(t) > t
    BY <1>2, <1>3, <1>4 DEF NextMonth
  <2> QED
    BY <2>1, <2>2, <2>3 DEF Times
<1>5. CASE m # Months
  <2>1. m + 1 \in 1 .. Months
    BY <1>3, <1>5
  <2>2. NextMonth(t) = (YearBase * y) + (m + 1)
    BY <1>2, <1>3, <1>5 DEF NextMonth
  <2>3. NextMonth(t) > t
    BY <1>2, <1>3, <1>5 DEF NextMonth
  <2> QED
    BY <2>1, <2>2, <2>3 DEF Times
<1> QED
  BY <1>4, <1>5

LEMMA PrevIsMonth ==
  ASSUME NEW t \in Times, t > YearBase
  PROVE  PrevMonth(t) \in Times /\ PrevMonth(t) < t
<1>1. PICK y \in 0 .. LastYear : \E m \in 1 .. Months :
        t = (YearBase * y) + m /\ t % YearBase = m
  BY TimeParts
<1>2. PICK m \in 1 .. Months : t = (YearBase * y) + m /\ t % YearBase = m
  BY <1>1
<1>3. /\ YearBase \in Nat /\ Months \in Nat /\ LastYear \in Nat
      /\ YearBase > Months /\ Months >= 1
      /\ y \in Nat /\ m \in Nat /\ y <= LastYear /\ m <= Months /\ m >= 1
      /\ YearBase * y \in Nat
  BY CalendarAssumption
<1>4. CASE m = 1
  <2>1. y # 0
    BY <1>2, <1>3, <1>4
  <2>2. y - 1 \in 0 .. LastYear /\ Months \in 1 .. Months
    BY <1>3, <2>1
  <2>3. PrevMonth(t) = (YearBase * (y - 1)) + Months
    BY <1>2, <1>3, <1>4 DEF PrevMonth
  <2>4. PrevMonth(t) < t
    BY <1>2, <1>3, <1>4 DEF PrevMonth
  <2> QED
    BY <2>2, <2>3, <2>4 DEF Times
<1>5. CASE m # 1
  <2>1. m - 1 \in 1 .. Months
    BY <1>3, <1>5
  <2>2. PrevMonth(t) = (YearBase * y) + (m - 1)
    BY <1>2, <1>3, <1>5 DEF PrevMonth
  <2>3. PrevMonth(t) < t
    BY <1>2, <1>3, <1>5 DEF PrevMonth
  <2> QED
    BY <2>1, <2>2, <2>3 DEF Times
<1> QED
  BY <1>4, <1>5

(* A step back passes over no month, whatever number it starts from.       *)
LEMMA PrevSkipsNone ==
  ASSUME NEW v \in Nat, NEW u \in Times, u < v
  PROVE  u <= PrevMonth(v)
<1>1. PICK y \in 0 .. LastYear : \E m \in 1 .. Months :
        u = (YearBase * y) + m /\ u % YearBase = m
  BY TimeParts
<1>2. PICK m \in 1 .. Months : u = (YearBase * y) + m /\ u % YearBase = m
  BY <1>1
<1>3. /\ YearBase \in Nat \ {0} /\ Months \in Nat
      /\ YearBase > Months + 1
      /\ y \in Nat /\ m \in Nat /\ m <= Months /\ m >= 1
      /\ YearBase * y \in Nat
  BY CalendarAssumption
<1>4. CASE v % YearBase = 1
  <2> DEFINE q == v \div YearBase
  <2>1. q \in Nat /\ v = (YearBase * q) + 1 /\ YearBase * q \in Nat
    BY <1>3, <1>4
  <2>2. PrevMonth(v) = ((YearBase * q) - YearBase) + Months
    BY <1>3, <1>4, <2>1 DEF PrevMonth
  <2> HIDE DEF q
  <2>3. y < q
    <3>1. CASE y = q
      BY <1>2, <1>3, <2>1, <3>1
    <3>2. CASE q < y
      <4>1. (YearBase * q) + YearBase <= YearBase * y
        BY <1>3, <2>1, <3>2, MultipleGap
      <4> QED
        BY <1>2, <1>3, <2>1, <4>1
    <3> QED
      BY <1>3, <2>1, <3>1, <3>2
  <2>4. (YearBase * y) + YearBase <= YearBase * q
    BY <1>3, <2>1, <2>3, MultipleGap
  <2> QED
    BY <1>2, <1>3, <2>1, <2>2, <2>4
<1>5. CASE v % YearBase # 1
  BY <1>2, <1>3, <1>5 DEF PrevMonth
<1> QED
  BY <1>4, <1>5

(* Nor does the step back of 16 bits, which wraps below month 1.           *)
LEMMA StepBackSkipsNone ==
  ASSUME NEW v \in 0 .. Word - 1
  PROVE  /\ StepBack(v) \in 0 .. Word - 1
         /\ \A u \in Times : u < v => u <= StepBack(v)
<1>1. /\ Word \in Nat \ {0} /\ YearBase \in Nat \ {0} /\ Months \in Nat
      /\ YearBase > Months + 1
  <2>1. /\ YearBase \in Nat /\ LastYear \in Nat /\ Word \in Nat
        /\ YearBase > Months + 1 /\ Months \in Nat
        /\ Word >= YearBase * (LastYear + 2)
    BY CalendarAssumption
  <2>2. YearBase * (LastYear + 2) = (YearBase * LastYear) + YearBase + YearBase
    BY <2>1
  <2>3. YearBase * LastYear \in Nat
    BY <2>1
  <2> QED
    BY <2>1, <2>2, <2>3
<1>2. PrevMonth(v) \in Int /\ PrevMonth(v) < Word
  BY <1>1 DEF PrevMonth
<1>3. StepBack(v) \in 0 .. Word - 1
  BY <1>1, <1>2 DEF StepBack
<1>4. PrevMonth(v) >= 0 => StepBack(v) = PrevMonth(v)
  BY <1>1, <1>2 DEF StepBack
<1>5. ASSUME NEW u \in Times, u < v
      PROVE  u <= StepBack(v)
  <2>1. u <= PrevMonth(v) /\ u \in Nat
    BY <1>5, PrevSkipsNone, MonthOrder
  <2> QED
    BY <1>2, <1>4, <2>1
<1> QED
  BY <1>3, <1>5

-----------------------------------------------------------------------------
(* The clock never shows a month before a base, the RAM's base is the      *)
(* FRAM's but for the first save and a struck header, and no month counts  *)
(* as saved before there is a base.                                        *)
BaseInv ==
  /\ now > YearBase
  /\ base <= now
  /\ fmInit => fmBase <= now
  /\ fmInit /\ fmBase = 0 => saved = {}
  /\ pc # "off" /\ base = 0 => saved = {}
  /\ pc \in {"base", "time", "addr", "write"} => base # 0
  /\ fmInit /\ pc \notin {"off", "base"} => base = fmBase
  /\ pc = "base" => saved = {}

(* A save that a clear overtook writes a record of the era before, and     *)
(* nothing is saved of the new one yet.                                    *)
SaveInv ==
  /\ \A t \in saved : t <= now
  /\ pc \in {"addr", "write"} =>
       /\ rec.time = now /\ rec.era <= era
       /\ rec.era = era => rec.time > base
       /\ rec.era # era => saved = {}
  /\ pc = "write" /\ rec.era = era => addr = nPTE_Addr(rec.time, base)

(* The numbers the host's position can be: none yet, an encoded month of   *)
(* some year, or what a first step back from none wraps to.                *)
Position(v) ==
  \/ v = 0
  \/ v % YearBase \in 1 .. Months
  \/ v > Word - YearBase

AskInv ==
  /\ pc = "off" => asked = None
  /\ Position(SendIndex)
  /\ asked # None =>
       /\ asked[1] <= base
       /\ Position(asked[2]) \/ asked[2] = asked[1] + 1

LEMMA LastMonthFits == LastMonth + 1 \in 0 .. Word - 1
<1>1. /\ YearBase \in Nat /\ LastYear \in Nat /\ Word \in Nat
      /\ YearBase > Months + 1 /\ Months \in Nat
      /\ Word >= YearBase * (LastYear + 2)
  BY CalendarAssumption
<1>2. YearBase * (LastYear + 2) = (YearBase * LastYear) + YearBase + YearBase
  BY <1>1
<1>3. YearBase * LastYear \in Nat
  BY <1>1
<1> QED
  BY <1>1, <1>2, <1>3 DEF LastMonth

LEMMA PositionStep ==
  ASSUME NEW v \in 0 .. Word - 1, Position(v)
  PROVE  Position(StepBack(v))
<1> DEFINE q == v \div YearBase
<1>1. /\ YearBase \in Nat \ {0} /\ Months \in Nat \ {0} /\ Word \in Nat
      /\ YearBase > Months + 1 /\ Word % YearBase = 0
  BY CalendarAssumption
<1>2. Word >= YearBase
  <2>1. /\ LastMonth + 1 \in 0 .. Word - 1
        /\ LastYear \in Nat /\ Word >= YearBase * (LastYear + 2)
    BY LastMonthFits, CalendarAssumption
  <2>2. YearBase * (LastYear + 2) = (YearBase * LastYear) + YearBase + YearBase
    BY <1>1, <2>1
  <2>3. YearBase * LastYear \in Nat
    BY <1>1, <2>1
  <2> QED
    BY <1>1, <2>1, <2>2, <2>3
<1>3. v \in Nat /\ v < Word
  BY <1>1
<1>4. PrevMonth(v) \in Int /\ PrevMonth(v) < Word /\ PrevMonth(v) >= 0 - YearBase
  BY <1>1, <1>3 DEF PrevMonth
<1>5. PrevMonth(v) >= 0 => StepBack(v) = PrevMonth(v)
  BY <1>1, <1>4 DEF StepBack
<1>6. PrevMonth(v) < 0 => StepBack(v) = PrevMonth(v) + Word
  BY <1>1, <1>2, <1>4 DEF StepBack
<1>7. CASE PrevMonth(v) < 0
  BY <1>1, <1>3, <1>4, <1>6, <1>7 DEF Position, PrevMonth
<1>8. CASE PrevMonth(v) >= 0 /\ v % YearBase = 1
  <2>1. q \in Nat /\ v = (YearBase * q) + 1 /\ YearBase * q \in Nat
    BY <1>1, <1>3, <1>8
  <2>2. PrevMonth(v) = ((YearBase * q) - YearBase) + Months
    BY <1>1, <1>8, <2>1 DEF PrevMonth
  <2> HIDE DEF q
  <2>3. q # 0
    BY <1>1, <1>8, <2>2
  <2>4. PICK k \in Nat : PrevMonth(v) = (YearBase * k) + Months
    <3>1. q - 1 \in Nat /\ PrevMonth(v) = (YearBase * (q - 1)) + Months
      BY <1>1, <2>1, <2>2, <2>3
    <3> QED
      BY <3>1
  <2>5. ((YearBase * k) + Months) % YearBase = Months
    BY <1>1, YearAndMonth
  <2>6. PrevMonth(v) % YearBase = Months
    BY <2>4, <2>5
  <2> QED
    BY <1>1, <1>5, <1>8, <2>6 DEF Position
<1>9. CASE PrevMonth(v) >= 0 /\ v % YearBase # 1
  <2>1. StepBack(v) = v - 1 /\ v >= 1
    BY <1>3, <1>5, <1>9 DEF PrevMonth
  <2>2. CASE v % YearBase \in 1 .. Months
    <3>1. q \in Nat /\ v = (YearBase * q) + (v % YearBase)
      BY <1>1, <1>3
    <3>2. PICK m \in 2 .. Months : m = v % YearBase
      BY <1>1, <1>9, <2>2
    <3> HIDE DEF q
    <3>3. v - 1 = (YearBase * q) + (m - 1) /\ m - 1 \in Nat /\ m - 1 < YearBase
      BY <1>1, <3>1, <3>2
    <3>4. ((YearBase * q) + (m - 1)) % YearBase = m - 1
      BY <1>1, <3>1, <3>3, YearAndMonth
    <3>5. (v - 1) % YearBase = m - 1
      BY <3>3, <3>4
    <3> QED
      BY <1>1, <2>1, <3>2, <3>5 DEF Position
  <2>3. CASE v > Word - YearBase
    <3> DEFINE w == Word \div YearBase
    <3>1. w \in Nat /\ Word = YearBase * w
      BY <1>1
    <3> HIDE DEF w
    <3>2. w # 0
      BY <1>1, <1>2, <3>1
    <3>3. Word - YearBase = YearBase * (w - 1) /\ w - 1 \in Nat
      BY <1>1, <3>1, <3>2
    <3>4. ((YearBase * (w - 1)) + 1) % YearBase = 1
      BY <1>1, <3>3, YearAndMonth
    <3>5. v # (Word - YearBase) + 1
      BY <1>9, <3>3, <3>4
    <3> QED
      BY <1>1, <1>3, <2>1, <2>3, <3>5 DEF Position
  <2> QED
    BY <2>1, <2>2, <2>3 DEF Position
<1> QED
  BY <1>4, <1>7, <1>8, <1>9

(* A position up to the present month is a month.                          *)
LEMMA PositionIsMonth ==
  ASSUME NEW v \in Nat, Position(v), v # 0, v <= LastMonth
  PROVE  v \in Times
<1> DEFINE q == v \div YearBase
           m == v % YearBase
<1>1. /\ YearBase \in Nat \ {0} /\ Months \in Nat \ {0} /\ Word \in Nat
      /\ YearBase > Months + 1 /\ LastYear \in Nat
      /\ Word >= YearBase * (LastYear + 2)
  BY CalendarAssumption
<1>2. /\ YearBase * (LastYear + 2) = (YearBase * LastYear) + YearBase + YearBase
      /\ YearBase * LastYear \in Nat
  BY <1>1
<1>3. v <= Word - YearBase
  BY <1>1, <1>2 DEF LastMonth
<1>4. m \in 1 .. Months
  BY <1>1, <1>3 DEF Position
<1>5. q \in Nat /\ v = (YearBase * q) + m /\ YearBase * q \in Nat
  BY <1>1
<1> HIDE DEF q, m
<1>6. q <= LastYear
  <2> SUFFICES ASSUME LastYear < q PROVE FALSE
    BY <1>1, <1>5
  <2>1. (YearBase * LastYear) + YearBase <= YearBase * q
    BY <1>1, <1>5, MultipleGap
  <2> QED
    BY <1>1, <1>2, <1>4, <1>5, <2>1 DEF LastMonth
<1>7. q \in 0 .. LastYear
  BY <1>1, <1>5, <1>6
<1> QED
  BY <1>4, <1>5, <1>7 DEF Times

(* The number after a base is a month or, after the last month of a year,  *)
(* counts as one; in both cases it is the first month after the base.      *)
LEMMA AfterBase ==
  ASSUME NEW b \in Times \cup {0}
  PROVE  /\ Linear(b + 1) = Linear(b) + 1
         /\ nPTE_Addr(b + 1, b) \in SlotIndex
<1>1. /\ YearBase \in Nat \ {0} /\ Months \in Nat \ {0}
      /\ YearBase > Months + 1
  BY CalendarAssumption
<1>2. PICK y \in Nat : \E m \in 0 .. Months :
        b = (YearBase * y) + m /\ Linear(b) = (y * Months) + m
  <2>1. CASE b = 0
    <3>1. b = (YearBase * 0) + 0 /\ 0 \in 0 .. Months
      BY <1>1, <2>1
    <3>2. (0 \div YearBase) = 0 /\ (0 % YearBase) = 0
      BY <1>1
    <3>3. Linear(b) = (0 * Months) + 0
      BY <1>1, <2>1, <3>2 DEF Linear
    <3> QED
      BY <3>1, <3>3
  <2>2. CASE b \in Times
    <3>1. PICK y \in 0 .. LastYear : \E m \in 1 .. Months :
            b = (YearBase * y) + m /\ Linear(b) = (y * Months) + m
      BY <2>2, TimeParts
    <3>2. y \in Nat
      BY CalendarAssumption
    <3> QED
      BY <3>1, <3>2
  <2> QED
    BY <2>1, <2>2
<1>3. PICK m \in 0 .. Months :
        b = (YearBase * y) + m /\ Linear(b) = (y * Months) + m
  BY <1>2
<1>4. m \in Nat /\ m + 1 \in Nat /\ m + 1 < YearBase /\ y * Months \in Nat
      /\ YearBase * y \in Nat
  BY <1>1
<1>5. b + 1 = (YearBase * y) + (m + 1)
  BY <1>3, <1>4
<1>6. ((b + 1) % YearBase) = m + 1 /\ ((b + 1) \div YearBase) = y
  <2>1. /\ ((YearBase * y) + (m + 1)) % YearBase = m + 1
        /\ ((YearBase * y) + (m + 1)) \div YearBase = y
    BY <1>1, <1>4, YearAndMonth
  <2> QED
    BY <1>5, <2>1
<1>7. Linear(b + 1) = (y * Months) + (m + 1)
  BY <1>6 DEF Linear
<1>8. Linear(b + 1) = Linear(b) + 1 /\ Linear(b) \in Nat
  BY <1>3, <1>4, <1>7
<1>9. Linear(LastMonth) \in Nat
  BY LastMonthIsMonth, MonthOrder
<1> QED
  BY <1>8, <1>9 DEF nPTE_Addr, SlotIndex

(* The host's query reads a slot of the log whatever was cleared between   *)
(* the command and its answer.                                             *)
LEMMA AskedSlot ==
  ASSUME TypeOK, BaseInv, AskInv, asked # None,
         asked[2] <= now, asked[2] > base
  PROVE  nPTE_Addr(asked[2], base) \in SlotIndex
<1>1. /\ base \in Times \cup {0} /\ base \in Nat
      /\ asked[1] \in Times \cup {0} /\ asked[1] \in Nat
      /\ asked[2] \in Nat /\ now \in Nat /\ now <= LastMonth
  BY CalendarAssumption, MonthOrder DEF TypeOK
<1>2. CASE Position(asked[2])
  <2>1. LastMonth \in Nat
    BY CalendarAssumption DEF LastMonth
  <2>2. asked[2] \in Times
    BY <1>1, <1>2, <2>1, PositionIsMonth
  <2> QED
    BY <1>1, <2>2, AddrInRange
<1>3. CASE asked[2] = asked[1] + 1
  <2>1. asked[2] = base + 1
    BY <1>1, <1>3 DEF AskInv
  <2> QED
    BY <1>1, <2>1, AfterBase
<1> QED
  BY <1>2, <1>3 DEF AskInv

LEMMA TypeStep ==
  ASSUME TypeOK, BaseInv, SaveInv, AskInv, [Next]_vars
  PROVE  TypeOK'
<1> USE DEF fram, ram, eras, clock, host
<1>t. /\ LastMonth + 1 \in 0 .. Word - 1
      /\ MaxEra \in Nat \ {0}
      /\ Zero \in Records /\ Zero.time = 0
      /\ \A t \in Times : t \in Nat /\ t >= 1 /\ t <= LastMonth
      /\ Word \in Nat
  BY LastMonthFits, CalendarAssumption, MonthOrder DEF Zero, Records, Eras
<1>1. CASE BootLoad
  BY <1>1 DEF BootLoad, TypeOK
<1>2. CASE BootDefaults
  <2>1. baseEra' \in 1 .. era' /\ saved' = {}
    BY <1>2 DEF BootDefaults, TypeOK
  <2> QED
    BY <1>2, <2>1 DEF BootDefaults, TypeOK
<1>3. CASE SaveStart
  <2>1. PrevMonth(now) \in Times
    BY PrevIsMonth DEF BaseInv, TypeOK
  <2> QED
    BY <1>3, <2>1 DEF SaveStart, TypeOK
<1>4. CASE SaveBase
  BY <1>4 DEF SaveBase, TypeOK
<1>5. CASE SaveTime
  <2>1. [time |-> now, era |-> era] \in Records
    BY <1>t DEF TypeOK, Records, Eras
  <2> QED
    BY <1>5, <2>1 DEF SaveTime, TypeOK
<1>6. CASE SaveAddr
  <2>1. rec.time = now /\ now \in Times /\ base <= now /\ base \in Times \cup {0}
    BY <1>6 DEF SaveAddr, SaveInv, BaseInv, TypeOK
  <2>2. nPTE_Addr(rec.time, base) \in SlotIndex
    BY <2>1, AddrInRange
  <2> QED
    BY <1>6, <2>2 DEF SaveAddr, TypeOK
<1>7. CASE SaveWrite
  <2>1. slot' \in [SlotIndex -> Records]
    BY <1>7 DEF SaveWrite, TypeOK
  <2>2. saved' \subseteq Times
    BY <1>7 DEF SaveWrite, SaveInv, TypeOK
  <2>3. /\ fmInit' \in BOOLEAN /\ {fmBase'} \subseteq Times \cup {0}
        /\ {fmFlag'} \subseteq {0, 1}
    BY <1>7 DEF SaveWrite, TypeOK
  <2> QED
    BY <1>7, <2>1, <2>2, <2>3 DEF SaveWrite, TypeOK
<1>8. CASE SaveMark
  BY <1>8 DEF SaveMark, TypeOK
<1>9. CASE FlagReset
  BY <1>9 DEF FlagReset, TypeOK
<1>10. CASE EnergyClear
  <2>1. era' \in 1 .. MaxEra /\ baseEra' \in 1 .. era'
    BY <1>t, <1>10 DEF EnergyClear, TypeOK
  <2> QED
    BY <1>10, <2>1 DEF EnergyClear, TypeOK
<1>11. CASE PowerFail \/ PowerFailInClear
  <2>1. era' \in 1 .. MaxEra /\ baseEra' \in 1 .. era'
    BY <1>t, <1>11 DEF PowerFail, PowerFailInClear, TypeOK
  <2>2. /\ slot' = slot /\ fmInit' = fmInit /\ fmBase' = fmBase
        /\ fmFlag' = fmFlag /\ saved' = saved
    BY <1>11 DEF PowerFail, PowerFailInClear
  <2>3. RamLost
    BY <1>11 DEF PowerFail, PowerFailInClear
  <2>4. None \in (Times \cup {0}) \X (0 .. Word - 1)
    <3>1. 0 \in 0 .. Word - 1
      BY <1>t
    <3> QED
      BY <3>1, Zenon DEF None
  <2>5. [from |-> Zero, to |-> Zero] \in [from : Records, to : Records]
    BY <1>t
  <2>6. 0 \in SlotIndex /\ 0 \in 0 .. Word - 1
    BY <1>t, LastMonthIsMonth, MonthOrder DEF SlotIndex
  <2> QED
    BY <1>t, <2>1, <2>2, <2>3, <2>4, <2>5, <2>6 DEF RamLost, TypeOK
<1>12. CASE Tick
  <2>1. now' \in Times
    BY <1>12, NextIsMonth DEF Tick, TypeOK
  <2>2. minute' \in {"zero", "after"} /\ steady' \in BOOLEAN
    BY <1>12 DEF Tick, TypeOK
  <2> QED
    BY <1>12, <2>1, <2>2 DEF Tick, TypeOK
<1>13. ASSUME NEW c \in {0, 1, 2}, HostAsk(c)
       PROVE  TypeOK'
  <2>1. now \in 0 .. Word - 1 /\ base + 1 \in 0 .. Word - 1
    <3>1. now \in Times /\ base \in Times \cup {0}
      BY DEF TypeOK
    <3>2. LastMonth \in Nat /\ LastMonth + 1 < Word
      BY <1>t, CalendarAssumption DEF LastMonth
    <3> QED
      BY <1>t, <3>1, <3>2
  <2>2. SendIndex' \in 0 .. Word - 1
    BY <1>13, <2>1, StepBackSkipsNone DEF HostAsk, Stepped, TypeOK
  <2>3. asked' \in (Times \cup {0}) \X (0 .. Word - 1)
    <3>1. (IF SendIndex' > base THEN SendIndex' ELSE base + 1) \in 0 .. Word - 1
      BY <2>1, <2>2
    <3>2. base \in Times \cup {0}
      BY DEF TypeOK
    <3> QED
      BY <1>13, <3>1, <3>2 DEF HostAsk
  <2>4. sent' \subseteq Times /\ answer' = {} /\ first' \in Times \cup {0}
    BY <1>13 DEF HostAsk, TypeOK
  <2>5. last' \in {0, 1}
    BY <1>13 DEF HostAsk
  <2>6. UNCHANGED <<fram, ram, eras, clock, pc, rec, addr, reply, saved, steady>>
    BY <1>13 DEF HostAsk
  <2> QED
    BY <2>2, <2>3, <2>4, <2>5, <2>6 DEF TypeOK
<1>14. CASE HostQuery
  <2> DEFINE b == asked[1]
             e == asked[2]
  <2>1. Query(b, e) \in [from : Records, to : Records]
    <3>t. /\ b \in Times \cup {0} /\ b <= base
          /\ now \in Times /\ base \in Times \cup {0} /\ base <= now
          /\ e \in Nat /\ now \in Nat /\ base \in Nat
      BY <1>t, <1>14 DEF TypeOK, AskInv, BaseInv, HostQuery
    <3>1. e <= now /\ e > base => nPTE_Addr(e, base) \in SlotIndex
      BY <1>14, AskedSlot DEF HostQuery
    <3>2. nPTE_Addr(now, base) \in SlotIndex
      BY <3>t, AddrInRange
    <3>3. \A i \in SlotIndex : slot[i] \in Records
      BY DEF TypeOK
    <3> HIDE DEF b, e
    <3> QED
      BY <1>t, <3>t, <3>1, <3>2, <3>3 DEF Query
  <2>2. reply' \in [from : Records, to : Records]
    BY <1>14, <2>1 DEF HostQuery
  <2>3. None \in (Times \cup {0}) \X (0 .. Word - 1)
    <3>1. 0 \in 0 .. Word - 1
      BY <1>t
    <3> QED
      BY <3>1, Zenon DEF None
  <2>4. answer' \subseteq Times
    BY <1>14 DEF HostQuery
  <2> QED
    BY <1>14, <2>2, <2>3, <2>4 DEF HostQuery, TypeOK
<1>15. CASE UNCHANGED vars
  BY <1>15 DEF vars, TypeOK
<1> QED
  BY <1>1, <1>2, <1>3, <1>4, <1>5, <1>6, <1>7, <1>8, <1>9, <1>10, <1>11, <1>12,
     <1>13, <1>14, <1>15
  DEF Next, gPTE_Save, PCTask

-----------------------------------------------------------------------------
(* The numbers behind the clock and the bases.                             *)
LEMMA ClockNumbers ==
  ASSUME TypeOK
  PROVE  /\ now \in Nat /\ now <= LastMonth /\ LastMonth \in Nat
         /\ base \in Nat /\ fmBase \in Nat /\ YearBase \in Nat
         /\ \A t \in saved : t \in Nat /\ t >= 1
<1>1. \A t \in Times : t \in Nat /\ t >= 1 /\ t <= LastMonth
  BY MonthOrder
<1>2. LastMonth \in Nat /\ YearBase \in Nat
  BY CalendarAssumption DEF LastMonth
<1> QED
  BY <1>1, <1>2 DEF TypeOK

LEMMA BaseStep ==
  ASSUME TypeOK, BaseInv, [Next]_vars
  PROVE  BaseInv'
<1> USE ClockNumbers DEF fram, ram, eras, clock, BaseInv
<1>1. CASE BootLoad
  BY <1>1 DEF BootLoad
<1>2. CASE BootDefaults
  BY <1>2 DEF BootDefaults
<1>3. CASE SaveStart
  <2>1. PrevMonth(now) \in Times /\ PrevMonth(now) < now
    BY PrevIsMonth DEF TypeOK
  <2>2. pc = "idle" /\ (base = 0 => saved = {})
    BY <1>3 DEF SaveStart
  <2>3. PrevMonth(now) \in Nat /\ PrevMonth(now) # 0
    BY <2>1, MonthOrder
  <2> QED
    BY <1>3, <2>1, <2>2, <2>3 DEF SaveStart
<1>4. CASE SaveBase
  BY <1>4 DEF SaveBase
<1>5. CASE SaveTime
  BY <1>5 DEF SaveTime
<1>6. CASE SaveAddr
  BY <1>6 DEF SaveAddr
<1>7. CASE SaveWrite
  BY <1>7 DEF SaveWrite
<1>8. CASE SaveMark
  BY <1>8 DEF SaveMark
<1>9. CASE FlagReset
  BY <1>9 DEF FlagReset
<1>10. CASE EnergyClear
  BY <1>10 DEF EnergyClear
<1>11. CASE PowerFail \/ PowerFailInClear
  BY <1>11 DEF PowerFail, PowerFailInClear, RamLost
<1>12. CASE Tick
  <2>1. now' = now \/ now' > now
    BY <1>12, NextIsMonth DEF Tick, TypeOK
  <2>2. now' \in Nat
    BY <1>12, NextIsMonth, MonthOrder DEF Tick, TypeOK
  <2>3. UNCHANGED <<base, fmBase, fmInit, saved, pc>>
    BY <1>12 DEF Tick
  <2> QED
    BY <2>1, <2>2, <2>3
<1>13. ASSUME NEW c \in {0, 1, 2}, HostAsk(c)
       PROVE  BaseInv'
  BY <1>13 DEF HostAsk
<1>14. CASE HostQuery
  BY <1>14 DEF HostQuery
<1>15. CASE UNCHANGED vars
  BY <1>15 DEF vars
<1> QED
  BY <1>1, <1>2, <1>3, <1>4, <1>5, <1>6, <1>7, <1>8, <1>9, <1>10, <1>11, <1>12,
     <1>13, <1>14, <1>15
  DEF Next, gPTE_Save, PCTask

LEMMA AskStep ==
  ASSUME TypeOK, BaseInv, AskInv, [Next]_vars
  PROVE  AskInv'
<1> USE ClockNumbers DEF fram, ram, clock, host
<1>1. CASE \E c \in {0, 1, 2} : HostAsk(c)
  <2>1. PICK c \in {0, 1, 2} : HostAsk(c)
    BY <1>1
  <2>2. Position(now)
    <3>1. PICK y \in 0 .. LastYear : \E m \in 1 .. Months : now % YearBase = m
      BY TimeParts DEF TypeOK
    <3> QED
      BY <3>1 DEF Position
  <2>3. Position(SendIndex')
    BY <2>1, <2>2, PositionStep DEF HostAsk, Stepped, AskInv, TypeOK
  <2>4. /\ asked'[1] = base /\ base' = base /\ pc' = pc /\ pc # "off"
        /\ asked'[2] \in {SendIndex', base + 1}
    BY <2>1 DEF HostAsk
  <2> QED
    BY <2>3, <2>4 DEF AskInv
<1>2. CASE PowerFail \/ PowerFailInClear
  BY <1>2 DEF PowerFail, PowerFailInClear, RamLost, AskInv, Position
<1>3. CASE HostQuery
  BY <1>3 DEF HostQuery, AskInv, None
<1>4. CASE EnergyClear
  <2>1. UNCHANGED <<SendIndex, asked, pc>> /\ base' = now
    BY <1>4 DEF EnergyClear
  <2>2. asked[1] \in Nat /\ base <= now
    BY MonthOrder DEF TypeOK, BaseInv
  <2> QED
    BY <2>1, <2>2 DEF AskInv
<1>5. CASE BootLoad \/ BootDefaults
  BY <1>5 DEF BootLoad, BootDefaults, AskInv
<1>6. CASE asked = None /\ (gPTE_Save \/ Tick)
  <2>1. UNCHANGED <<SendIndex, asked>> /\ asked = None
    BY <1>6 DEF gPTE_Save, Tick, SaveStart, SaveBase, SaveTime, SaveAddr,
       SaveWrite, SaveMark, FlagReset
  <2> QED
    BY <1>6, <2>1 DEF AskInv
<1>7. CASE UNCHANGED vars
  BY <1>7 DEF vars, AskInv
<1> QED
  BY <1>1, <1>2, <1>3, <1>4, <1>5, <1>6, <1>7 DEF Next, PCTask

-----------------------------------------------------------------------------
(* The base the saved months are counted from, now or after the next boot, *)
(* whether it is to be had, and a month that is in its slot.               *)
Base == IF pc = "off" THEN fmBase ELSE base
Rooted == pc = "off" => fmInit
Kept(t, b) == /\ t > b
              /\ slot[nPTE_Addr(t, b)].time = t
              /\ slot[nPTE_Addr(t, b)].era \in baseEra .. era

(* Apart from the write of a record and from a clear, a step leaves the    *)
(* records, what counts as saved and its base alone, or nothing is saved.  *)
LEMMA QuietStep ==
  ASSUME TypeOK, BaseInv, [Next]_vars, ~SaveWrite, ~EnergyClear
  PROVE  \/ saved' = {}
         \/ /\ UNCHANGED <<slot, baseEra, saved>>
            /\ era' \in {era, era + 1}
            /\ Rooted' => Rooted /\ Base' = Base
<1> USE DEF fram, ram, eras, clock, host
<1>1. CASE BootLoad
  BY <1>1 DEF BootLoad, Base, Rooted
<1>2. CASE BootDefaults
  BY <1>2 DEF BootDefaults
<1>3. CASE SaveStart \/ SaveBase \/ SaveTime \/ SaveAddr \/ SaveMark \/ FlagReset
  <2>1. UNCHANGED <<slot, baseEra, era, saved>> /\ pc # "off" /\ pc' # "off"
    BY <1>3, Zenon DEF SaveStart, SaveBase, SaveTime, SaveAddr, SaveMark, FlagReset
  <2>2. base' = base \/ saved = {}
    BY <1>3 DEF SaveStart, SaveBase, SaveTime, SaveAddr, SaveMark, FlagReset,
       BaseInv
  <2> QED
    BY <2>1, <2>2 DEF Base, Rooted
<1>4. CASE PowerFail \/ PowerFailInClear
  <2>1. /\ UNCHANGED <<slot, fmInit, fmBase, baseEra, saved>>
        /\ era' \in {era, era + 1} /\ pc # "off" /\ pc' = "off"
    BY <1>4 DEF PowerFail, PowerFailInClear, RamLost
  <2>2. saved # {} /\ fmInit => base = fmBase
    BY <2>1 DEF BaseInv
  <2> QED
    BY <2>1, <2>2 DEF Base, Rooted
<1>5. CASE Tick \/ HostQuery \/ \E c \in {0, 1, 2} : HostAsk(c)
  <2>1. UNCHANGED <<slot, baseEra, era, saved, pc, base, fmBase, fmInit>>
    BY <1>5, Zenon DEF Tick, HostQuery, HostAsk
  <2> QED
    BY <2>1 DEF Base, Rooted
<1>6. CASE UNCHANGED vars
  BY <1>6 DEF vars, Base, Rooted
<1> QED
  BY <1>1, <1>2, <1>3, <1>4, <1>5, <1>6 DEF Next, gPTE_Save, PCTask

LEMMA SaveStep ==
  ASSUME TypeOK, BaseInv, SaveInv, SavedKept, [Next]_vars
  PROVE  SaveInv' /\ SavedKept'
<1> USE DEF fram, ram, eras, clock, host
<1>k. SavedKept <=> (Rooted => \A t \in saved : Kept(t, Base))
  BY DEF SavedKept, Base, Rooted, Kept
<1>l. SavedKept' <=> (Rooted' => \A t \in saved' : Kept(t, Base)')
  BY DEF SavedKept, Base, Rooted, Kept
<1>e. /\ era \in Nat /\ baseEra \in Nat /\ baseEra <= era
  BY CalendarAssumption DEF TypeOK
<1>n. nPTE_Addr(rec.time, base)' = nPTE_Addr(rec.time', base')
  BY DEF nPTE_Addr
<1>1. CASE SaveWrite
  <2>1. /\ pc = "write" /\ pc' = "mark"
        /\ slot' = [slot EXCEPT ![addr] = rec]
        /\ saved' = IF rec.era = era THEN saved \cup {rec.time} ELSE saved
        /\ UNCHANGED <<era, baseEra, base, now>>
        /\ rec.time = now /\ now \in Times /\ base \in Times \cup {0}
        /\ rec \in Records
    BY <1>1 DEF SaveWrite, SaveInv, TypeOK
  <2>2. SaveInv'
    BY <2>1, ClockNumbers DEF SaveInv
  <2>3. CASE rec.era # era
    BY <1>l, <2>1, <2>2, <2>3 DEF SaveInv
  <2>4. CASE rec.era = era
    <3>1. now > base /\ addr = nPTE_Addr(now, base)
      BY <2>1, <2>4 DEF SaveInv
    <3>2. addr \in SlotIndex
      BY DEF TypeOK
    <3>3. Base = base /\ Base' = base /\ Rooted
      BY <2>1 DEF Base, Rooted
    <3>4. ASSUME NEW t \in saved, t # now
          PROVE  Kept(t, Base)'
      <4>1. t \in Times
        BY DEF TypeOK
      <4>2. nPTE_Addr(t, base) # addr
        BY <2>1, <3>1, <3>4, <4>1, AddrDistinct
      <4>3. Kept(t, base)
        BY <1>k, <3>3
      <4>4. t > base
        BY <4>3 DEF Kept
      <4>5. nPTE_Addr(t, base) \in SlotIndex
        BY <2>1, <4>1, <4>4, AddrInRange, ClockNumbers, MonthOrder
      <4>6. slot'[nPTE_Addr(t, base)] = slot[nPTE_Addr(t, base)]
        BY <2>1, <4>2, <4>5 DEF TypeOK
      <4> QED
        BY <2>1, <3>3, <4>3, <4>6 DEF Kept, nPTE_Addr
    <3>5. Kept(now, Base)'
      <4>1. slot'[nPTE_Addr(now, base)] = rec
        BY <2>1, <3>1, <3>2 DEF TypeOK
      <4> QED
        BY <1>e, <2>1, <2>4, <3>1, <3>3, <4>1 DEF Kept, nPTE_Addr
    <3> QED
      BY <1>l, <2>1, <2>2, <2>4, <3>4, <3>5
  <2> QED
    BY <2>3, <2>4
<1>2. CASE EnergyClear
  <2>1. /\ saved' = {} /\ era' = era + 1 /\ now' = now
        /\ UNCHANGED <<pc, rec, addr>>
    BY <1>2 DEF EnergyClear
  <2>2. SavedKept'
    BY <1>l, <2>1
  <2>3. rec.era \in Int /\ era \in Int
    BY CalendarAssumption DEF TypeOK, Records, Eras
  <2> QED
    BY <2>1, <2>2, <2>3 DEF SaveInv
<1>3. CASE ~SaveWrite /\ ~EnergyClear
  <2>1. \/ saved' = {}
        \/ /\ UNCHANGED <<slot, baseEra, saved>>
           /\ era' \in {era, era + 1}
           /\ Rooted' => Rooted /\ Base' = Base
    BY <1>3, QuietStep
  <2>2. SavedKept'
    <3>1. CASE saved' = {}
      BY <1>l, <3>1
    <3>2. ASSUME saved' # {}, Rooted', NEW t \in saved'
          PROVE  Kept(t, Base)'
      <4>1. /\ UNCHANGED <<slot, baseEra, saved>>
            /\ era' \in {era, era + 1} /\ Rooted /\ Base' = Base
        BY <2>1, <3>2
      <4>2. Kept(t, Base) /\ t \in saved
        BY <1>k, <3>2, <4>1
      <4>3. nPTE_Addr(t, Base)' = nPTE_Addr(t, Base)
        BY <4>1 DEF nPTE_Addr
      <4> QED
        BY <1>e, <4>1, <4>2, <4>3 DEF Kept
    <3> QED
      BY <1>l, <3>1, <3>2
  <2>3. SaveInv'
    <3>t. now' \in Nat /\ now' >= now /\ now \in Nat
      <4>1. CASE Tick
        BY <4>1, NextIsMonth, MonthOrder, ClockNumbers DEF Tick, TypeOK
      <4>2. CASE ~Tick
        <5>1. now' = now
          BY <1>3, <4>2, Zenon DEF Next, gPTE_Save, PCTask, BootLoad,
             BootDefaults, SaveStart, SaveBase, SaveTime, SaveAddr, SaveMark,
             FlagReset, PowerFail, PowerFailInClear, RamLost, HostAsk,
             HostQuery, vars
        <5> QED
          BY <5>1, ClockNumbers
      <4> QED
        BY <4>1, <4>2
    <3>1. \A t \in saved' : t <= now'
      BY <2>1, <3>t, ClockNumbers DEF SaveInv
    <3>2. CASE SaveTime
      <4>1. era' = era /\ saved' = saved
        BY <3>2 DEF SaveTime
      <4> QED
        BY <1>e, <3>1, <3>2, <4>1 DEF SaveTime, SaveInv
    <3>3. CASE SaveAddr
      BY <1>n, <3>1, <3>3 DEF SaveAddr, SaveInv
    <3>4. CASE ~SaveTime /\ ~SaveAddr
      <4>1. \/ pc' \notin {"addr", "write"}
            \/ UNCHANGED <<pc, now, rec, addr, base, era, saved>>
        BY <1>3, <3>4 DEF Next, gPTE_Save, PCTask, BootLoad, BootDefaults,
           SaveStart, SaveBase, SaveMark, FlagReset, PowerFail,
           PowerFailInClear, RamLost, Tick, HostAsk, HostQuery, vars
      <4> QED
        BY <1>n, <3>1, <4>1 DEF SaveInv
    <3> QED
      BY <3>2, <3>3, <3>4
  <2> QED
    BY <2>2, <2>3
<1> QED
  BY <1>1, <1>2, <1>3

-----------------------------------------------------------------------------
(* From 00:00 on, with the power on and no clear: the base is before the   *)
(* month, so gPTE_Save takes the record, and the flag is up only once the  *)
(* month is saved.                                                         *)
MonthInv ==
  steady =>
    /\ pc # "off" /\ base < now
    /\ pc \in {"addr", "write"} => rec.era = era
    /\ minute = "zero" /\ flag = 1 => now \in saved
    /\ minute = "after" => now \in saved

LEMMA MonthStep ==
  ASSUME TypeOK, BaseInv, SaveInv, MonthInv, [Next]_vars
  PROVE  MonthInv'
<1> USE DEF fram, ram, eras, clock, host, MonthInv
<1>t. flag \in {0, 1} /\ minute \in {"zero", "after"}
  BY DEF TypeOK
<1>1. CASE BootLoad \/ BootDefaults
  BY <1>1 DEF BootLoad, BootDefaults
<1>2. CASE SaveStart
  <2>1. PrevMonth(now) < now
    BY PrevIsMonth DEF BaseInv, TypeOK
  <2> QED
    BY <1>2, <2>1 DEF SaveStart
<1>3. CASE SaveBase
  BY <1>3 DEF SaveBase
<1>4. CASE SaveTime
  BY <1>4 DEF SaveTime
<1>5. CASE SaveAddr
  BY <1>5 DEF SaveAddr
<1>6. CASE SaveWrite
  BY <1>6 DEF SaveWrite, SaveInv
<1>7. CASE SaveMark
  BY <1>7 DEF SaveMark
<1>8. CASE FlagReset
  BY <1>8 DEF FlagReset, ResetDue
<1>9. CASE EnergyClear
  BY <1>9 DEF EnergyClear
<1>10. CASE PowerFail \/ PowerFailInClear
  BY <1>10 DEF PowerFail, PowerFailInClear, RamLost
<1>11. CASE Tick
  <2>1. CASE minute = "zero"
    <3>1. steady => flag = 1 \/ base >= now \/ pc = "off"
      BY <1>t, <1>11, <2>1, ClockNumbers DEF Tick, SaveDue
    <3>2. steady => now \in saved
      BY <2>1, <3>1, ClockNumbers
    <3>3. minute' = "after" /\ UNCHANGED <<steady, now, saved, pc, base, rec, era>>
      BY <1>11, <2>1 DEF Tick
    <3>4. pc \in {"idle", "off"}
      BY <1>11 DEF Tick
    <3> QED
      BY <3>2, <3>3, <3>4
  <2>2. CASE minute = "after"
    <3>1. now' > now /\ now' \in Nat /\ minute' = "zero"
      BY <1>11, <2>2, NextIsMonth, MonthOrder DEF Tick, TypeOK
    <3>2. UNCHANGED <<pc, base, flag>>
      BY <1>11 DEF Tick
    <3>3. steady' => pc = "idle"
      BY <1>11, <2>2 DEF Tick
    <3>4. pc = "idle" => flag = 0
      BY <1>t, <1>11, <2>2 DEF Tick, ResetDue
    <3>5. base < now'
      BY <3>1, ClockNumbers DEF BaseInv
    <3> QED
      BY <3>1, <3>2, <3>3, <3>4, <3>5
  <2> QED
    BY <1>t, <2>1, <2>2
<1>12. CASE HostQuery \/ \E c \in {0, 1, 2} : HostAsk(c)
  <2>1. UNCHANGED <<steady, now, minute, saved, pc, base, flag, rec, era>>
    BY <1>12, Zenon DEF HostQuery, HostAsk
  <2> QED
    BY <2>1
<1>13. CASE UNCHANGED vars
  BY <1>13 DEF vars
<1> QED
  BY <1>1, <1>2, <1>3, <1>4, <1>5, <1>6, <1>7, <1>8, <1>9, <1>10, <1>11, <1>12,
     <1>13
  DEF Next, gPTE_Save, PCTask

-----------------------------------------------------------------------------
(* The host's session: of the months between the base and the first one,   *)
(* the host has those after its position, and the one at its position has  *)
(* been sent or is being sent.                                             *)
MonthOf(e) == {t \in Times : Linear(t) = Linear(e)}
Answering == IF asked = None THEN answer ELSE MonthOf(asked[2])

SessionInv ==
  first # 0 =>
    /\ pc # "off"
    /\ last = 1 => SendIndex <= base + 1
    /\ \A t \in Times : base < t /\ t <= first =>
         /\ t > SendIndex => t \in sent
         /\ t = SendIndex => t \in sent \cup Answering

LEMMA SessionStep ==
  ASSUME TypeOK, BaseInv, AskInv, SessionInv, [Next]_vars
  PROVE  SessionInv'
<1> USE DEF fram, ram, eras, clock, host
<1>t. /\ \A t \in Times : t \in Nat
      /\ base \in Nat /\ now \in Nat /\ base <= now
      /\ SendIndex \in 0 .. Word - 1 /\ SendIndex \in Nat /\ Word \in Nat
      /\ first \in Nat
  BY ClockNumbers, MonthOrder, CalendarAssumption DEF TypeOK, BaseInv
<1>1. ASSUME NEW c \in {0, 1, 2}, HostAsk(c)
      PROVE  SessionInv'
  <2> DEFINE e == IF SendIndex' > base THEN SendIndex' ELSE base + 1
  <2>1. /\ asked = None /\ pc # "off"
        /\ SendIndex' = Stepped(c)
        /\ asked' = <<base, e>>
        /\ UNCHANGED <<base, pc>>
        /\ last' = IF SendIndex' <= base + 1 THEN 1 ELSE 0
        /\ first' = IF c = 0 THEN now ELSE first
        /\ sent' = IF c = 0 THEN {}
                   ELSE IF c = 1 THEN sent \cup answer ELSE sent
    BY <1>1 DEF HostAsk
  <2>2. SendIndex' \in Nat
    BY <1>t, <2>1, StepBackSkipsNone DEF Stepped
  <2>3. e # 0 /\ e \in Nat
    BY <1>t, <2>2
  <2>4. Answering' = MonthOf(e)
    <3>1. asked' # None /\ asked'[2] = e
      BY <2>1, <2>3 DEF None
    <3> HIDE DEF e
    <3> QED
      BY <3>1 DEF Answering, MonthOf
  <2>5. \A t \in Times : base < t /\ t = SendIndex' => t \in Answering'
    <3>1. \A t \in Times : t = e => t \in Answering'
      <4> HIDE DEF e
      <4> QED BY <2>4 DEF MonthOf
    <3> QED
      BY <3>1
  <2>6. ASSUME NEW t \in Times, base < t, t <= first', t > SendIndex', first' # 0
        PROVE  t \in sent'
    <3>1. CASE c = 0
      BY <1>t, <2>1, <2>6, <3>1 DEF Stepped
    <3>2. CASE c = 1
      <4>1. t >= SendIndex
        BY <1>t, <2>1, <2>2, <2>6, <3>2, StepBackSkipsNone DEF Stepped
      <4>2. t \in sent \cup answer
        BY <1>t, <2>1, <2>6, <3>2, <4>1 DEF SessionInv, Answering
      <4> QED
        BY <2>1, <3>2, <4>2
    <3>3. CASE c = 2
      BY <2>1, <2>6, <3>3 DEF SessionInv, Stepped
    <3> QED
      BY <3>1, <3>2, <3>3
  <2> HIDE DEF e
  <2> QED
    BY <2>1, <2>5, <2>6 DEF SessionInv
<1>2. CASE HostQuery
  <2>1. /\ UNCHANGED <<base, pc, last, first, sent, SendIndex>>
        /\ asked # None /\ asked' = None
        /\ answer' = MonthOf(asked[2])
    BY <1>2 DEF HostQuery, MonthOf
  <2>2. Answering' = Answering
    BY <2>1 DEF Answering
  <2> QED
    BY <2>1, <2>2 DEF SessionInv
<1>3. CASE PowerFail \/ PowerFailInClear
  BY <1>3 DEF PowerFail, PowerFailInClear, RamLost, SessionInv
<1>4. CASE BootLoad \/ BootDefaults
  BY <1>4 DEF BootLoad, BootDefaults, SessionInv
<1>5. CASE EnergyClear \/ (asked = None /\ (gPTE_Save \/ Tick))
  <2>1. /\ UNCHANGED <<last, first, sent, SendIndex, asked, answer>>
        /\ pc # "off" => pc' # "off"
    BY <1>5 DEF EnergyClear, gPTE_Save, Tick, SaveStart, SaveBase, SaveTime,
       SaveAddr, SaveWrite, SaveMark, FlagReset
  <2>2. base' \in Nat /\ base' >= base
    <3>1. CASE EnergyClear
      BY <1>t, <3>1 DEF EnergyClear
    <3>2. CASE SaveStart
      <4>1. PrevMonth(now) \in Nat
        BY PrevIsMonth, MonthOrder DEF BaseInv, TypeOK
      <4> QED
        BY <1>t, <3>2, <4>1 DEF SaveStart
    <3>3. CASE ~EnergyClear /\ ~SaveStart
      BY <1>t, <1>5, <3>3 DEF gPTE_Save, Tick, SaveBase, SaveTime,
         SaveAddr, SaveWrite, SaveMark, FlagReset
    <3> QED
      BY <3>1, <3>2, <3>3
  <2>3. Answering' = Answering
    BY <2>1 DEF Answering, MonthOf
  <2> SUFFICES ASSUME first' # 0 PROVE SessionInv'
    BY DEF SessionInv
  <2>4. /\ pc # "off"
        /\ last = 1 => SendIndex <= base + 1
        /\ \A t \in Times : base < t /\ t <= first =>
             /\ t > SendIndex => t \in sent
             /\ t = SendIndex => t \in sent \cup Answering
    BY <2>1 DEF SessionInv
  <2>5. last' = 1 => SendIndex' <= base' + 1
    <3>1. last' = last /\ SendIndex' = SendIndex
      BY <2>1
    <3>2. SendIndex \in Nat /\ base \in Nat
      BY <1>t
    <3>3. \A i, b, c \in Nat : i <= b + 1 /\ c >= b => i <= c + 1
      OBVIOUS
    <3>4. SendIndex <= base + 1 => SendIndex <= base' + 1
      BY <2>2, <3>2, <3>3, Zenon
    <3> QED
      BY <2>4, <3>1, <3>4
  <2>6. \A t \in Times : base' < t => base < t
    BY <1>t, <2>2
  <2> QED
    BY <2>1, <2>3, <2>4, <2>5, <2>6 DEF SessionInv
<1>6. CASE UNCHANGED vars
  <2>1. Answering' = Answering
    BY <1>6 DEF vars, Answering, MonthOf
  <2> QED
    BY <1>6, <2>1 DEF vars, SessionInv
<1> QED
  BY <1>1, <1>2, <1>3, <1>4, <1>5, <1>6 DEF Next, PCTask

-----------------------------------------------------------------------------
(* The whole invariant.                                                    *)
IInv == /\ TypeOK /\ BaseInv /\ AskInv /\ SaveInv /\ SavedKept
        /\ MonthInv /\ SessionInv

LEMMA HistoryInv == Spec => []IInv
<1>1. Init => IInv
  <2> SUFFICES ASSUME Init PROVE IInv
    OBVIOUS
  <2>1. /\ LastMonth + 1 \in 0 .. Word - 1
        /\ MaxEra \in Nat \ {0} /\ FirstMonth \in Times
        /\ FirstMonth > YearBase
        /\ \A t \in Times : t \in Nat /\ t >= 1 /\ t <= LastMonth
        /\ Linear(LastMonth) \in Nat
    BY LastMonthFits, LastMonthIsMonth, CalendarAssumption, MonthOrder
  <2>2. Zero \in Records
    BY <2>1 DEF Zero, Records, Eras
  <2>3. 0 \in 0 .. Word - 1 /\ 0 \in SlotIndex
    BY <2>1, CalendarAssumption DEF SlotIndex
  <2>4. None \in (Times \cup {0}) \X (0 .. Word - 1)
    BY <2>3, Zenon DEF None
  <2>5. slot \in [SlotIndex -> Records]
    BY <2>2 DEF Init
  <2>6. TypeOK
    <3>1. /\ fmInit \in BOOLEAN /\ steady \in BOOLEAN
          /\ saved \subseteq Times /\ sent \subseteq Times
          /\ answer \subseteq Times
      BY DEF Init
    <3>2. /\ {fmBase, base} \subseteq Times \cup {0}
          /\ {fmFlag, flag} \subseteq {0, 1} /\ last \in {0, 1}
          /\ era \in 1 .. MaxEra /\ baseEra \in 1 .. era /\ now \in Times
          /\ minute \in {"zero", "after"} /\ pc = "off"
          /\ first \in Times \cup {0}
      BY <2>1 DEF Init
    <3>3. /\ rec \in Records /\ addr \in SlotIndex
          /\ SendIndex \in 0 .. Word - 1
          /\ reply \in [from : Records, to : Records]
      BY <2>2, <2>3 DEF Init
    <3>4. asked \in (Times \cup {0}) \X (0 .. Word - 1)
      BY <2>4, Zenon DEF Init
    <3> QED
      BY <2>5, <3>1, <3>2, <3>3, <3>4 DEF TypeOK
  <2>7. BaseInv
    BY <2>1, CalendarAssumption DEF Init, BaseInv
  <2>8. AskInv /\ SaveInv /\ SavedKept /\ MonthInv /\ SessionInv
    BY DEF Init, AskInv, Position, SaveInv, SavedKept, MonthInv, SessionInv
  <2> QED
    BY <2>6, <2>7, <2>8 DEF IInv
<1>2. IInv /\ [Next]_vars => IInv'
  BY TypeStep, BaseStep, AskStep, SaveStep, MonthStep, SessionStep DEF IInv
<1> QED
  BY <1>1, <1>2, PTL DEF Spec

(* The types: a save goes to a slot of the history or to the one place     *)
(* before the first, -1; what a query answers with are records, read from  *)
(* slots; the host's position is a word of 16 bits (gPTE_Save, gPTE_Query, *)
(* nPTEnergy_DataInfo).                                                    *)
THEOREM HistoryTypeCorrect == Spec => []TypeOK
<1>1. IInv => TypeOK
  BY DEF IInv
<1> QED
  BY <1>1, HistoryInv, PTL

(* A month saved since the base was last set stays in its slot, counted    *)
(* from the base the unit has or loads next, across saves, clears that     *)
(* overtake a save and power failures, in a clear included; only a record  *)
(* written over the header and then a power failure lose it.               *)
THEOREM SavedMonthIsKept == Spec => []SavedKept
<1>1. IInv => SavedKept
  BY DEF IInv
<1> QED
  BY <1>1, HistoryInv, PTL

(* gPTE_Save takes the record of every month whose 00:00 it saw, unless    *)
(* the power failed or the energy was cleared in that very minute.         *)
THEOREM EveryMonthIsSaved == Spec => []MonthSaved
<1>1. IInv => MonthSaved
  BY DEF IInv, MonthInv, MonthSaved
<1> QED
  BY <1>1, HistoryInv, PTL

(* gPTE_Query subtracts the records of exactly the two months it is asked, *)
(* both of the era of the registers unless a clear was interrupted.        *)
THEOREM QueryIsHonest == Spec => []QueryHonest
<1>1. IInv => QueryHonest
  <2> DEFINE At(t) == slot[nPTE_Addr(t, base)]
             Right(q, s, e) ==
               /\ q.to.time = e
               /\ q.from.time = (IF s = base THEN 0 ELSE s)
               /\ baseEra = era => /\ q.to.era = era
                                   /\ s # base => q.from.era = era
  <2> SUFFICES ASSUME IInv, pc # "off",
                      NEW e \in saved, NEW s \in saved \cup {base}, s < e
               PROVE  Right(Query(s, e), s, e)
    BY DEF QueryHonest
  <2>1. TypeOK /\ SaveInv /\ SavedKept
    BY DEF IInv
  <2>2. \A t \in saved : /\ t > base /\ t <= now /\ t \in Nat
                         /\ At(t).time = t
                         /\ baseEra = era => At(t).era = era
    <3>1. \A t \in saved : /\ t > base /\ At(t).time = t
                           /\ At(t).era \in baseEra .. era
      BY <2>1 DEF SavedKept
    <3>2. \A t \in saved : t <= now /\ t \in Nat
      BY <2>1, ClockNumbers DEF SaveInv
    <3>3. era \in Int
      BY <2>1 DEF TypeOK
    <3> HIDE DEF At
    <3>4. \A k : baseEra = era /\ k \in baseEra .. era => k = era
      BY <3>3
    <3> QED
      BY <3>1, <3>2, <3>4
  <2>3. now \in Nat /\ base \in Nat
    BY <2>1, ClockNumbers
  <2>4. CASE s = base
    <3>1. Query(s, e) = [from |-> Zero, to |-> At(e)]
      BY <2>2, <2>3, <2>4 DEF Query
    <3> HIDE DEF At
    <3> QED
      BY <2>2, <2>4, <3>1 DEF Zero
  <2>5. CASE s # base
    <3>1. s \in saved
      BY <2>5
    <3>2. /\ s \in Nat /\ s > base /\ s <= now
          /\ e \in Nat /\ e > base /\ e <= now
      BY <2>2, <3>1
    <3>3. ~(s <= base) /\ ~(e > now) /\ e > s /\ e > base
      BY <2>3, <3>2
    <3>4. Query(s, e) = [from |-> At(s), to |-> At(e)]
      BY <3>3 DEF Query
    <3> HIDE DEF At
    <3> QED
      BY <2>2, <2>5, <3>1, <3>4
  <2> QED
    BY <2>4, <2>5
<1> QED
  BY <1>1, HistoryInv, PTL

(* nPTEnergy_DataInfo flags an answer as the last one only when the host   *)
(* has every saved month of its session.                                   *)
THEOREM LastAnswerIsSound == Spec => []LastIsSound
<1>1. IInv => LastIsSound
  <2> SUFFICES ASSUME IInv, asked = None, first # 0, last = 1,
                      NEW t \in saved, t <= first
               PROVE  t \in sent \cup answer
    BY DEF LastIsSound
  <2>1. TypeOK /\ SavedKept /\ SessionInv
    BY DEF IInv
  <2>2. pc # "off" /\ SendIndex <= base + 1
    BY <2>1 DEF SessionInv
  <2>3. t > base /\ t \in Times
    BY <2>1, <2>2 DEF SavedKept, TypeOK
  <2>4. t \in Nat /\ base \in Nat /\ SendIndex \in Nat
    BY <2>1, <2>3, ClockNumbers, MonthOrder, CalendarAssumption DEF TypeOK
  <2>5. t > SendIndex \/ t = SendIndex
    BY <2>2, <2>3, <2>4
  <2>6. t > SendIndex => t \in sent
    BY <2>1, <2>3 DEF SessionInv
  <2>7. t = SendIndex => t \in sent \cup answer
    BY <2>1, <2>3 DEF SessionInv, Answering
  <2> QED
    BY <2>5, <2>6, <2>7
<1> QED
  BY <1>1, HistoryInv, PTL
=============================================================================
