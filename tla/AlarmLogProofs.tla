--------------------------- MODULE AlarmLogProofs ---------------------------
(***************************************************************************)
(* Proofs about AlarmLog for every ring size, byte width, set of events    *)
(* and content of an unused FRAM.                                          *)
(***************************************************************************)
EXTENDS AlarmLog, FiniteSetTheorems, TLAPS

(* Where AlmIndex stands in RAM and in FRAM at each point of AlmComp.  A   *)
(* clear may empty both copies at any point, so each clause allows for it. *)
Settled == {"idle", "write", "load", "store", "low", "lowFull", "high", "mark"}

IndexInv ==
  /\ pc \in Settled => fmRelate = [full |-> full, idx |-> idx]
  /\ pc \in {"idle", "write", "load", "store", "persist"} => idx <= PTAlm_Item
  /\ pc = "store" => tmp >= 1 /\ (tmp = idx + 1 \/ (idx = 0 /\ full = 0))
  /\ pc = "wrap" => /\ tmp >= 1
                    /\ idx \in {tmp, 0}
                    /\ tmp = fmRelate.idx + 1 \/ fmRelate = Empty
  /\ pc = "persist" => \/ idx = 0
                       \/ idx = fmRelate.idx + 1
                       \/ fmRelate = Empty

-----------------------------------------------------------------------------
(* Arithmetic of a two-byte write that stops between the bytes.            *)

(* A positive multiple of B is at least B.                                 *)
LEMMA PositiveMultiple ==
  ASSUME NEW B \in Nat \ {0}, NEW d \in Int, d >= 1
  PROVE  B * d >= B
<1>1. B * (d - 1) >= 0
  OBVIOUS
<1>2. B * d = (B * (d - 1)) + B
  OBVIOUS
<1> QED
  BY <1>1, <1>2

(* The low byte grows by at most one when the number does.                 *)
LEMMA LowByteOfSuccessor ==
  ASSUME NEW n \in Nat, NEW B \in Nat \ {0}
  PROVE  ((n + 1) % B) <= (n % B) + 1
<1> DEFINE q == n \div B
           p == (n + 1) \div B
           d == p - q
<1>1. q \in Int /\ p \in Int /\ d \in Int
  OBVIOUS
<1>2. n = (B * q) + (n % B) /\ (n % B) \in 0 .. (B - 1)
  OBVIOUS
<1>3. n + 1 = (B * p) + ((n + 1) % B) /\ ((n + 1) % B) \in 0 .. (B - 1)
  OBVIOUS
<1>4. (B * p) - (B * q) = B * d /\ B * d \in Int
  BY <1>1
<1>5. ((n + 1) % B) = (n % B) + 1 - (B * d)
  <2> HIDE DEF q, p, d
  <2> QED BY <1>1, <1>2, <1>3, <1>4
<1>6. d < 0 => B * (0 - d) >= B
  BY <1>1, PositiveMultiple
<1>7. d >= 0 => B * d >= 0
  BY <1>1
<1>8. B * (0 - d) = 0 - (B * d)
  BY <1>1
<1> HIDE DEF d
<1> QED
  BY <1>1, <1>2, <1>3, <1>4, <1>5, <1>6, <1>7, <1>8

(* AlmIndex as a power failure may leave it in FRAM: no larger than the    *)
(* larger of the old and the new value, for the writes AlmComp and         *)
(* Alm_RecordClear make.                                                   *)
LEMMA TornIdxBound ==
  ASSUME NEW old \in Nat, NEW val \in Nat,
         val = 0 \/ val = old + 1 \/ old = 0
  PROVE  /\ TornIdx(old, val) \in Nat
         /\ TornIdx(old, val) <= old \/ TornIdx(old, val) <= val
<1> DEFINE B == ByteBase
<1>1. B \in Nat \ {0}
  BY RingAssumption
<1>2. \A n \in Nat : (n % B) \in 0 .. n
  BY <1>1
<1>3. CASE val = 0
  BY <1>2, <1>3 DEF TornIdx
<1>4. CASE val = old + 1
  <2>1. (val % B) <= (old % B) + 1
    BY <1>1, <1>4, LowByteOfSuccessor
  <2> QED
    BY <1>2, <1>4, <2>1 DEF TornIdx
<1>5. CASE old = 0
  BY <1>2, <1>5 DEF TornIdx
<1> QED
  BY <1>3, <1>4, <1>5

(* The same for the whole pair.                                            *)
LEMMA TornRelatesBound ==
  ASSUME NEW old \in Relates, NEW val \in Relates,
         val.idx = 0 \/ val.idx = old.idx + 1 \/ old.idx = 0,
         NEW r \in TornRelates(old, val)
  PROVE  /\ r \in Relates
         /\ r.idx <= old.idx \/ r.idx <= val.idx
         /\ (r.full = old.full /\ r.idx = old.idx) \/ r.full = val.full
<1>1. old.idx \in Nat /\ val.idx \in Nat /\ PTAlm_Item \in Nat
  BY RingAssumption DEF Relates
<1>2. /\ TornIdx(old.idx, val.idx) \in Nat
      /\ TornIdx(old.idx, val.idx) <= old.idx \/ TornIdx(old.idx, val.idx) <= val.idx
  BY <1>1, TornIdxBound
<1> QED
  BY <1>1, <1>2 DEF TornRelates, Relates

-----------------------------------------------------------------------------
(* A search returns the position and the content of some slot.             *)
LEMMA SearchType ==
  ASSUME TypeOK, NEW S \in SUBSET (0 .. PTAlm_Item), Hit(S) \/ Miss(S)
  PROVE  addr' \in 0 .. PTAlm_Item /\ rec' \in Records
  BY DEF Hit, Miss, Matches, TypeOK

(* After a reset the RAM has its types again.                              *)
LEMMA RamLostType ==
  ASSUME RamLost
  PROVE  /\ full' = 0 /\ idx' = 0
         /\ rec' \in Records
         /\ LAlmState' \in [Events -> AlmTypes]
         /\ ev' \in Events \cup {NoEvent} /\ new' \in AlmTypes
         /\ addr' = 0 /\ tmp' = 0
  BY EventAssumption DEF RamLost, Blank, Records, Events, AlmTypes, Flags

-----------------------------------------------------------------------------
(* Every step keeps the types and the index invariant.                     *)
LEMMA IndexStep ==
  ASSUME TypeOK, IndexInv, [Next]_vars
  PROVE  TypeOK' /\ IndexInv'
<1> USE RingAssumption DEF Slots, Relates
<1>1. CASE BootLoad
  BY <1>1 DEF BootLoad, TypeOK, IndexInv, Settled, fram, args, ghosts
<1>2. CASE BootSetFlag
  BY <1>2 DEF BootSetFlag, TypeOK, IndexInv, Settled, fram, args, ghosts
<1>3. CASE BootDefaults
  BY <1>3 DEF BootDefaults, TypeOK, IndexInv, Settled, Empty, fram, args, ghosts
<1>4. ASSUME NEW e \in Events, NEW s \in AlarmStates(e), DetectAlarm(e, s)
      PROVE  TypeOK' /\ IndexInv'
  <2>1. s \in AlmTypes /\ new' \in AlmTypes
    BY <1>4 DEF DetectAlarm, ReadBack, WindowTypes, AlarmStates, AlmTypes
  <2>2. rec' \in Records
    BY <1>4, <2>1 DEF DetectAlarm, TypeOK, Records, Flags
  <2> QED
    BY <1>4, <2>1, <2>2 DEF DetectAlarm, TypeOK, IndexInv, Settled, fram, args, ghosts
<1>5. ASSUME NEW e \in Events, DetectNormal(e)
      PROVE  TypeOK' /\ IndexInv'
  BY <1>5 DEF DetectNormal, TypeOK, IndexInv, Settled, AlmTypes, fram, args, ghosts
<1>6. CASE GenWrite
  BY <1>6 DEF GenWrite, TypeOK, IndexInv, Settled, fram, args, ghosts
<1>7. CASE GenLoad
  BY <1>7 DEF GenLoad, TypeOK, IndexInv, Settled, fram, args, ghosts
<1>8. CASE GenStore
  BY <1>8 DEF GenStore, TypeOK, IndexInv, Settled, Empty, fram, args, ghosts
<1>9. CASE GenWrap
  BY <1>9 DEF GenWrap, TypeOK, IndexInv, Settled, Empty, fram, args, ghosts
<1>10. CASE GenZero
  BY <1>10 DEF GenZero, TypeOK, IndexInv, Settled, fram, args, ghosts
<1>11. CASE GenPersist
  <2>1. LAlmState' \in [Events -> AlmTypes]
    BY <1>11 DEF GenPersist, TypeOK
  <2>2. fmRelate' \in Relates
    BY <1>11 DEF GenPersist, TypeOK, IndexInv
  <2> QED
    BY <1>11, <2>1, <2>2 DEF GenPersist, TypeOK, IndexInv, Settled, fram, args, ghosts
<1>12. CASE ScanLow
  <2>1. addr' \in 0 .. PTAlm_Item /\ rec' \in Records
    BY <1>12, SearchType DEF ScanLow, Below, TypeOK
  <2> QED
    BY <1>12, <2>1 DEF ScanLow, AlarmEnded, AlmTypes, TypeOK, IndexInv, Settled, fram, args, ghosts
<1>13. CASE ScanHigh
  <2>1. addr' \in 0 .. PTAlm_Item /\ rec' \in Records
    BY <1>13, SearchType DEF ScanHigh, NotBelow, TypeOK
  <2> QED
    BY <1>13, <2>1 DEF ScanHigh, AlarmEnded, AlmTypes, TypeOK, IndexInv, Settled, fram, args, ghosts
<1>14. CASE TermMark
  <2>1. slot' \in [0 .. PTAlm_Item -> Records]
    BY <1>14 DEF TermMark, Closed, TypeOK, Records, Flags
  <2>2. LAlmState' \in [Events -> AlmTypes]
    BY <1>14 DEF TermMark, AlarmEnded, TypeOK
  <2> QED
    BY <1>14, <2>1, <2>2 DEF TermMark, AlarmEnded, AlmTypes, TypeOK, IndexInv, Settled, fram, args, ghosts
<1>15. CASE RecordClear
  BY <1>15 DEF RecordClear, TypeOK, IndexInv, Settled, Empty, Running, fram, args, ghosts
<1>16. CASE PowerFail
  <2>1. slot' \in [0 .. PTAlm_Item -> Records]
    <3>1. \A r \in TornRecords(slot[addr], rec) : r \in Records
      BY DEF TornRecords, TypeOK, Records
    <3>2. CASE pc = "write"
      BY <1>16, <3>1, <3>2 DEF PowerFail, TypeOK
    <3> QED
      BY <1>16, <3>2 DEF PowerFail, TypeOK
  <2>2. fmRelate' \in Relates
    <3>1. CASE pc = "persist"
      BY <1>16, <3>1, TornRelatesBound DEF PowerFail, TypeOK, IndexInv, Empty
    <3>2. CASE pc = "defaults"
      BY <1>16, <3>2, TornRelatesBound DEF PowerFail, TypeOK, Empty
    <3> QED
      BY <1>16, <3>1, <3>2 DEF PowerFail, TypeOK
  <2> QED
    BY <1>16, <2>1, <2>2, RamLostType
    DEF PowerFail, TypeOK, IndexInv, Settled, RamLost, fram, args, ghosts
<1>17. CASE PowerFailInClear
  <2>1. fmRelate' \in Relates
    BY <1>17, TornRelatesBound DEF PowerFailInClear, TypeOK, Empty
  <2> QED
    BY <1>17, <2>1, RamLostType
    DEF PowerFailInClear, TypeOK, IndexInv, Settled, RamLost, fram, args, ghosts
<1>18. CASE UNCHANGED vars
  BY <1>18 DEF vars, TypeOK, IndexInv
<1> QED
  BY <1>1, <1>2, <1>3, <1>4, <1>5, <1>6, <1>7, <1>8, <1>9, <1>10, <1>11, <1>12,
     <1>13, <1>14, <1>15, <1>16, <1>17, <1>18
  DEF Next, Boot, Generate, Terminate

(* The initial states have the types.                                     *)
LEMMA InitTyped ==
  ASSUME Init
  PROVE  TypeOK /\ IndexInv
<1>1. PICK tail \in FactoryTails :
        slot = [i \in 0 .. PTAlm_Item |-> IF i = PTAlm_Item THEN tail ELSE Blank]
  BY DEF Init
<1>2. Blank \in Records /\ tail \in Records
  BY FactoryAssumption, EventAssumption DEF Blank, Records, Events, AlmTypes, Flags
<1>3. slot \in [0 .. PTAlm_Item -> Records]
  BY <1>1, <1>2
<1>4. LAlmState \in [Events -> AlmTypes]
  BY DEF Init, AlmTypes
<1>5. rec \in Records /\ fmRelate \in Relates /\ new \in AlmTypes
  BY <1>2, FactoryAssumption DEF Init, AlmTypes
<1>6. TypeOK
  <2>1. /\ fmInit \in BOOLEAN /\ cut \in BOOLEAN
        /\ fresh \subseteq 0 .. PTAlm_Item /\ known \subseteq Events
    BY DEF Init
  <2>2. /\ full \in {0, 1} /\ idx \in 0 .. PTAlm_Item + 1
        /\ addr \in 0 .. PTAlm_Item /\ tmp \in 0 .. PTAlm_Item + 1
        /\ pc = "off" /\ ev = NoEvent
    BY RingAssumption DEF Init
  <2> QED
    BY <1>3, <1>4, <1>5, <2>1, <2>2 DEF TypeOK
<1>7. IndexInv
  BY RingAssumption DEF Init, IndexInv, Settled
<1> QED
  BY <1>6, <1>7

(* The log's variables have their types whatever an unused FRAM holds.     *)
THEOREM TypeCorrect == Spec => [](TypeOK /\ IndexInv)
<1>1. Init => TypeOK /\ IndexInv
  BY InitTyped
<1>2. TypeOK /\ IndexInv /\ [Next]_vars => (TypeOK /\ IndexInv)'
  BY IndexStep
<1> QED
  BY <1>1, <1>2, PTL DEF Spec

(* Between two operations, and up to the store of AlmIndex, the FRAM holds *)
(* the pair the RAM holds (Alm_Generate, Alm_RecordClear, AlmRelate_Init). *)
THEOREM DurablePair == Spec => []Durable
<1>1. IndexInv => Durable
  BY DEF IndexInv, Settled, Durable
<1> QED
  BY <1>1, TypeCorrect, PTL

-----------------------------------------------------------------------------
(* No reader of the log gets a slot nobody wrote.  The ring is written in  *)
(* order, so at each point of Alm_Generate the slots up to the addressed   *)
(* one are written; AlmIndex never runs ahead of the addressed slot, also  *)
(* when a clear sent it back to 0 in between.                              *)
RingInv ==
  /\ RingWritten
  /\ pc \notin {"wrap", "zero"} => idx \in Slots
  /\ fmRelate.idx \in Slots
  /\ pc \in {"write", "load", "store", "wrap"} =>
       /\ addr \in Slots
       /\ \A i \in Slots : i < addr => Written(i)
  /\ pc \in {"write", "load"} => idx <= addr
  /\ pc \in {"load", "store", "wrap"} => Written(addr)
  /\ pc \in {"store", "wrap"} => tmp <= addr + 1
  /\ pc = "zero" => \A i \in Slots : Written(i)
  /\ pc = "write" => rec.flag = "Generate"

(* A torn pair shows no slot that neither the old nor the new pair shows.  *)
LEMMA TornVisible ==
  ASSUME NEW old \in Relates, NEW val \in Relates,
         val.idx = 0 \/ val.idx = old.idx + 1 \/ old.idx = 0,
         NEW r \in TornRelates(old, val)
  PROVE  /\ Visible(r.full, r.idx) \subseteq
              Visible(old.full, old.idx) \cup Visible(val.full, val.idx)
         /\ old.idx \in Slots /\ val.idx \in Slots => r.idx \in Slots
<1>1. /\ r \in Relates
      /\ r.idx <= old.idx \/ r.idx <= val.idx
      /\ (r.full = old.full /\ r.idx = old.idx) \/ r.full = val.full
  BY TornRelatesBound
<1>2. PTAlm_Item \in Nat /\ old.idx \in Nat /\ val.idx \in Nat /\ r.idx \in Nat
  BY <1>1, RingAssumption DEF Relates
<1> QED
  BY <1>1, <1>2 DEF Visible, Slots

LEMMA RingStep ==
  ASSUME TypeOK, IndexInv, RingInv, [Next]_vars
  PROVE  RingInv'
<1> USE RingAssumption DEF Slots, Relates, RingInv, RingWritten, Visible
<1>1. CASE BootLoad
  BY <1>1 DEF BootLoad, TypeOK, Written, fram, args, ghosts
<1>2. CASE BootSetFlag
  BY <1>2 DEF BootSetFlag, TypeOK, Written, fram, args, ghosts
<1>3. CASE BootDefaults
  BY <1>3 DEF BootDefaults, TypeOK, Written, Empty, fram, args, ghosts
<1>4. ASSUME NEW e \in Events, NEW s \in AlarmStates(e), DetectAlarm(e, s)
      PROVE  RingInv'
  BY <1>4 DEF DetectAlarm, TypeOK, Written, fram, args, ghosts
<1>5. ASSUME NEW e \in Events, DetectNormal(e)
      PROVE  RingInv'
  BY <1>5 DEF DetectNormal, TypeOK, Written, fram, args, ghosts
<1>6. CASE GenWrite
  <2>1. \A i \in 0 .. PTAlm_Item : Written(i) => Written(i)'
    BY <1>6 DEF GenWrite, TypeOK, Written
  <2>2. Written(addr)'
    BY <1>6 DEF GenWrite, TypeOK, Written
  <2> QED
    BY <1>6, <2>1, <2>2 DEF GenWrite, TypeOK, fram, args, ghosts
<1>7. CASE GenLoad
  BY <1>7 DEF GenLoad, TypeOK, Written, fram, args, ghosts
<1>8. CASE GenStore
  BY <1>8 DEF GenStore, TypeOK, Written, fram, args, ghosts
<1>9. CASE GenWrap
  BY <1>9 DEF GenWrap, TypeOK, IndexInv, Written, fram, args, ghosts
<1>10. CASE GenZero
  BY <1>10 DEF GenZero, TypeOK, Written, fram, args, ghosts
<1>11. CASE GenPersist
  BY <1>11 DEF GenPersist, TypeOK, Written, fram, args, ghosts
<1>12. CASE ScanLow
  BY <1>12 DEF ScanLow, AlarmEnded, TypeOK, Written, fram, args, ghosts
<1>13. CASE ScanHigh
  BY <1>13 DEF ScanHigh, AlarmEnded, TypeOK, Written, fram, args, ghosts
<1>14. CASE TermMark
  <2>1. \A i \in 0 .. PTAlm_Item : Written(i) => Written(i)'
    BY <1>14 DEF TermMark, Closed, TypeOK, Written
  <2> QED
    BY <1>14, <2>1 DEF TermMark, AlarmEnded, TypeOK, fram, args, ghosts
<1>15. CASE RecordClear
  BY <1>15 DEF RecordClear, TypeOK, Empty, Running, Written, fram, args, ghosts
<1>16. CASE PowerFail
  <2>1. \A i \in 0 .. PTAlm_Item : Written(i) => Written(i)'
    <3>1. CASE pc = "write"
      <4>1. \A r \in TornRecords(slot[addr], rec) :
              slot[addr].flag # "Blank" => r.flag # "Blank"
        BY <3>1 DEF TornRecords
      <4> QED
        BY <1>16, <3>1, <4>1 DEF PowerFail, TypeOK, Written
    <3> QED
      BY <1>16, <3>1 DEF PowerFail, Written
  <2>2. /\ Visible(fmRelate'.full, fmRelate'.idx) \subseteq
             Visible(fmRelate.full, fmRelate.idx) \cup Visible(full, idx)
        /\ fmRelate'.idx \in Slots
    <3>1. CASE pc = "persist"
      BY <1>16, <3>1, TornVisible DEF PowerFail, TypeOK, IndexInv, Empty
    <3>2. CASE pc = "defaults"
      BY <1>16, <3>2, TornVisible DEF PowerFail, TypeOK, Empty
    <3> QED
      BY <1>16, <3>1, <3>2 DEF PowerFail, TypeOK
  <2> QED
    BY <1>16, <2>1, <2>2 DEF PowerFail, RamLost, TypeOK
<1>17. CASE PowerFailInClear
  <2>1. /\ Visible(fmRelate'.full, fmRelate'.idx) \subseteq
             Visible(fmRelate.full, fmRelate.idx)
        /\ fmRelate'.idx \in Slots
    BY <1>17, TornVisible DEF PowerFailInClear, TypeOK, Empty
  <2> QED
    BY <1>17, <2>1 DEF PowerFailInClear, RamLost, TypeOK, Written
<1>18. CASE UNCHANGED vars
  BY <1>18 DEF vars, Written
<1> QED
  BY <1>1, <1>2, <1>3, <1>4, <1>5, <1>6, <1>7, <1>8, <1>9, <1>10, <1>11, <1>12,
     <1>13, <1>14, <1>15, <1>16, <1>17, <1>18
  DEF Next, Boot, Generate, Terminate

LEMMA RingHolds == FactoryRelates = {Empty} => (Spec => []RingInv)
<1> SUFFICES ASSUME FactoryRelates = {Empty}
             PROVE  Spec => []RingInv
  OBVIOUS
<1>1. Init => RingInv
  BY RingAssumption DEF Init, RingInv, RingWritten, Visible, Slots, Empty
<1>2. TypeOK /\ IndexInv /\ RingInv /\ [Next]_vars => RingInv'
  BY RingStep
<1> QED
  BY <1>1, <1>2, TypeCorrect, PTL DEF Spec

(* Visible slots are written slots, when the FRAM of a new board is zeroed *)
(* at the relate bytes (AlmRelate_Init, Alm_Generate, Alm_RecordClear).    *)
THEOREM RingNeverExposesBlank ==
  FactoryRelates = {Empty} => (Spec => []RingWritten)
<1>1. RingInv => RingWritten
  BY DEF RingInv
<1> QED
  BY <1>1, RingHolds, PTL

(* On the same boards Alm_Generate writes no byte behind the ring.         *)
THEOREM GenerateStaysInRing ==
  FactoryRelates = {Empty} => (Spec => []WriteInRing)
<1>1. RingInv => WriteInRing
  BY DEF RingInv, WriteInRing
<1> QED
  BY <1>1, RingHolds, PTL

-----------------------------------------------------------------------------
(* What a clear removed stays removed.  As long as no clear landed inside  *)
(* Alm_Generate, AlmIndex is the addressed slot until it is stored, and    *)
(* that slot has been written since the clear.                             *)
CutInv ==
  /\ ClearedStaysCleared
  /\ ~cut =>
       /\ pc \in {"write", "load", "store"} => addr = idx
       /\ pc \in {"load", "store", "wrap"} => addr \in fresh
       /\ pc \in {"store", "wrap"} => tmp = addr + 1
       /\ pc = "wrap" => idx = tmp

LEMMA CutStep ==
  ASSUME TypeOK, IndexInv, RingInv, CutInv, [Next]_vars
  PROVE  CutInv'
<1> USE RingAssumption DEF Slots, Relates, CutInv, ClearedStaysCleared, Visible
<1>1. CASE BootLoad
  BY <1>1 DEF BootLoad, TypeOK, fram, args, ghosts
<1>2. CASE BootSetFlag
  BY <1>2 DEF BootSetFlag, TypeOK, fram, args, ghosts
<1>3. CASE BootDefaults
  BY <1>3 DEF BootDefaults, TypeOK, Empty, fram, args, ghosts
<1>4. ASSUME NEW e \in Events, NEW s \in AlarmStates(e), DetectAlarm(e, s)
      PROVE  CutInv'
  BY <1>4 DEF DetectAlarm, TypeOK, fram, args, ghosts
<1>5. ASSUME NEW e \in Events, DetectNormal(e)
      PROVE  CutInv'
  BY <1>5 DEF DetectNormal, TypeOK, fram, args, ghosts
<1>6. CASE GenWrite
  BY <1>6 DEF GenWrite, TypeOK, fram, args, ghosts
<1>7. CASE GenLoad
  BY <1>7 DEF GenLoad, TypeOK, fram, args, ghosts
<1>8. CASE GenStore
  BY <1>8 DEF GenStore, TypeOK, fram, args, ghosts
<1>9. CASE GenWrap
  BY <1>9 DEF GenWrap, TypeOK, fram, args, ghosts
<1>10. CASE GenZero
  BY <1>10 DEF GenZero, TypeOK, fram, args, ghosts
<1>11. CASE GenPersist
  BY <1>11 DEF GenPersist, TypeOK, fram, args, ghosts
<1>12. CASE ScanLow
  BY <1>12 DEF ScanLow, AlarmEnded, TypeOK, fram, args, ghosts
<1>13. CASE ScanHigh
  BY <1>13 DEF ScanHigh, AlarmEnded, TypeOK, fram, args, ghosts
<1>14. CASE TermMark
  BY <1>14 DEF TermMark, AlarmEnded, TypeOK, fram, args, ghosts
<1>15. CASE RecordClear
  <2>1. ~cut' => pc' \notin {"write", "load", "store", "wrap"}
    BY <1>15, Zenon DEF RecordClear
  <2>2. /\ Visible(full, idx)' = {}
        /\ Visible(fmRelate.full, fmRelate.idx)' = {}
    BY <1>15 DEF RecordClear, Empty
  <2> QED
    BY <2>1, <2>2
<1>16. CASE PowerFail
  <2>1. Visible(fmRelate'.full, fmRelate'.idx) \subseteq
          Visible(fmRelate.full, fmRelate.idx) \cup Visible(full, idx)
    <3>1. CASE pc = "persist"
      BY <1>16, <3>1, TornVisible DEF PowerFail, TypeOK, IndexInv, Empty
    <3>2. CASE pc = "defaults"
      BY <1>16, <3>2, TornVisible DEF PowerFail, TypeOK, Empty
    <3> QED
      BY <1>16, <3>1, <3>2 DEF PowerFail, TypeOK
  <2> QED
    BY <1>16, <2>1 DEF PowerFail, RamLost, TypeOK, ghosts
<1>17. CASE PowerFailInClear
  BY <1>17 DEF PowerFailInClear, RamLost
<1>18. CASE UNCHANGED vars
  BY <1>18 DEF vars
<1> QED
  BY <1>1, <1>2, <1>3, <1>4, <1>5, <1>6, <1>7, <1>8, <1>9, <1>10, <1>11, <1>12,
     <1>13, <1>14, <1>15, <1>16, <1>17, <1>18
  DEF Next, Boot, Generate, Terminate

LEMMA CutHolds == FactoryRelates = {Empty} => (Spec => []CutInv)
<1> SUFFICES ASSUME FactoryRelates = {Empty}
             PROVE  Spec => []CutInv
  OBVIOUS
<1>1. Init => CutInv
  BY RingAssumption
  DEF Init, CutInv, ClearedStaysCleared, Visible, Slots, Empty
<1>2. TypeOK /\ IndexInv /\ RingInv /\ CutInv /\ [Next]_vars => CutInv'
  BY CutStep
<1> QED
  BY <1>1, <1>2, TypeCorrect, RingHolds, PTL DEF Spec

(* Alm_RecordClear removes every older record for good, in RAM and across  *)
(* power failures, unless it interrupts Alm_Generate or is interrupted.    *)
THEOREM ClearIsPermanent ==
  FactoryRelates = {Empty} => (Spec => []ClearedStaysCleared)
<1>1. CutInv => ClearedStaysCleared
  BY DEF CutInv
<1> QED
  BY <1>1, CutHolds, PTL

-----------------------------------------------------------------------------
(* What the log says of an alarm.  A reader walks back from AlmIndex: i is *)
(* met no later than j when it is above j on the same side of AlmIndex, or *)
(* below AlmIndex with j not below it.                                     *)
Met(i, j) == IF i < idx <=> j < idx THEN i >= j ELSE i < idx
IsNewest(e, i) ==
  i \in RecordsOf(e) /\ \A j \in RecordsOf(e) : Met(i, j)

(* The walk meets the slots in the order of their age.                     *)
LEMMA AgeOrder ==
  ASSUME idx \in 0 .. PTAlm_Item, NEW i \in Slots, NEW j \in Slots
  PROVE  /\ Age(i) \in 0 .. PTAlm_Item
         /\ Age(i) <= Age(j) <=> Met(i, j)
         /\ Met(i, j) /\ Met(j, i) => i = j
<1> DEFINE N == PTAlm_Item
<1>1. N \in Nat \ {0}
  BY RingAssumption
<1>2. ASSUME NEW k \in Slots, k < idx
      PROVE  Age(k) = idx - 1 - k
  BY <1>1, <1>2 DEF Age, Slots
<1>3. ASSUME NEW k \in Slots, ~(k < idx)
      PROVE  Age(k) = idx - 1 - k + N
  BY <1>1, <1>3 DEF Age, Slots
<1> QED
  BY <1>1, <1>2, <1>3 DEF Slots, Met

(* A set of naturals with an upper bound has a least element.              *)
LEMMA LeastElement ==
  ASSUME NEW n \in Nat, NEW T \in SUBSET (0 .. n), T # {}
  PROVE  \E m \in T : \A k \in T : m <= k
<1> DEFINE D == {0 .. k : k \in T}
           R == StrictSubsetOrdering(0 .. n)
<1>1. ASSUME NEW k \in T
      PROVE  0 .. k \in FiniteSubsetsOf(0 .. n)
  <2>1. k \in Int /\ 0 .. k \subseteq 0 .. n
    OBVIOUS
  <2>2. IsFiniteSet(0 .. k)
    BY <2>1, FS_Interval
  <2> QED
    BY <2>1, <2>2 DEF FiniteSubsetsOf
<1>2. IsWellFoundedOn(R, FiniteSubsetsOf(0 .. n))
  BY FS_StrictSubsetOrderingWellFounded
<1>3. D # {}
  OBVIOUS
<1>4. PICK X \in D : \A Y \in D : <<Y, X>> \notin R
  <2>1. D \subseteq FiniteSubsetsOf(0 .. n)
    BY <1>1
  <2> HIDE DEF D, R
  <2> QED BY <1>2, <1>3, <2>1, WFMin
<1>5. PICK m \in T : X = 0 .. m
  OBVIOUS
<1>6. ASSUME NEW k \in T, k < m
      PROVE  FALSE
  <2>1. 0 .. k \subseteq 0 .. m /\ 0 .. k # 0 .. m
    <3>1. m \in 0 .. m /\ m \notin 0 .. k
      BY <1>6
    <3> QED
      BY <1>6, <3>1
  <2>2. <<0 .. k, X>> \in R
    BY <1>5, <2>1 DEF StrictSubsetOrdering
  <2> QED
    BY <1>4, <2>2
<1> QED
  BY <1>6

(* Newest is the one newest record.                                        *)
LEMMA NewestIsNewest ==
  ASSUME idx \in 0 .. PTAlm_Item, NEW e
  PROVE  /\ \A i \in Slots : IsNewest(e, i) => i = Newest(e)
         /\ RecordsOf(e) # {} => Newest(e) \in Slots /\ IsNewest(e, Newest(e))
<1>1. RecordsOf(e) \subseteq Slots
  BY DEF RecordsOf, Visible
<1> DEFINE First(i) == \A j \in RecordsOf(e) : Age(i) <= Age(j)
<1>2. \A i \in RecordsOf(e) : First(i) <=> IsNewest(e, i)
  BY <1>1, AgeOrder DEF IsNewest
<1>3. ASSUME NEW i \in RecordsOf(e), IsNewest(e, i)
      PROVE  i = Newest(e)
  <2>1. Newest(e) \in RecordsOf(e) /\ First(Newest(e))
    BY <1>2, <1>3 DEF Newest
  <2>2. IsNewest(e, Newest(e))
    BY <1>2, <2>1
  <2>3. Met(i, Newest(e)) /\ Met(Newest(e), i)
    BY <1>3, <2>1, <2>2 DEF IsNewest
  <2> QED
    BY <1>1, <2>1, <2>3, AgeOrder
<1>4. ASSUME RecordsOf(e) # {}
      PROVE  Newest(e) \in Slots /\ IsNewest(e, Newest(e))
  <2> DEFINE T == {Age(i) : i \in RecordsOf(e)}
  <2>1. T \in SUBSET (0 .. PTAlm_Item) /\ T # {}
    BY <1>1, <1>4, AgeOrder
  <2>2. PICK m \in T : \A k \in T : m <= k
    <3> HIDE DEF T
    <3> QED BY <2>1, RingAssumption, LeastElement
  <2>3. PICK i \in RecordsOf(e) : m = Age(i)
    OBVIOUS
  <2>4. First(i)
    BY <2>2, <2>3
  <2>5. Newest(e) \in RecordsOf(e) /\ First(Newest(e))
    BY <2>3, <2>4 DEF Newest
  <2> QED
    BY <1>1, <1>2, <2>5
<1> QED
  BY <1>3, <1>4 DEF IsNewest

-----------------------------------------------------------------------------
(* The search of Alm_Terminate.  With FullFlag clear the records are below *)
(* AlmIndex; with it set the upper part of the ring is older than all of   *)
(* the lower part, so the first hit is the newest record.  A clear in the  *)
(* middle leaves no record at all; behind the ring lies slot PTAlm_Item,   *)
(* which no reader shows.                                                  *)
NoRecords == full = 0 /\ idx = 0
Ending == {"low", "lowFull", "high", "mark"}

SearchInv ==
  /\ pc = "write" => rec.flag = "Generate"
  /\ pc \in Ending => idx <= PTAlm_Item
  /\ pc = "low" => full = 0
  /\ pc \in {"lowFull", "high"} => full = 1 \/ NoRecords
  /\ pc = "high" => Matches(Below) = {}
  /\ pc = "mark" => /\ slot[addr].ev = ev
                    /\ \/ addr = PTAlm_Item /\ full = 1
                       \/ NoRecords
                       \/ IsNewest(ev, addr)

LEMMA SearchStep ==
  ASSUME TypeOK, IndexInv, SearchInv, [Next]_vars
  PROVE  SearchInv'
<1> USE RingAssumption
<1>1. CASE \E e \in Events : \E s \in AlarmStates(e) : DetectAlarm(e, s)
  <2>1. pc' = "write" /\ rec'.flag = "Generate"
    BY <1>1 DEF DetectAlarm
  <2> QED
    BY <2>1 DEF SearchInv, Ending
<1>2. CASE \E e \in Events : DetectNormal(e)
  <2>1. /\ pc = "idle"
        /\ idx' = idx /\ full' = full
        /\ pc' = IF full = 1 THEN "lowFull" ELSE "low"
    BY <1>2 DEF DetectNormal
  <2>2. idx \in Int /\ idx <= PTAlm_Item /\ full \in {0, 1}
    BY <2>1 DEF TypeOK, IndexInv
  <2> QED
    BY <2>1, <2>2 DEF SearchInv, Ending
<1>3. CASE ScanLow
  <2>1. /\ pc \in {"low", "lowFull"}
        /\ UNCHANGED <<slot, full, idx, ev>>
    BY <1>3 DEF ScanLow, fram, args
  <2>2. /\ idx \in 0 .. PTAlm_Item /\ full \in {0, 1}
        /\ pc = "low" => full = 0
        /\ pc = "lowFull" => full = 1 \/ NoRecords
    BY <2>1 DEF SearchInv, Ending, TypeOK
  <2>3. CASE Hit(Below) /\ pc' = "mark"
    <3>1. /\ addr' \in Below /\ slot[addr'].ev = ev
          /\ \A j \in Below : slot[j].ev = ev => j <= addr'
      BY <2>3 DEF Hit, Matches
    <3>2. addr' \in Visible(full, idx)
      BY <3>1 DEF Visible, Below
    <3>3. IsNewest(ev, addr')
      <4>1. addr' \in RecordsOf(ev)
        BY <3>1, <3>2 DEF RecordsOf
      <4>2. ASSUME NEW j \in RecordsOf(ev)
            PROVE  Met(addr', j)
        <5>1. j \in Slots /\ slot[j].ev = ev
          BY DEF RecordsOf, Visible
        <5>2. j < idx => j <= addr'
          BY <3>1, <5>1 DEF Below
        <5> QED
          BY <2>2, <3>1, <5>1, <5>2 DEF Met, Below, Slots
      <4> QED
        BY <4>1, <4>2 DEF IsNewest
    <3>4. IsNewest(ev, addr)'
      BY <2>1, <3>3 DEF IsNewest, RecordsOf, Met
    <3>5. slot'[addr'].ev = ev' /\ idx' <= PTAlm_Item
      BY <2>1, <2>2, <3>1
    <3> QED
      BY <2>3, <3>4, <3>5 DEF SearchInv, Ending
  <2>4. CASE Miss(Below) /\ pc = "lowFull" /\ pc' = "high"
    <3>1. Matches(Below)' = {}
      BY <2>1, <2>4 DEF Miss, Matches, Below
    <3>2. full' = 1 \/ NoRecords'
      BY <2>1, <2>2, <2>4 DEF NoRecords
    <3>3. idx' <= PTAlm_Item
      BY <2>1, <2>2
    <3> QED
      BY <2>4, <3>1, <3>2, <3>3 DEF SearchInv, Ending
  <2>5. CASE pc' = "idle"
    BY <2>5 DEF SearchInv, Ending
  <2> QED
    BY <1>3, <2>3, <2>4, <2>5 DEF ScanLow, AlarmEnded
<1>4. CASE ScanHigh
  <2>1. /\ pc = "high"
        /\ UNCHANGED <<slot, full, idx, ev>>
    BY <1>4 DEF ScanHigh, fram, args
  <2>2. /\ idx \in 0 .. PTAlm_Item
        /\ full = 1 \/ NoRecords
        /\ Matches(Below) = {}
    BY <2>1 DEF SearchInv, Ending, TypeOK
  <2>3. CASE Hit(NotBelow) /\ pc' = "mark"
    <3>1. /\ addr' \in NotBelow /\ slot[addr'].ev = ev
          /\ \A j \in NotBelow : slot[j].ev = ev => j <= addr'
      BY <2>3 DEF Hit, Matches
    <3>2. ASSUME addr' # PTAlm_Item, full = 1
          PROVE  IsNewest(ev, addr')
      <4>1. addr' \in Slots
        BY <2>2, <3>1, <3>2 DEF NotBelow, Slots
      <4>2. addr' \in RecordsOf(ev)
        BY <3>1, <3>2, <4>1 DEF RecordsOf, Visible
      <4>3. ASSUME NEW j \in RecordsOf(ev)
            PROVE  Met(addr', j)
        <5>1. j \in Slots /\ slot[j].ev = ev
          BY DEF RecordsOf, Visible
        <5>2. ~(j < idx)
          BY <2>2, <5>1 DEF Matches, Below
        <5>3. j \in NotBelow
          BY <2>2, <5>1, <5>2 DEF NotBelow, Slots
        <5>4. j <= addr'
          BY <3>1, <5>1, <5>3
        <5> QED
          BY <2>2, <3>1, <5>1, <5>2, <5>4, <4>1 DEF Met, NotBelow, Slots
      <4> QED
        BY <4>2, <4>3 DEF IsNewest
    <3>3. addr' # PTAlm_Item /\ full' = 1 => IsNewest(ev, addr)'
      BY <2>1, <3>2 DEF IsNewest, RecordsOf, Met
    <3>4. slot'[addr'].ev = ev' /\ idx' <= PTAlm_Item
      BY <2>1, <2>2, <3>1
    <3>5. full' = 1 \/ NoRecords'
      BY <2>1, <2>2 DEF NoRecords
    <3> QED
      BY <2>3, <3>3, <3>4, <3>5 DEF SearchInv, Ending
  <2>4. CASE pc' = "idle"
    BY <2>4 DEF SearchInv, Ending
  <2> QED
    BY <1>4, <2>3, <2>4 DEF ScanHigh, AlarmEnded
<1>5. CASE RecordClear
  <2>1. /\ NoRecords' /\ idx' = 0 /\ full' = 0
        /\ UNCHANGED <<slot, rec, pc, ev, addr>>
    BY <1>5 DEF RecordClear, NoRecords, args
  <2>2. Matches(Below)' = {}
    BY <2>1 DEF Matches, Below, Slots
  <2> QED
    BY <2>1, <2>2 DEF SearchInv
<1>6. CASE UNCHANGED vars
  BY <1>6 DEF vars, SearchInv, Matches, Below, NoRecords, IsNewest, RecordsOf, Met
<1>7. CASE Boot \/ Generate \/ TermMark \/ PowerFail \/ PowerFailInClear
  <2>1. pc' \notin Ending \cup {"write"}
    BY <1>7 DEF Boot, BootLoad, BootSetFlag, BootDefaults, Generate, GenWrite,
       GenLoad, GenStore, GenWrap, GenZero, GenPersist, TermMark, AlarmEnded,
       PowerFail, PowerFailInClear, RamLost, Ending
  <2> QED
    BY <2>1 DEF SearchInv, Ending
<1> QED
  BY <1>1, <1>2, <1>3, <1>4, <1>5, <1>6, <1>7 DEF Next, Terminate

(* A step that turns a flag into Terminate is the mark of Alm_Terminate.   *)
LEMMA OnlyMarkCloses ==
  ASSUME TypeOK, SearchInv, Next, NEW i \in 0 .. PTAlm_Item,
         slot[i].flag # "Terminate", slot'[i].flag = "Terminate"
  PROVE  TermMark /\ i = addr
<1>1. CASE GenWrite
  <2>1. pc = "write" /\ slot' = [slot EXCEPT ![addr] = rec]
    BY <1>1 DEF GenWrite
  <2> QED
    BY <2>1 DEF SearchInv, TypeOK
<1>2. CASE TermMark
  BY <1>2 DEF TermMark, TypeOK
<1>3. CASE PowerFail
  <2>1. CASE pc = "write"
    <3>1. \A r \in TornRecords(slot[addr], rec) :
            r.flag \in {slot[addr].flag, "Generate"}
      BY <2>1 DEF TornRecords, SearchInv
    <3>2. PICK r \in TornRecords(slot[addr], rec) :
            slot' = [slot EXCEPT ![addr] = r]
      BY <1>3, <2>1 DEF PowerFail
    <3> QED
      BY <3>1, <3>2 DEF TypeOK
  <2> QED
    BY <1>3, <2>1 DEF PowerFail
<1>4. CASE ~GenWrite /\ ~TermMark /\ ~PowerFail
  <2>1. slot' = slot
    BY <1>4, Zenon DEF Next, Boot, BootLoad, BootSetFlag, BootDefaults,
       DetectAlarm, DetectNormal, Generate, GenLoad, GenStore, GenWrap,
       GenZero, GenPersist, Terminate, ScanLow, ScanHigh, RecordClear,
       PowerFailInClear, fram
  <2> QED
    BY <2>1
<1> QED
  BY <1>1, <1>2, <1>3, <1>4

(* A record that gets closed is the newest one of the event that ended,    *)
(* whatever the HMI task does while Alm_Terminate searches.                *)
THEOREM ClosesOnlyNewest == Spec => ClosesNewest
<1> DEFINE Closes ==
      \A i \in Visible(full, idx) :
        slot[i].flag # "Terminate" /\ slot'[i].flag = "Terminate"
          => slot[i].ev = ev /\ i = Newest(ev)
<1>1. Init => SearchInv
  BY DEF Init, SearchInv, Ending
<1>2. TypeOK /\ IndexInv /\ SearchInv /\ [Next]_vars => SearchInv'
  BY SearchStep
<1>3. TypeOK /\ SearchInv /\ [Next]_vars => [Closes]_vars
  <2> SUFFICES ASSUME TypeOK, SearchInv, Next, NEW i \in Visible(full, idx),
                      slot[i].flag # "Terminate", slot'[i].flag = "Terminate"
               PROVE  slot[i].ev = ev /\ i = Newest(ev)
    OBVIOUS
  <2>1. i \in Slots /\ i \in 0 .. PTAlm_Item /\ i # PTAlm_Item
    BY RingAssumption DEF Visible, Slots
  <2>2. TermMark /\ i = addr
    BY <2>1, OnlyMarkCloses
  <2>3. pc = "mark"
    BY <2>2 DEF TermMark
  <2>4. ~NoRecords
    BY DEF NoRecords, Visible, Slots
  <2>5. idx \in 0 .. PTAlm_Item
    BY <2>3 DEF SearchInv, Ending, TypeOK
  <2>6. IsNewest(ev, i) /\ slot[i].ev = ev
    BY <2>1, <2>2, <2>3, <2>4 DEF SearchInv
  <2> QED
    BY <2>1, <2>5, <2>6, NewestIsNewest
<1> QED
  BY <1>1, <1>2, <1>3, TypeCorrect, PTL DEF Spec, ClosesNewest

-----------------------------------------------------------------------------
(* What AlmComp's arguments and its scratch record hold at each point.     *)
Raising == {"write", "load", "store", "wrap", "zero", "persist"}

RoleInv ==
  /\ \A e \in Events : LAlmState[e] # "Normal" => e \in known
  /\ pc \in {"off", "defaults"} => known = {}
  /\ pc \in Raising => ev \in known /\ new # "Normal"
  /\ pc \in Ending => ev \in Events /\ new = "Normal"
  /\ pc = "write" => rec.ev = ev /\ rec.flag = "Generate"
  /\ pc \in {"load", "store"} =>
       slot[addr].ev = ev /\ slot[addr].flag = "Generate"

LEMMA RoleStep ==
  ASSUME TypeOK, RoleInv, [Next]_vars
  PROVE  RoleInv'
<1> USE DEF RoleInv, Raising, Ending, args, ghosts
<1>1. CASE Boot
  BY <1>1 DEF Boot, BootLoad, BootSetFlag, BootDefaults
<1>2. CASE \E e \in Events : \E s \in AlarmStates(e) : DetectAlarm(e, s)
  <2>0. PICK e \in Events : \E s \in AlarmStates(e) : DetectAlarm(e, s)
    BY <1>2
  <2>1. PICK s \in AlarmStates(e) : DetectAlarm(e, s)
    BY <2>0
  <2>2. new' # "Normal"
    <3>1. s # "Normal" /\ (new' = s \/ new' \in WindowTypes)
      BY <2>1 DEF DetectAlarm, ReadBack
    <3>2. "Normal" \notin WindowTypes
      BY Zenon DEF WindowTypes
    <3> QED
      BY <3>1, <3>2
  <2>3. /\ ev' = e /\ new' # "Normal" /\ rec'.ev = e /\ rec'.flag = "Generate"
        /\ known' = known \cup {e} /\ pc' = "write" /\ LAlmState' = LAlmState
    BY <2>1, <2>2 DEF DetectAlarm
  <2> QED
    BY <2>3
<1>3. CASE \E e \in Events : DetectNormal(e)
  BY <1>3 DEF DetectNormal
<1>4. CASE GenWrite
  BY <1>4 DEF GenWrite, TypeOK
<1>5. CASE GenLoad
  BY <1>5 DEF GenLoad, fram
<1>6. CASE GenStore
  BY <1>6 DEF GenStore
<1>7. CASE GenWrap
  BY <1>7 DEF GenWrap
<1>8. CASE GenZero
  BY <1>8 DEF GenZero
<1>9. CASE GenPersist
  BY <1>9 DEF GenPersist, TypeOK
<1>10. CASE ScanLow
  <2>1. /\ pc \in {"low", "lowFull"} /\ ev \in Events /\ new = "Normal"
        /\ UNCHANGED <<ev, new, known>>
        /\ pc' \in {"mark", "high", "idle"}
        /\ \/ LAlmState' = LAlmState
           \/ LAlmState' = [LAlmState EXCEPT ![ev] = "Normal"]
    BY <1>10 DEF ScanLow, AlarmEnded
  <2> QED
    BY <2>1 DEF TypeOK
<1>11. CASE ScanHigh
  <2>1. /\ pc = "high" /\ ev \in Events /\ new = "Normal"
        /\ UNCHANGED <<ev, new, known>>
        /\ pc' \in {"mark", "idle"}
        /\ \/ LAlmState' = LAlmState
           \/ LAlmState' = [LAlmState EXCEPT ![ev] = "Normal"]
    BY <1>11 DEF ScanHigh, AlarmEnded
  <2> QED
    BY <2>1 DEF TypeOK
<1>12. CASE TermMark
  BY <1>12 DEF TermMark, AlarmEnded, TypeOK
<1>13. CASE RecordClear
  BY <1>13 DEF RecordClear
<1>14. CASE PowerFail \/ PowerFailInClear
  BY <1>14 DEF PowerFail, PowerFailInClear, RamLost
<1>15. CASE UNCHANGED vars
  BY <1>15 DEF vars
<1> QED
  BY <1>1, <1>2, <1>3, <1>4, <1>5, <1>6, <1>7, <1>8, <1>9, <1>10, <1>11, <1>12,
     <1>13, <1>14, <1>15
  DEF Next, Generate, Terminate

(* The newest record of an event is open while its alarm is active, closed *)
(* when it is not.  The second half is lost to the event the bytes behind  *)
(* a full ring read as: a search that hits them marks them instead.  Those *)
(* bytes keep their event for good, and a ring that is not full is never   *)
(* searched there.                                                         *)
BehindRing(e) == full = 1 /\ slot[PTAlm_Item].ev = e

Tells(e) ==
  \A i \in Slots : IsNewest(e, i) =>
    /\ LAlmState[e] # "Normal" => slot[i].flag = "Generate"
    /\ ~BehindRing(e) /\ e \in known /\ LAlmState[e] = "Normal"
         => slot[i].flag = "Terminate"

NewestInv ==
  ~cut =>
    /\ \A e \in Events : e # ev \/ pc = "idle" => Tells(e)
    /\ pc \in {"wrap", "zero", "persist"} =>
         \A i \in Slots : IsNewest(ev, i) => slot[i].flag = "Generate"
    /\ pc = "zero" => NoRecords \/ idx = PTAlm_Item

(* A step that changes neither the alarm of e, nor which record of e is    *)
(* the newest, nor that record, keeps what the log says of e.              *)
LEMMA TellsKeeps ==
  ASSUME NEW e \in Events, Tells(e),
         \A i \in Slots : IsNewest(e, i)' =>
           IsNewest(e, i) /\ slot'[i].flag = slot[i].flag,
         slot'[PTAlm_Item].ev = slot[PTAlm_Item].ev,
         full = 1 => full' = 1,
         LAlmState'[e] = LAlmState[e],
         e \in known' => e \in known
  PROVE  Tells(e)'
  BY DEF Tells, BehindRing

(* An empty log says nothing.                                              *)
LEMMA EmptyTells ==
  ASSUME NoRecords
  PROVE  \A e : \A i \in Slots : ~IsNewest(e, i)
  BY DEF NoRecords, IsNewest, RecordsOf, Visible, Slots

(* Of the newest records only slot, FullFlag and AlmIndex decide.          *)
LEMMA SameNewest ==
  ASSUME UNCHANGED <<slot, full, idx>>
  PROVE  \A e : \A i : IsNewest(e, i)' <=> IsNewest(e, i)
  BY DEF IsNewest, RecordsOf, Visible, Met

(* Alm_Generate re-uses the slot that a reader would meet last.            *)
LEMMA WriteKeepsNewest ==
  ASSUME TypeOK, RingInv, CutInv, RoleInv, ~cut, GenWrite,
         NEW e, e # ev, NEW i \in Slots, IsNewest(e, i)'
  PROVE  IsNewest(e, i) /\ slot'[i] = slot[i]
<1>1. /\ pc = "write" /\ addr = idx /\ idx \in Slots
      /\ slot' = [slot EXCEPT ![idx] = rec]
      /\ rec.ev = ev
      /\ UNCHANGED <<full, idx>>
  BY DEF GenWrite, CutInv, RingInv, RoleInv
<1>2. slot'[idx].ev = ev /\ \A j \in Slots : j # idx => slot'[j] = slot[j]
  BY <1>1 DEF TypeOK, Slots
<1>3. i \in Visible(full, idx) /\ slot'[i].ev = e
  BY <1>1 DEF IsNewest, RecordsOf, Visible
<1>4. i # idx
  BY <1>2, <1>3
<1>5. ASSUME NEW j \in RecordsOf(e)
      PROVE  Met(i, j)
  <2>1. j \in Slots /\ j \in Visible(full, idx) /\ slot[j].ev = e
    BY DEF RecordsOf, Visible
  <2>2. CASE j = idx
    BY <1>1, <1>4, <2>2 DEF Met, Slots
  <2>3. CASE j # idx
    <3>1. j \in RecordsOf(e)'
      BY <1>1, <1>2, <2>1, <2>3 DEF RecordsOf, Visible
    <3>2. Met(i, j)'
      BY <3>1 DEF IsNewest
    <3> QED
      BY <1>1, <3>2 DEF Met
  <2> QED
    BY <2>2, <2>3
<1> QED
  BY <1>2, <1>3, <1>4, <1>5 DEF IsNewest, RecordsOf

(* The store of AlmIndex makes the record just written the newest.         *)
LEMMA StoreShowsNewest ==
  ASSUME TypeOK, RingInv, CutInv, RoleInv, ~cut, GenStore,
         NEW e, NEW i \in Slots, IsNewest(e, i)'
  PROVE  /\ e # ev => IsNewest(e, i)
         /\ e = ev => slot[i].flag = "Generate"
<1>1. /\ pc = "store" /\ addr = idx /\ idx \in Slots /\ tmp = idx + 1
      /\ idx' = idx + 1
      /\ slot[idx].ev = ev /\ slot[idx].flag = "Generate"
      /\ UNCHANGED <<slot, full>>
  BY DEF GenStore, CutInv, RingInv, RoleInv, fram
<1>2. ASSUME e # ev
      PROVE  IsNewest(e, i)
  <2>1. ASSUME NEW j \in Slots, slot[j].ev = e
        PROVE  j # idx /\ (j < idx' <=> j < idx)
    BY <1>1, <1>2, <2>1 DEF Slots
  <2>2. \A j : j \in RecordsOf(e)' <=> j \in RecordsOf(e)
    BY <1>1, <2>1 DEF RecordsOf, Visible
  <2>3. \A j \in RecordsOf(e) : Met(i, j)' => Met(i, j)
    BY <2>1, <2>2 DEF Met, IsNewest, RecordsOf, Visible
  <2> QED
    BY <2>2, <2>3 DEF IsNewest
<1>3. ASSUME e = ev
      PROVE  i = idx
  <2>1. PICK k \in Slots : k = idx
    BY <1>1
  <2>2. k \in RecordsOf(e)'
    BY <1>1, <1>3, <2>1 DEF RecordsOf, Visible, Slots
  <2>3. Met(i, k)'
    BY <2>2 DEF IsNewest
  <2>4. IF i < k + 1 <=> k < k + 1 THEN i >= k ELSE i < k + 1
    BY <1>1, <2>1, <2>3 DEF Met
  <2> QED
    BY <2>1, <2>4 DEF Slots
<1> QED
  BY <1>1, <1>2, <1>3

(* The wrap of AlmIndex from the end of the ring to its start changes the  *)
(* age of no record.                                                       *)
LEMMA WrapKeepsNewest ==
  ASSUME TypeOK, CutInv, RingInv, NewestInv, ~cut, GenWrap \/ GenZero,
         NEW e, NEW i \in Slots, IsNewest(e, i)'
  PROVE  IsNewest(e, i)
<1>1. PTAlm_Item \in Nat \ {0} /\ idx \in Nat
  BY RingAssumption DEF TypeOK
<1>2. CASE GenWrap
  <2>1. /\ idx' = idx /\ slot' = slot
        /\ full' = full \/ idx >= PTAlm_Item
    BY <1>2 DEF GenWrap, CutInv, fram
  <2>2. \A j : j \in RecordsOf(e)' <=> j \in RecordsOf(e)
    BY <1>1, <2>1 DEF RecordsOf, Visible, Slots
  <2> QED
    BY <2>1, <2>2 DEF IsNewest, Met
<1>3. CASE GenZero
  <2>1. idx' = 0 /\ UNCHANGED <<slot, full>>
    BY <1>3 DEF GenZero, fram
  <2>2. CASE full = 1
    <3>1. \A j : j \in RecordsOf(e)' <=> j \in RecordsOf(e)
      BY <2>1, <2>2 DEF RecordsOf, Visible
    <3>2. idx = PTAlm_Item
      BY <1>3, <2>2 DEF GenZero, NewestInv, NoRecords
    <3>3. \A j \in Slots : Met(i, j)' => Met(i, j)
      BY <1>1, <2>1, <3>2 DEF Met, Slots
    <3> QED
      BY <3>1, <3>3 DEF IsNewest, RecordsOf, Visible
  <2>3. CASE full # 1
    BY <2>1, <2>3 DEF IsNewest, RecordsOf, Visible, Slots
  <2> QED
    BY <2>2, <2>3
<1> QED
  BY <1>2, <1>3

LEMMA NewestStep ==
  ASSUME TypeOK, IndexInv, RingInv, CutInv, SearchInv, RoleInv, NewestInv,
         [Next]_vars
  PROVE  NewestInv'
<1> SUFFICES ASSUME ~cut' PROVE NewestInv'
  BY DEF NewestInv
<1>t. /\ full \in {0, 1} /\ cut \in BOOLEAN
      /\ LAlmState \in [Events -> AlmTypes]
      /\ PTAlm_Item \in Nat \ {0} /\ PTAlm_Item \notin Slots
  BY RingAssumption DEF TypeOK, Slots
<1>1. CASE Boot
  <2>1. /\ pc \in {"off", "defaults"} /\ pc' \in {"idle", "defaults"}
        /\ UNCHANGED <<LAlmState, known>>
    BY <1>1 DEF Boot, BootLoad, BootSetFlag, BootDefaults, ghosts
  <2>2. known' = {} /\ \A e \in Events : LAlmState'[e] = "Normal"
    BY <2>1 DEF RoleInv
  <2>3. \A e \in Events : Tells(e)'
    BY <2>2 DEF Tells
  <2> QED
    BY <2>1, <2>3 DEF NewestInv
<1>2. ASSUME NEW x \in Events, NEW s \in AlarmStates(x), DetectAlarm(x, s)
      PROVE  NewestInv'
  <2>1. /\ pc = "idle" /\ pc' = "write" /\ ev' = x /\ ~cut
        /\ UNCHANGED <<slot, full, idx, LAlmState>>
        /\ known' = known \cup {x}
    BY <1>2 DEF DetectAlarm, fram
  <2>2. ASSUME NEW e \in Events, e # x
        PROVE  Tells(e)'
    <3>1. Tells(e)
      BY <2>1 DEF NewestInv
    <3>2. e \in known' => e \in known
      BY <2>1, <2>2
    <3> QED
      BY <2>1, <3>1, <3>2, SameNewest, TellsKeeps
  <2> QED
    BY <2>1, <2>2 DEF NewestInv
<1>3. ASSUME NEW x \in Events, DetectNormal(x)
      PROVE  NewestInv'
  <2>1. /\ pc = "idle" /\ pc' \in {"lowFull", "low"} /\ ~cut
        /\ UNCHANGED <<slot, full, idx, LAlmState, known>>
    BY <1>3 DEF DetectNormal, fram, ghosts
  <2>2. ASSUME NEW e \in Events
        PROVE  Tells(e)'
    <3>1. Tells(e)
      BY <2>1 DEF NewestInv
    <3> QED
      BY <2>1, <3>1, SameNewest, TellsKeeps
  <2> QED
    BY <2>1, <2>2 DEF NewestInv
<1>4. CASE GenWrite
  <2>1. /\ pc = "write" /\ pc' = "load" /\ ~cut /\ addr \in Slots
        /\ slot' = [slot EXCEPT ![addr] = rec]
        /\ UNCHANGED <<full, LAlmState, known, ev>>
    BY <1>4 DEF GenWrite, RingInv, args
  <2>2. slot'[PTAlm_Item] = slot[PTAlm_Item]
    BY <1>t, <2>1
  <2>3. ASSUME NEW e \in Events, e # ev
        PROVE  Tells(e)'
    <3>1. Tells(e)
      BY <2>1, <2>3 DEF NewestInv
    <3>2. \A i \in Slots : IsNewest(e, i)' =>
            IsNewest(e, i) /\ slot'[i].flag = slot[i].flag
      BY <1>4, <2>1, <2>3, WriteKeepsNewest
    <3> QED
      BY <2>1, <2>2, <3>1, <3>2, TellsKeeps
  <2> QED
    BY <2>1, <2>3 DEF NewestInv
<1>5. CASE GenLoad
  <2>1. /\ pc = "load" /\ pc' = "store" /\ ~cut
        /\ UNCHANGED <<slot, full, idx, LAlmState, known, ev>>
    BY <1>5 DEF GenLoad, fram, ghosts, args
  <2>2. ASSUME NEW e \in Events, e # ev
        PROVE  Tells(e)'
    <3>1. Tells(e)
      BY <2>1, <2>2 DEF NewestInv
    <3> QED
      BY <2>1, <3>1, SameNewest, TellsKeeps
  <2> QED
    BY <2>1, <2>2 DEF NewestInv
<1>6. CASE GenStore
  <2>1. /\ pc = "store" /\ pc' = "wrap" /\ ~cut
        /\ UNCHANGED <<slot, full, LAlmState, known, ev>>
    BY <1>6 DEF GenStore, fram, ghosts, args
  <2>2. ASSUME NEW e \in Events, e # ev
        PROVE  Tells(e)'
    <3>1. Tells(e)
      BY <2>1, <2>2 DEF NewestInv
    <3>2. \A i \in Slots : IsNewest(e, i)' => IsNewest(e, i)
      BY <1>6, <2>1, <2>2, StoreShowsNewest
    <3> QED
      BY <2>1, <3>1, <3>2, TellsKeeps
  <2>3. \A e : \A i \in Slots :
          e = ev /\ IsNewest(e, i)' => slot[i].flag = "Generate"
    BY <1>6, <2>1, StoreShowsNewest
  <2>4. \A i \in Slots : IsNewest(ev, i)' => slot'[i].flag = "Generate"
    <3>1. PICK e : e = ev
      OBVIOUS
    <3>2. \A i \in Slots : IsNewest(e, i)' <=> IsNewest(ev, i)'
      BY <2>1, <3>1 DEF IsNewest, RecordsOf
    <3> QED
      BY <2>1, <2>3, <3>1, <3>2
  <2> QED
    BY <2>1, <2>2, <2>4 DEF NewestInv
<1>7. CASE GenWrap \/ GenZero
  <2>1. /\ pc \in {"wrap", "zero"} /\ pc' \in {"zero", "persist"} /\ ~cut
        /\ UNCHANGED <<slot, LAlmState, known, ev>>
        /\ full = 1 => full' = 1
    BY <1>7 DEF GenWrap, GenZero, fram, ghosts, args
  <2>2. \A e : \A i \in Slots : IsNewest(e, i)' => IsNewest(e, i)
    BY <1>7, <2>1, WrapKeepsNewest
  <2>3. ASSUME NEW e \in Events, e # ev
        PROVE  Tells(e)'
    <3>1. Tells(e)
      BY <2>1, <2>3 DEF NewestInv
    <3> QED
      BY <2>1, <2>2, <3>1, TellsKeeps
  <2>4. \A i \in Slots : IsNewest(ev, i)' => slot'[i].flag = "Generate"
    <3>1. PICK e : e = ev
      OBVIOUS
    <3>2. \A i \in Slots : IsNewest(e, i)' <=> IsNewest(ev, i)'
      BY <2>1, <3>1 DEF IsNewest, RecordsOf
    <3>3. \A i \in Slots : IsNewest(e, i) => slot[i].flag = "Generate"
      BY <2>1, <3>1 DEF NewestInv
    <3> QED
      BY <2>1, <2>2, <3>2, <3>3
  <2>5. pc' = "zero" => idx' = PTAlm_Item
    <3>1. CASE GenWrap
      <4>1. /\ pc = "wrap" /\ idx' = idx /\ idx = tmp
            /\ tmp = addr + 1 /\ addr \in Slots
            /\ pc' = "zero" => idx >= PTAlm_Item
        BY <3>1, <2>1 DEF GenWrap, CutInv, RingInv
      <4> QED
        BY <1>t, <4>1 DEF Slots
    <3> QED
      BY <1>7, <3>1 DEF GenZero
  <2> QED
    BY <2>1, <2>3, <2>4, <2>5 DEF NewestInv
<1>8. CASE GenPersist
  <2>1. /\ pc = "persist" /\ pc' = "idle" /\ ~cut
        /\ UNCHANGED <<slot, full, idx, known, ev>>
        /\ LAlmState' = [LAlmState EXCEPT ![ev] = new]
        /\ new # "Normal"
    BY <1>8 DEF GenPersist, ghosts, args, RoleInv, Raising
  <2>2. ASSUME NEW e \in Events
        PROVE  Tells(e)'
    <3>1. CASE e = ev
      <4>1. LAlmState'[e] # "Normal"
        BY <1>t, <2>1, <3>1
      <4>2. \A i \in Slots : IsNewest(e, i) => slot[i].flag = "Generate"
        BY <2>1, <3>1 DEF NewestInv
      <4>3. \A i \in Slots : IsNewest(e, i)' => slot'[i].flag = "Generate"
        BY <2>1, <4>2, SameNewest
      <4> QED
        BY <4>1, <4>3 DEF Tells
    <3>2. CASE e # ev
      <4>1. Tells(e) /\ LAlmState'[e] = LAlmState[e]
        BY <1>t, <2>1, <3>2 DEF NewestInv
      <4> QED
        BY <2>1, <4>1, SameNewest, TellsKeeps
    <3> QED
      BY <3>1, <3>2
  <2> QED
    BY <2>1, <2>2 DEF NewestInv
<1>9. CASE ScanLow \/ ScanHigh
  <2>1. /\ pc \in Ending /\ pc' \in {"mark", "high", "idle"} /\ ~cut
        /\ UNCHANGED <<slot, full, idx, known, ev>>
        /\ ev \in Events /\ new = "Normal"
        /\ pc' # "idle" => LAlmState' = LAlmState
        /\ pc' = "idle" => LAlmState' = [LAlmState EXCEPT ![ev] = new]
    BY <1>9 DEF ScanLow, ScanHigh, AlarmEnded, fram, args, ghosts, RoleInv, Ending
  <2>2. pc' = "idle" => RecordsOf(ev) = {}
    <3>1. CASE ScanLow /\ pc' = "idle"
      <4>1. full = 0 /\ Matches(Below) = {}
        BY <3>1 DEF ScanLow, Miss, SearchInv
      <4> QED
        BY <4>1 DEF RecordsOf, Visible, Matches, Below
    <3>2. CASE ScanHigh /\ pc' = "idle"
      <4>1. Matches(Below) = {} /\ Matches(NotBelow) = {} /\ pc = "high"
        BY <3>2 DEF ScanHigh, Miss, SearchInv
      <4>2. idx \in 0 .. PTAlm_Item
        BY <4>1 DEF SearchInv, Ending, TypeOK
      <4>3. Slots \subseteq Below \cup NotBelow
        BY <1>t, <4>2 DEF Slots, Below, NotBelow
      <4> QED
        BY <4>1, <4>3 DEF RecordsOf, Visible, Matches
    <3> QED
      BY <1>9, <3>1, <3>2
  <2>3. ASSUME NEW e \in Events, e # ev
        PROVE  Tells(e)'
    <3>1. Tells(e) /\ LAlmState'[e] = LAlmState[e]
      BY <1>t, <2>1, <2>3 DEF NewestInv
    <3> QED
      BY <2>1, <3>1, SameNewest, TellsKeeps
  <2>4. ASSUME pc' = "idle", NEW e \in Events, e = ev
        PROVE  Tells(e)'
    <3>1. \A i : ~IsNewest(e, i)
      BY <2>2, <2>4 DEF IsNewest
    <3>2. \A i : ~IsNewest(e, i)'
      BY <2>1, <3>1, SameNewest
    <3> QED
      BY <3>2 DEF Tells
  <2> QED
    BY <2>1, <2>3, <2>4 DEF NewestInv
<1>10. CASE TermMark
  <2>1. /\ pc = "mark" /\ pc' = "idle" /\ ~cut
        /\ slot' = [slot EXCEPT ![addr] = Closed(slot[addr])]
        /\ LAlmState' = [LAlmState EXCEPT ![ev] = "Normal"]
        /\ ev \in Events
        /\ UNCHANGED <<full, idx, known, ev>>
    BY <1>10 DEF TermMark, AlarmEnded, args, ghosts, RoleInv, Ending
  <2>2. slot[addr].ev = ev /\ addr \in 0 .. PTAlm_Item /\ idx \in 0 .. PTAlm_Item
    BY <2>1 DEF SearchInv, Ending, TypeOK
  <2>3. \A i \in 0 .. PTAlm_Item : slot'[i].ev = slot[i].ev
    BY <2>1 DEF TypeOK, Closed
  <2>4. \A i \in 0 .. PTAlm_Item : i # addr => slot'[i] = slot[i]
    BY <2>1 DEF TypeOK
  <2>5. slot'[addr].flag = "Terminate"
    BY <2>1, <2>2 DEF TypeOK, Closed
  <2>6. \A e : \A i \in Slots : IsNewest(e, i)' <=> IsNewest(e, i)
    <3>1. \A i \in Slots : slot'[i].ev = slot[i].ev
      BY <1>t, <2>3 DEF Slots
    <3>2. \A e : \A i : i \in RecordsOf(e)' <=> i \in RecordsOf(e)
      BY <2>1, <3>1 DEF RecordsOf, Visible
    <3> QED
      BY <2>1, <3>2 DEF IsNewest, Met
  <2>7. ASSUME NEW e \in Events, e # ev
        PROVE  Tells(e)'
    <3>1. Tells(e) /\ LAlmState'[e] = LAlmState[e]
      BY <1>t, <2>1, <2>7 DEF NewestInv
    <3>2. \A i \in Slots : IsNewest(e, i)' =>
            IsNewest(e, i) /\ slot'[i].flag = slot[i].flag
      <4>1. \A i \in Slots : IsNewest(e, i) => i # addr
        BY <2>2, <2>7 DEF IsNewest, RecordsOf
      <4> QED
        BY <1>t, <2>4, <2>6, <4>1 DEF Slots
    <3>3. slot'[PTAlm_Item].ev = slot[PTAlm_Item].ev
      BY <1>t, <2>3
    <3> QED
      BY <2>1, <3>1, <3>2, <3>3, TellsKeeps
  <2>8. ASSUME NEW e \in Events, e = ev
        PROVE  Tells(e)'
    <3>1. LAlmState'[e] = "Normal"
      BY <1>t, <2>1, <2>8
    <3>2. ASSUME ~BehindRing(e)', NEW i \in Slots, IsNewest(e, i)
          PROVE  i = addr
      <4>1. ~(addr = PTAlm_Item /\ full = 1)
        <5>1. PTAlm_Item \in 0 .. PTAlm_Item
          BY <1>t
        <5> QED
          BY <2>1, <2>2, <2>3, <2>8, <3>2, <5>1 DEF BehindRing
      <4>2. ~NoRecords
        BY <3>2, EmptyTells
      <4>3. IsNewest(ev, addr)
        BY <2>1, <4>1, <4>2 DEF SearchInv
      <4>4. addr \in Slots
        BY <4>3 DEF IsNewest, RecordsOf, Visible
      <4> QED
        BY <2>2, <2>8, <3>2, <4>3, <4>4, NewestIsNewest
    <3> QED
      BY <2>5, <2>6, <3>1, <3>2 DEF Tells
  <2> QED
    BY <2>1, <2>7, <2>8 DEF NewestInv
<1>11. CASE RecordClear
  <2>1. NoRecords'
    BY <1>11 DEF RecordClear, NoRecords
  <2>2. \A e : \A i \in Slots : ~IsNewest(e, i)'
    BY <2>1 DEF NoRecords, IsNewest, RecordsOf, Visible, Slots
  <2> QED
    BY <2>1, <2>2 DEF NewestInv, Tells
<1>12. CASE PowerFail
  <2>1. /\ pc' = "off" /\ known' = {}
        /\ \A e \in Events : LAlmState'[e] = "Normal"
    BY <1>12 DEF PowerFail, RamLost
  <2> QED
    BY <2>1 DEF NewestInv, Tells
<1>13. CASE PowerFailInClear
  BY <1>13 DEF PowerFailInClear
<1>14. CASE UNCHANGED vars
  <2>1. UNCHANGED <<slot, full, idx, cut, pc, ev, LAlmState, known>>
    BY <1>14 DEF vars
  <2>2. \A e : \A i : IsNewest(e, i)' <=> IsNewest(e, i)
    BY <2>1, SameNewest
  <2>3. \A i : IsNewest(ev, i)' <=> IsNewest(ev, i)
    BY <2>1 DEF IsNewest, RecordsOf, Visible, Met
  <2> QED
    BY <2>1, <2>2, <2>3 DEF NewestInv, Tells, BehindRing, NoRecords
<1> QED
  BY <1>1, <1>2, <1>3, <1>4, <1>5, <1>6, <1>7, <1>8, <1>9, <1>10, <1>11, <1>12,
     <1>13, <1>14
  DEF Next, Generate, Terminate

LEMMA NewestHolds == FactoryRelates = {Empty} => (Spec => []NewestInv)
<1> SUFFICES ASSUME FactoryRelates = {Empty}
             PROVE  Spec => []NewestInv
  OBVIOUS
<1>1. Init => SearchInv /\ RoleInv /\ NewestInv
  <2> SUFFICES ASSUME Init PROVE SearchInv /\ RoleInv /\ NewestInv
    OBVIOUS
  <2>1. /\ pc = "off" /\ known = {}
        /\ \A e \in Events : LAlmState[e] = "Normal"
    BY DEF Init
  <2> QED
    BY <2>1 DEF SearchInv, Ending, RoleInv, Raising, NewestInv, Tells
<1>2. TypeOK /\ IndexInv /\ SearchInv /\ [Next]_vars => SearchInv'
  BY SearchStep
<1>3. TypeOK /\ RoleInv /\ [Next]_vars => RoleInv'
  BY RoleStep
<1>4. TypeOK /\ IndexInv /\ RingInv /\ CutInv /\ SearchInv /\ RoleInv /\ NewestInv
        /\ [Next]_vars => NewestInv'
  BY NewestStep
<1> QED
  BY <1>1, <1>2, <1>3, <1>4, TypeCorrect, RingHolds, CutHolds, PTL DEF Spec

(* While an alarm is active the newest record of its event is open: no     *)
(* other event's end, no re-use of a slot and no reset closes it.          *)
THEOREM ActiveAlarmIsOpen ==
  FactoryRelates = {Empty} => (Spec => []ActiveIsOpen)
<1>1. TypeOK /\ IndexInv /\ NewestInv => ActiveIsOpen
  <2> SUFFICES ASSUME TypeOK, IndexInv, NewestInv, pc = "idle", ~cut,
                      NEW e \in Events, LAlmState[e] # "Normal",
                      RecordsOf(e) # {}
               PROVE  slot[Newest(e)].flag = "Generate"
    BY DEF ActiveIsOpen
  <2>1. idx \in 0 .. PTAlm_Item
    BY DEF TypeOK, IndexInv
  <2> QED
    BY <2>1, NewestIsNewest DEF NewestInv, Tells
<1> QED
  BY <1>1, TypeCorrect, NewestHolds, PTL

(* When an alarm has ended the newest record of its event is closed,       *)
(* whatever lies behind the ring, but for the one event those bytes read   *)
(* as while the ring is full.                                              *)
THEOREM EndedAlarmIsClosed ==
  FactoryRelates = {Empty} => (Spec => []EndedIsClosed)
<1>1. TypeOK /\ IndexInv /\ NewestInv => EndedIsClosed
  <2> SUFFICES ASSUME TypeOK, IndexInv, NewestInv, pc = "idle", ~cut,
                      NEW e \in known, LAlmState[e] = "Normal",
                      full = 1 => e # slot[PTAlm_Item].ev,
                      RecordsOf(e) # {}
               PROVE  slot[Newest(e)].flag = "Terminate"
    BY DEF EndedIsClosed
  <2>1. idx \in 0 .. PTAlm_Item /\ e \in Events
    BY DEF TypeOK, IndexInv
  <2> QED
    BY <2>1, NewestIsNewest DEF NewestInv, Tells, BehindRing
<1> QED
  BY <1>1, TypeCorrect, NewestHolds, PTL
=============================================================================
