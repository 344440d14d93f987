--------------------------- MODULE RtWindowProofs ---------------------------
(***************************************************************************)
(* Proofs about RtWindow, for a window of any size and any set of events,  *)
(* with the HMI's clear between any two steps of a change.                 *)
(***************************************************************************)
EXTENDS RtWindow, TLAPS

(* The first n records of the window are the last changes but for the      *)
(* first d of them.                                                        *)
Matches(n, d) == \A i \in 1 .. n : gRTAlmRecord[i - 1] = recent[i + d]

(* Before a change the window holds all it counts; a full one holds its    *)
(* oldest change until the shift.                                          *)
Counted == Len(recent) = RTAlmIndex /\ Matches(RTAlmIndex, 0)
Shifted == Len(recent) = RTAlm_Item /\ Matches(RTAlm_Item - 1, 1)

(* The steps from which on a field of the new record is filled.            *)
Filling == {"type", "event", "comp", "mark", "load", "store"}
TypeFilled == Filling \ {"type"}
EventFilled == TypeFilled \ {"event"}
Compared == EventFilled \ {"comp"}
Marked == Compared \ {"mark"}

(* Where the Data task is within a change, when no clear cut into it: what *)
(* the window holds still, which fields of the new record are the ones the *)
(* change will count, and what the register of RTAlmIndex++ is worth.      *)
ChangeInv ==
  cut = 0 =>
    /\ pc \in {"idle", "shift"} => Counted
    /\ pc = "shift" => RTAlmIndex = RTAlm_Item
    /\ pc = "last" => Shifted
    /\ pc \in Filling =>
         /\ Counted \/ (RTAlmIndex = RTAlm_Item - 1 /\ Shifted)
         /\ RTAlmIndex < RTAlm_Item
    /\ pc \in TypeFilled => gRTAlmRecord[RTAlmIndex].type = TypeOfChange
    /\ pc \in EventFilled => gRTAlmRecord[RTAlmIndex].ev = ev
    /\ pc \in Compared => CState = new
    /\ pc \in Marked => gRTAlmRecord[RTAlmIndex].flag = FlagOf(new)
    /\ pc = "store" => tmp = RTAlmIndex + 1

IInv == TypeOK /\ ChangeInv

(* No record the window ever held below some RTAlmIndex is of type         *)
(* "normal", wherever a clear sent RTAlmIndex back to 0.                   *)
Alarming(i) == gRTAlmRecord[i].type # Normal
AllAlarming(n) == \A i \in Places : i < n => Alarming(i)

AlarmInv ==
  /\ AllAlarming(RTAlmIndex)
  /\ pc \in {"shift", "last"} => AllAlarming(RTAlm_Item)
  /\ pc \in TypeFilled => Alarming(0) /\ Alarming(RTAlmIndex)
  /\ pc = "store" => AllAlarming(tmp)
  /\ pc # "idle" => TypeOfChange # Normal
  /\ pc \in Compared => (CState = Normal <=> new = Normal)

-----------------------------------------------------------------------------
(* Latest drops one record of a sequence that is one too long.             *)
LEMMA LatestKeeps ==
  ASSUME NEW s \in Seq(Records), Len(s) <= RTAlm_Item, NEW r \in Records
  PROVE  LET t == Latest(Append(s, r)) IN
           /\ t \in Seq(Records) /\ Len(t) <= RTAlm_Item
           /\ Len(s) < RTAlm_Item => t = Append(s, r)
           /\ Len(s) = RTAlm_Item =>
                /\ Len(t) = RTAlm_Item
                /\ \A i \in 1 .. RTAlm_Item : t[i] = Append(s, r)[i + 1]
<1> DEFINE a == Append(s, r)
<1>1. a \in Seq(Records) /\ Len(a) = Len(s) + 1 /\ Len(s) \in Nat
  OBVIOUS
<1>2. CASE Len(s) < RTAlm_Item
  BY <1>1, <1>2, WindowAssumption DEF Latest
<1>3. CASE Len(s) = RTAlm_Item
  <2>1. Latest(a) = Tail(a)
    BY <1>1, <1>3, WindowAssumption DEF Latest
  <2>2. /\ Tail(a) \in Seq(Records) /\ Len(Tail(a)) = RTAlm_Item
        /\ \A i \in 1 .. RTAlm_Item : Tail(a)[i] = a[i + 1]
    BY <1>1, <1>3, WindowAssumption
  <2> QED
    BY <2>1, <2>2, <1>3, WindowAssumption
<1> QED
  BY <1>1, <1>2, <1>3, WindowAssumption

LEMMA TypeStep == TypeOK /\ [Next]_vars => TypeOK'
<1> SUFFICES ASSUME TypeOK, [Next]_vars PROVE TypeOK'
  OBVIOUS
<1> USE WindowAssumption DEF TypeOK, Places, args
<1>1. ASSUME NEW e \in Events, NEW s \in AlmTypes \cup {Normal}, Judge(e, s)
      PROVE  TypeOK'
  BY <1>1 DEF Judge
<1>2. CASE Shift
  <2>1. gRTAlmRecord' \in [Places -> Records]
    BY <1>2 DEF Shift
  <2> QED
    BY <1>2, <2>1 DEF Shift
<1>3. CASE LastPlace
  BY <1>3 DEF LastPlace
<1>4. CASE FillType
  <2>1. gRTAlmRecord' \in [Places -> Records]
    BY <1>4 DEF FillType, TypeOfChange, Records
  <2> QED
    BY <1>4, <2>1 DEF FillType
<1>5. CASE FillEvent
  <2>1. gRTAlmRecord' \in [Places -> Records]
    BY <1>5 DEF FillEvent, Records
  <2> QED
    BY <1>5, <2>1 DEF FillEvent
<1>6. CASE Compare
  <2>1. CState' \in AlmTypes \cup {Normal}
    BY <1>6 DEF Compare, Records
  <2> QED
    BY <1>6, <2>1 DEF Compare
<1>7. CASE Mark
  <2>1. gRTAlmRecord' \in [Places -> Records]
    BY <1>7 DEF Mark, FlagOf, Records
  <2> QED
    BY <1>7, <2>1 DEF Mark
<1>8. CASE Load
  BY <1>8 DEF Load
<1>9. CASE Store
  <2> DEFINE r == [ev |-> ev, type |-> TypeOfChange, flag |-> FlagOf(new)]
  <2>1. r \in Records
    BY DEF Records, TypeOfChange, FlagOf
  <2>2. recent' = Latest(Append(recent, r))
    BY <1>9 DEF Store
  <2>3. recent' \in Seq(Records) /\ Len(recent') <= RTAlm_Item
    BY <2>1, <2>2, LatestKeeps
  <2>4. LAlmState' \in [Events -> AlmTypes \cup {Normal}]
    BY <1>9 DEF Store
  <2> QED
    BY <1>9, <2>3, <2>4 DEF Store
<1>10. CASE RecordClear
  <2>1. recent' \in Seq(Records) /\ Len(recent') = 0
    BY <1>10 DEF RecordClear
  <2> QED
    BY <1>10, <2>1 DEF RecordClear
<1>11. CASE UNCHANGED vars
  BY <1>11 DEF vars
<1> QED
  BY <1>1, <1>2, <1>3, <1>4, <1>5, <1>6, <1>7, <1>8, <1>9, <1>10, <1>11 DEF Next

(* A step that fills a field of the record that is not counted yet leaves  *)
(* the counted ones as they are.                                           *)
LEMMA FillKeeps ==
  ASSUME TypeOK, RTAlmIndex < RTAlm_Item, UNCHANGED <<RTAlmIndex, recent>>,
         \A i \in Places : i # RTAlmIndex => gRTAlmRecord'[i] = gRTAlmRecord[i],
         Counted \/ (RTAlmIndex = RTAlm_Item - 1 /\ Shifted)
  PROVE  (Counted \/ (RTAlmIndex = RTAlm_Item - 1 /\ Shifted))'
<1>1. \A i \in 1 .. RTAlmIndex :
        i - 1 \in Places /\ gRTAlmRecord'[i - 1] = gRTAlmRecord[i - 1]
  BY WindowAssumption DEF TypeOK, Places
<1>2. CASE Counted
  BY <1>1, <1>2 DEF Counted, Matches
<1>3. CASE RTAlmIndex = RTAlm_Item - 1 /\ Shifted
  BY <1>1, <1>3 DEF Shifted, Matches
<1> QED
  BY <1>2, <1>3

LEMMA ChangeStep == IInv /\ [Next]_vars => ChangeInv'
<1> SUFFICES ASSUME IInv, [Next]_vars, cut' = 0 PROVE ChangeInv'
  BY DEF ChangeInv
<1> USE WindowAssumption
<1>a. TypeOK /\ ChangeInv /\ TypeOK'
  BY TypeStep DEF IInv
<1>b. /\ RTAlmIndex \in 0 .. RTAlm_Item /\ RTAlm_Item \in Nat
      /\ ev \in Events /\ new \in AlmTypes \cup {Normal}
      /\ gRTAlmRecord \in [Places -> Records]
  BY <1>a DEF TypeOK
<1> DEFINE Kept == Counted \/ (RTAlmIndex = RTAlm_Item - 1 /\ Shifted)
<1> USE DEF Filling, TypeFilled, EventFilled, Compared, Marked
<1>1. ASSUME NEW e \in Events, NEW s \in AlmTypes \cup {Normal}, Judge(e, s)
      PROVE  ChangeInv'
  BY <1>1, <1>a, <1>b DEF Judge, ChangeInv, Counted, Shifted, Matches
<1>2. CASE Shift
  <2>1. Counted /\ RTAlmIndex = RTAlm_Item /\ pc' = "last" /\ recent' = recent
    BY <1>2, <1>a DEF Shift, ChangeInv
  <2>2. \A i \in 1 .. RTAlm_Item - 1 : gRTAlmRecord'[i - 1] = gRTAlmRecord[i]
    BY <1>2, <1>b DEF Shift, Places
  <2>3. \A i \in 1 .. RTAlm_Item - 1 : gRTAlmRecord[i] = recent[i + 1]
    <3> SUFFICES ASSUME NEW i \in 1 .. RTAlm_Item - 1
                 PROVE  gRTAlmRecord[i] = recent[i + 1]
      OBVIOUS
    <3>1. i + 1 \in 1 .. RTAlmIndex /\ (i + 1) - 1 = i /\ (i + 1) + 0 = i + 1
      BY <2>1
    <3> QED
      BY <3>1, <2>1 DEF Counted, Matches
  <2>4. Shifted'
    BY <2>1, <2>2, <2>3 DEF Counted, Shifted, Matches
  <2> QED
    BY <2>1, <2>4 DEF ChangeInv
<1>3. CASE LastPlace
  <2>1. Shifted /\ pc' = "type" /\ RTAlmIndex' = RTAlm_Item - 1
    BY <1>3, <1>a DEF LastPlace, ChangeInv
  <2>2. Shifted'
    BY <1>3, <2>1 DEF LastPlace, Shifted, Matches
  <2> QED
    BY <2>1, <2>2 DEF ChangeInv
<1>4. CASE FillType
  <2>1. /\ Kept /\ RTAlmIndex < RTAlm_Item /\ pc' = "event"
        /\ RTAlmIndex' = RTAlmIndex /\ recent' = recent
        /\ UNCHANGED <<ev, new, LAlmState>>
    BY <1>4, <1>a DEF FillType, ChangeInv, args
  <2>2. /\ \A i \in Places : i # RTAlmIndex => gRTAlmRecord'[i] = gRTAlmRecord[i]
        /\ gRTAlmRecord'[RTAlmIndex].type = TypeOfChange
    BY <1>4, <1>b, <2>1 DEF FillType, Places, Records
  <2>3. Kept'
    BY <1>a, <2>1, <2>2, FillKeeps
  <2>4. TypeOfChange' = TypeOfChange
    BY <2>1 DEF TypeOfChange
  <2> QED
    BY <2>1, <2>2, <2>3, <2>4 DEF ChangeInv
<1>5. CASE FillEvent
  <2>1. /\ Kept /\ RTAlmIndex < RTAlm_Item /\ pc' = "comp"
        /\ RTAlmIndex' = RTAlmIndex /\ recent' = recent
        /\ UNCHANGED <<ev, new, LAlmState>>
        /\ gRTAlmRecord[RTAlmIndex].type = TypeOfChange
    BY <1>5, <1>a DEF FillEvent, ChangeInv, args
  <2>2. /\ \A i \in Places : i # RTAlmIndex => gRTAlmRecord'[i] = gRTAlmRecord[i]
        /\ gRTAlmRecord'[RTAlmIndex].ev = ev
        /\ gRTAlmRecord'[RTAlmIndex].type = gRTAlmRecord[RTAlmIndex].type
    BY <1>5, <1>b, <2>1 DEF FillEvent, Places, Records
  <2>3. Kept'
    BY <1>a, <2>1, <2>2, FillKeeps
  <2>4. TypeOfChange' = TypeOfChange
    BY <2>1 DEF TypeOfChange
  <2> QED
    BY <2>1, <2>2, <2>3, <2>4 DEF ChangeInv
<1>6. CASE Compare
  <2>1. /\ Kept /\ RTAlmIndex < RTAlm_Item /\ pc' = "mark"
        /\ UNCHANGED <<gRTAlmRecord, RTAlmIndex, recent, ev, new, LAlmState>>
        /\ gRTAlmRecord[RTAlmIndex].type = TypeOfChange
        /\ gRTAlmRecord[RTAlmIndex].ev = ev
    BY <1>6, <1>a DEF Compare, ChangeInv
  <2>2. CState' = new
    BY <1>6, <2>1 DEF Compare, TypeOfChange
  <2>3. Kept'
    BY <2>1 DEF Counted, Shifted, Matches
  <2>4. TypeOfChange' = TypeOfChange
    BY <2>1 DEF TypeOfChange
  <2> QED
    BY <2>1, <2>2, <2>3, <2>4 DEF ChangeInv
<1>7. CASE Mark
  <2>1. /\ Kept /\ RTAlmIndex < RTAlm_Item /\ pc' = "load"
        /\ RTAlmIndex' = RTAlmIndex /\ recent' = recent
        /\ UNCHANGED <<ev, new, LAlmState, CState>>
        /\ gRTAlmRecord[RTAlmIndex].type = TypeOfChange
        /\ gRTAlmRecord[RTAlmIndex].ev = ev
        /\ CState = new
    BY <1>7, <1>a DEF Mark, ChangeInv, args
  <2>2. /\ \A i \in Places : i # RTAlmIndex => gRTAlmRecord'[i] = gRTAlmRecord[i]
        /\ gRTAlmRecord'[RTAlmIndex].flag = FlagOf(new)
        /\ gRTAlmRecord'[RTAlmIndex].type = gRTAlmRecord[RTAlmIndex].type
        /\ gRTAlmRecord'[RTAlmIndex].ev = gRTAlmRecord[RTAlmIndex].ev
    BY <1>7, <1>b, <2>1 DEF Mark, Places, Records
  <2>3. Kept'
    BY <1>a, <2>1, <2>2, FillKeeps
  <2>4. TypeOfChange' = TypeOfChange /\ FlagOf(new)' = FlagOf(new)
    BY <2>1 DEF TypeOfChange, FlagOf
  <2> QED
    BY <2>1, <2>2, <2>3, <2>4 DEF ChangeInv
<1>8. CASE Load
  <2>1. /\ Kept /\ RTAlmIndex < RTAlm_Item /\ pc' = "store"
        /\ UNCHANGED <<gRTAlmRecord, RTAlmIndex, recent, ev, new, LAlmState, CState>>
        /\ gRTAlmRecord[RTAlmIndex].type = TypeOfChange
        /\ gRTAlmRecord[RTAlmIndex].ev = ev
        /\ gRTAlmRecord[RTAlmIndex].flag = FlagOf(new)
        /\ CState = new /\ tmp' = RTAlmIndex + 1
    BY <1>8, <1>a DEF Load, ChangeInv
  <2>3. Kept'
    BY <2>1 DEF Counted, Shifted, Matches
  <2>4. TypeOfChange' = TypeOfChange /\ FlagOf(new)' = FlagOf(new)
    BY <2>1 DEF TypeOfChange, FlagOf
  <2> QED
    BY <2>1, <2>3, <2>4 DEF ChangeInv
<1>9. CASE Store
  <2> DEFINE r == [ev |-> ev, type |-> TypeOfChange, flag |-> FlagOf(new)]
             a == Append(recent, r)
  <2>1. /\ Kept /\ RTAlmIndex < RTAlm_Item /\ pc' = "idle"
        /\ RTAlmIndex' = RTAlmIndex + 1 /\ gRTAlmRecord' = gRTAlmRecord
        /\ recent' = Latest(a)
    BY <1>9, <1>a DEF Store, ChangeInv
  <2>2. r \in Records /\ recent \in Seq(Records) /\ Len(recent) <= RTAlm_Item
    BY <1>a DEF Records, TypeOfChange, FlagOf, TypeOK
  <2>3. gRTAlmRecord[RTAlmIndex] = r
    <3>1. /\ gRTAlmRecord[RTAlmIndex].type = r.type
          /\ gRTAlmRecord[RTAlmIndex].ev = r.ev
          /\ gRTAlmRecord[RTAlmIndex].flag = r.flag
      BY <1>9, <1>a DEF Store, ChangeInv
    <3>2. gRTAlmRecord[RTAlmIndex] \in Records
      BY <1>b, <2>1 DEF Places
    <3> QED
      BY <2>2, <3>1, <3>2 DEF Records
  <2>4. /\ Len(a) = Len(recent) + 1 /\ a[Len(recent) + 1] = r
        /\ \A i \in 1 .. Len(recent) : a[i] = recent[i]
    BY <2>2
  <2>a. /\ Len(recent) < RTAlm_Item => Latest(a) = a
        /\ Len(recent) = RTAlm_Item =>
             /\ Len(Latest(a)) = RTAlm_Item
             /\ \A i \in 1 .. RTAlm_Item : Latest(a)[i] = a[i + 1]
    BY <2>2, LatestKeeps
  <2> HIDE DEF r, a
  <2>5. CASE Counted
    <3>1. recent' = a /\ Len(recent) = RTAlmIndex
      BY <2>1, <2>5, <2>a DEF Counted
    <3>2. \A i \in 1 .. RTAlmIndex + 1 : gRTAlmRecord[i - 1] = a[i]
      <4> SUFFICES ASSUME NEW i \in 1 .. RTAlmIndex + 1
                   PROVE  gRTAlmRecord[i - 1] = a[i]
        OBVIOUS
      <4>1. CASE i = RTAlmIndex + 1
        BY <1>b, <2>3, <2>4, <3>1, <4>1
      <4>2. CASE i \in 1 .. RTAlmIndex
        BY <1>b, <2>4, <2>5, <3>1, <4>2 DEF Counted, Matches
      <4> QED
        BY <1>b, <4>1, <4>2
    <3>3. Counted'
      BY <1>b, <2>1, <2>4, <3>1, <3>2 DEF Counted, Matches
    <3> QED
      BY <2>1, <3>3 DEF ChangeInv
  <2>6. CASE RTAlmIndex = RTAlm_Item - 1 /\ Shifted
    <3>1. Len(recent) = RTAlm_Item
      BY <2>6 DEF Shifted
    <3>2. /\ Len(recent') = RTAlm_Item
          /\ \A i \in 1 .. RTAlm_Item : recent'[i] = a[i + 1]
      BY <2>1, <2>a, <3>1
    <3>3. \A i \in 1 .. RTAlm_Item : gRTAlmRecord[i - 1] = recent'[i]
      <4> SUFFICES ASSUME NEW i \in 1 .. RTAlm_Item
                   PROVE  gRTAlmRecord[i - 1] = recent'[i]
        OBVIOUS
      <4>1. CASE i = RTAlm_Item
        BY <1>b, <2>3, <2>4, <2>6, <3>1, <3>2, <4>1
      <4>2. CASE i \in 1 .. RTAlm_Item - 1
        <5>1. gRTAlmRecord[i - 1] = recent[i + 1]
          BY <2>6, <4>2 DEF Shifted, Matches
        <5>2. i + 1 \in 1 .. Len(recent)
          BY <3>1, <4>2
        <5> QED
          BY <2>4, <3>2, <5>1, <5>2
      <4> QED
        BY <4>1, <4>2
    <3>4. RTAlmIndex' = RTAlm_Item
      BY <1>b, <2>1, <2>6
    <3>5. Counted'
      BY <2>1, <3>2, <3>3, <3>4 DEF Counted, Matches
    <3> QED
      BY <2>1, <3>5 DEF ChangeInv
  <2> QED
    BY <2>1, <2>5, <2>6
<1>10. CASE RecordClear
  <2>1. /\ RTAlmIndex' = 0 /\ recent' = <<>> /\ pc' = pc
        /\ pc \in {"idle", "type"}
    BY <1>10 DEF RecordClear
  <2>2. Counted'
    BY <2>1 DEF Counted, Matches
  <2> QED
    BY <2>1, <2>2 DEF ChangeInv
<1>11. CASE UNCHANGED vars
  BY <1>11, <1>a DEF vars, ChangeInv, Counted, Shifted, Matches, TypeOfChange,
     FlagOf
<1> QED
  BY <1>1, <1>2, <1>3, <1>4, <1>5, <1>6, <1>7, <1>8, <1>9, <1>10, <1>11 DEF Next

-----------------------------------------------------------------------------
(* Wherever a clear lands, no index leaves the window and no field is      *)
(* written behind it.                                                      *)
THEOREM WindowTypeCorrect == Spec => []TypeOK
<1>1. Init => TypeOK
  BY WindowAssumption DEF Init, TypeOK, Places, Records
<1> QED
  BY <1>1, TypeStep, PTL DEF Spec

(* Between two changes the HMI lists the last changes since the clear, in  *)
(* their order and with the fields each had, unless the clear cut into     *)
(* one: the records shifted are the ones counted before, and the new one   *)
(* is filled where it is counted.                                          *)
THEOREM WindowShowsRecent == Spec => []WindowIsRecent
<1>1. Init => IInv
  BY WindowAssumption
  DEF Init, IInv, TypeOK, Places, Records, ChangeInv, Counted, Matches, Filling,
      TypeFilled, EventFilled, Compared, Marked
<1>2. IInv /\ [Next]_vars => IInv'
  BY TypeStep, ChangeStep DEF IInv
<1>3. IInv => WindowIsRecent
  <2> SUFFICES ASSUME IInv, pc = "idle", cut = 0
               PROVE  /\ Len(recent) = RTAlmIndex
                      /\ \A i \in 1 .. RTAlmIndex : gRTAlmRecord[i - 1] = recent[i]
    BY DEF WindowIsRecent
  <2>1. Counted /\ RTAlmIndex \in Nat
    BY DEF IInv, ChangeInv, TypeOK
  <2> QED
    BY <2>1 DEF Counted, Matches
<1> QED
  BY <1>1, <1>2, <1>3, PTL DEF Spec

LEMMA AlarmStep == TypeOK /\ AlarmInv /\ [Next]_vars => AlarmInv'
<1> SUFFICES ASSUME TypeOK, AlarmInv, [Next]_vars PROVE AlarmInv'
  OBVIOUS
<1> USE WindowAssumption DEF TypeOK, AlarmInv, AllAlarming, Alarming, Places,
        Filling, TypeFilled, EventFilled, Compared
<1>1. ASSUME NEW e \in Events, NEW s \in AlmTypes \cup {Normal}, Judge(e, s)
      PROVE  AlarmInv'
  BY <1>1 DEF Judge, TypeOfChange
<1>2. CASE Shift
  <2>1. \A i \in Places : i + 1 \in Places \/ i = RTAlm_Item - 1
    OBVIOUS
  <2>2. \A i \in Places : gRTAlmRecord'[i].type # Normal
    BY <1>2, <2>1 DEF Shift
  <2> QED
    BY <1>2, <2>2 DEF Shift, TypeOfChange, args
<1>3. CASE LastPlace
  BY <1>3 DEF LastPlace, TypeOfChange, args
<1>4. CASE FillType
  <2>1. \A i \in Places : gRTAlmRecord'[i].type =
          IF i = RTAlmIndex THEN TypeOfChange ELSE gRTAlmRecord[i].type
    BY <1>4 DEF FillType, Records
  <2>2. /\ pc = "type" /\ pc' = "event" /\ TypeOfChange # Normal
        /\ UNCHANGED <<RTAlmIndex, LAlmState, ev, new, CState, tmp>>
    BY <1>4 DEF FillType, args
  <2>3. TypeOfChange' # Normal
    BY <2>2 DEF TypeOfChange
  <2>4. \A i \in Places : i <= RTAlmIndex => gRTAlmRecord'[i].type # Normal
    BY <2>1, <2>2
  <2>5. 0 \in Places /\ RTAlmIndex \in Places /\ 0 <= RTAlmIndex
    BY <2>2
  <2> QED
    BY <2>2, <2>3, <2>4, <2>5
<1>5. CASE FillEvent
  <2>1. \A i \in Places : gRTAlmRecord'[i].type = gRTAlmRecord[i].type
    BY <1>5 DEF FillEvent, Records
  <2> QED
    BY <1>5, <2>1 DEF FillEvent, TypeOfChange, args
<1>6. CASE Compare
  BY <1>6 DEF Compare, TypeOfChange
<1>7. CASE Mark
  <2>1. \A i \in Places : gRTAlmRecord'[i].type = gRTAlmRecord[i].type
    BY <1>7 DEF Mark, Records
  <2> QED
    BY <1>7, <2>1 DEF Mark, TypeOfChange, args
<1>8. CASE Load
  BY <1>8 DEF Load, TypeOfChange
<1>9. CASE Store
  BY <1>9 DEF Store, args
<1>10. CASE RecordClear
  BY <1>10 DEF RecordClear, TypeOfChange, args
<1>11. CASE UNCHANGED vars
  BY <1>11 DEF vars, TypeOfChange
<1> QED
  BY <1>1, <1>2, <1>3, <1>4, <1>5, <1>6, <1>7, <1>8, <1>9, <1>10, <1>11 DEF Next

(* Whatever the clear does to RTAlmIndex inside a change, AlmComp generates *)
(* for an alarm that came up and terminates for one that ended.            *)
THEOREM AlarmNeverTakenForEnd == Spec => []AlarmStaysAlarm
<1>1. Init => AlarmInv
  BY WindowAssumption
  DEF Init, AlarmInv, AllAlarming, Places, Filling, TypeFilled, EventFilled, Compared
<1>2. TypeOK /\ AlarmInv /\ [Next]_vars => AlarmInv'
  BY AlarmStep
<1>3. AlarmInv => AlarmStaysAlarm
  BY DEF AlarmInv, AlarmStaysAlarm, Filling, TypeFilled, EventFilled, Compared
<1> QED
  BY <1>1, <1>2, <1>3, WindowTypeCorrect, PTL DEF Spec
=============================================================================
