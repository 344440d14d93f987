--------------------------- MODULE EnergyHistory ----------------------------
(***************************************************************************)
(* The history energy of APP/app_PTEnergy.c: on the first of every month,  *)
(* at 00:00, the Data task saves the energy registers in the FRAM slot of  *)
(* that month, counted from a base month; HMI and host subtract records to *)
(* get the consumption of a period.  An energy clear (HMI task) restarts   *)
(* the registers and moves the base.  The HMI task preempts the PC task,   *)
(* and both preempt the Data task.                                         *)
(*                                                                         *)
(* A month is encoded as in the code, year << 8 | month, with YearBase for *)
(* 256.  The registers are reduced to their era, the number of clears      *)
(* before: a difference of records is a consumption iff both are of one    *)
(* era.  An unused FRAM reads as zero.  gPTE_Init, before the tasks start, *)
(* is one step.  A clear between the comparison with the base and the read *)
(* of the registers (nPTE_Assign) does what one after that read does.      *)
(***************************************************************************)
EXTENDS Integers

CONSTANTS
  Months,        \* months of a year (12)
  YearBase,      \* values of the low byte of an encoded month (256)
  Word,          \* values of a uint16_t (65536)
  FirstMonth,    \* the month the clock starts in
  LastYear,      \* bound: the clock stops in the last month of this year
  MaxEra,        \* bound on the number of clears, plus one
  PowerMayFail   \* whether this instance lets the power fail

Times == {YearBase * y + m : y \in 0 .. LastYear, m \in 1 .. Months}

ASSUME CalendarAssumption ==
  /\ Months \in Nat \ {0} /\ YearBase \in Nat /\ YearBase > Months + 1
  /\ LastYear \in Nat /\ Word \in Nat /\ Word >= YearBase * (LastYear + 2)
  /\ Word % YearBase = 0
  /\ FirstMonth \in Times /\ FirstMonth > YearBase
  /\ MaxEra \in Nat \ {0} /\ PowerMayFail \in BOOLEAN

LastMonth == YearBase * LastYear + Months

NextMonth(t) == IF t % YearBase = Months THEN (t - Months) + YearBase + 1
                ELSE t + 1
PrevMonth(t) == IF t % YearBase = 1 THEN ((t - 1) - YearBase) + Months
                ELSE t - 1

(* Mutant of StepBack: not truncated to 16 bits.                           *)
StepBackWide(t) == PrevMonth(t)

StepBack(t) == PrevMonth(t) % Word

(* Months since the year 0; the slot of month t, counted from base b.  The *)
(* base itself would have slot -1, whose record covers the header: the     *)
(* initialised flag, the copy of the base and that of the saved flag.      *)
Linear(t) == (t \div YearBase) * Months + (t % YearBase)

nPTE_Addr(t, b) == (Linear(t) - Linear(b)) - 1
SlotIndex == -1 .. Linear(LastMonth)

Eras == 0 .. MaxEra
Records == [time : Times \cup {0}, era : Eras]
Zero == [time |-> 0, era |-> 0]

VARIABLES
  slot,              \* FRAM: the monthly records
  fmInit,            \* FRAM: the 0x55AA initialised flag
  fmBase, fmFlag,    \* FRAM: copies of the base month and the saved flag
  base, flag,        \* RAM: usPTEBaseTime (0: none yet) and ucPTESaveFlag
  era, baseEra,      \* of the energy registers, now and when the base was set
  now, minute,       \* the clock: month, and whether it is 00:00 of its first day
  pc,                \* where the Data task is in gPTE_Save; "off" without power
  rec, addr,         \* gPTE_Save's record and address
  SendIndex,         \* the host's position in the history
  asked, last,       \* the query of the answer being built, and its last flag
  reply,             \* the two records the last query subtracted
  saved,             \* history: months saved since the base was last set
  steady,            \* history: powered and not cleared since before 00:00
  first, sent,       \* history: the host's session: the month it began with, the
  answer             \* months it confirmed, and the months of the last answer

fram == <<slot, fmInit, fmBase, fmFlag>>
ram == <<base, flag>>
eras == <<era, baseEra>>
clock == <<now, minute>>
host == <<SendIndex, asked, last, reply, first, sent, answer>>
vars == <<slot, fmInit, fmBase, fmFlag, base, flag, era, baseEra, now, minute, pc,
          rec, addr, SendIndex, asked, last, reply, saved, steady, first, sent,
          answer>>

None == <<0, 0>>

Init ==
  /\ slot = [i \in SlotIndex |-> Zero]
  /\ fmInit = FALSE /\ fmBase = 0 /\ fmFlag = 0
  /\ base = 0 /\ flag = 0
  /\ era = 1 /\ baseEra = 1
  /\ now = FirstMonth /\ minute = "after"
  /\ pc = "off" /\ rec = Zero /\ addr = 0
  /\ SendIndex = 0 /\ asked = None /\ last = 0 /\ reply = [from |-> Zero, to |-> Zero]
  /\ saved = {} /\ steady = FALSE
  /\ first = 0 /\ sent = {} /\ answer = {}

-----------------------------------------------------------------------------
(* Mutant of BootLoad: the base is not loaded.                             *)
BootLoadNoBase ==
  /\ pc = "off" /\ fmInit
  /\ base' = 0 /\ flag' = fmFlag
  /\ pc' = "idle"
  /\ UNCHANGED <<fram, eras, clock, rec, addr, host, saved, steady>>

(* gPTE_Init.                                                              *)
BootLoad ==
  /\ pc = "off" /\ fmInit
  /\ base' = fmBase /\ flag' = fmFlag
  /\ pc' = "idle"
  /\ UNCHANGED <<fram, eras, clock, rec, addr, host, saved, steady>>

BootDefaults ==
  /\ pc = "off" /\ ~fmInit
  /\ fmInit' = TRUE /\ fmBase' = 0 /\ fmFlag' = 0
  /\ base' = 0 /\ flag' = 0
  /\ pc' = "idle"
  /\ saved' = {} /\ baseEra' = era
  /\ UNCHANGED <<slot, era, clock, rec, addr, host, steady>>

(* gPTE_Save, cut where the HMI task's clear or a power failure makes a    *)
(* difference.  The first save ever takes the month before as the base.    *)
SaveDue == minute = "zero" /\ flag = 0

SaveStart ==
  /\ pc = "idle" /\ SaveDue
  /\ IF base = 0 THEN base' = PrevMonth(now) /\ pc' = "base"
     ELSE UNCHANGED base /\ pc' = "time"
  /\ UNCHANGED <<fram, flag, eras, clock, rec, addr, host, saved, steady>>

SaveBase ==
  /\ pc = "base"
  /\ fmBase' = base
  /\ pc' = "time"
  /\ UNCHANGED <<slot, fmInit, fmFlag, ram, eras, clock, rec, addr, host, saved,
                 steady>>

SaveTime ==
  /\ pc = "time"
  /\ IF now > base THEN rec' = [time |-> now, era |-> era] /\ pc' = "addr"
     ELSE UNCHANGED rec /\ pc' = "idle"
  /\ UNCHANGED <<fram, ram, eras, clock, addr, host, saved, steady>>

SaveAddr ==
  /\ pc = "addr"
  /\ addr' = nPTE_Addr(rec.time, base)
  /\ pc' = "write"
  /\ UNCHANGED <<fram, ram, eras, clock, rec, host, saved, steady>>

(* A record at -1 leaves energies where the header was, which are not the  *)
(* 0x55AA of an initialised one.                                           *)
SaveWrite ==
  /\ pc = "write"
  /\ slot' = [slot EXCEPT ![addr] = rec]
  /\ IF addr >= 0 THEN UNCHANGED <<fmInit, fmBase, fmFlag>>
     ELSE fmInit' = FALSE /\ fmBase' \in Times \cup {0} /\ fmFlag' \in {0, 1}
  /\ flag' = 1
  /\ pc' = "mark"
  /\ saved' = IF rec.era = era THEN saved \cup {rec.time} ELSE saved
  /\ UNCHANGED <<base, eras, clock, rec, addr, host, steady>>

SaveMark ==
  /\ pc = "mark"
  /\ fmFlag' = flag
  /\ pc' = "idle"
  /\ UNCHANGED <<slot, fmInit, fmBase, ram, eras, clock, rec, addr, host, saved,
                 steady>>

(* Mutant of ResetDue: the saved flag is never taken back.                 *)
ResetDueNever == FALSE

ResetDue == minute = "after" /\ flag = 1

FlagReset ==
  /\ pc = "idle" /\ ResetDue
  /\ flag' = 0 /\ fmFlag' = 0
  /\ UNCHANGED <<slot, fmInit, fmBase, base, eras, clock, pc, rec, addr, host,
                 saved, steady>>

-----------------------------------------------------------------------------
(* The HMI's energy clear: Acq_EnergyClear, then gPTE_BaseTime.            *)
EnergyClear ==
  /\ pc # "off" /\ era < MaxEra
  /\ era' = era + 1 /\ baseEra' = era'
  /\ base' = now /\ fmBase' = now
  /\ saved' = {} /\ steady' = FALSE
  /\ UNCHANGED <<slot, fmInit, fmFlag, flag, clock, pc, rec, addr, host>>

RamLost ==
  /\ base' = 0 /\ flag' = 0
  /\ pc' = "off" /\ rec' = Zero /\ addr' = 0
  /\ SendIndex' = 0 /\ asked' = None /\ last' = 0
  /\ reply' = [from |-> Zero, to |-> Zero]
  /\ steady' = FALSE
  /\ first' = 0 /\ sent' = {} /\ answer' = {}
  /\ UNCHANGED clock

PowerFail ==
  /\ PowerMayFail /\ pc # "off"
  /\ RamLost
  /\ UNCHANGED <<fram, eras, saved>>

(* Power fails when the registers are cleared and the base not yet moved.  *)
PowerFailInClear ==
  /\ PowerMayFail /\ pc # "off" /\ era < MaxEra
  /\ era' = era + 1
  /\ RamLost
  /\ UNCHANGED <<fram, baseEra, saved>>

(* The clock.  The Data task comes by every 200 ms, so with the power on   *)
(* neither the minute 00:00 nor the rest of a month goes by without it.    *)
Tick ==
  /\ pc \in {"idle", "off"}
  /\ IF minute = "zero"
     THEN /\ pc = "idle" => ~SaveDue \/ (base # 0 /\ now <= base)
          /\ minute' = "after"
          /\ UNCHANGED <<now, steady>>
     ELSE /\ pc = "idle" => ~ResetDue
          /\ now < LastMonth
          /\ minute' = "zero" /\ now' = NextMonth(now)
          /\ steady' = (pc = "idle")
  /\ UNCHANGED <<fram, ram, eras, pc, rec, addr, host, saved>>

-----------------------------------------------------------------------------
(* Mutant of Query: a period that starts with the base reads a record      *)
(* for it.                                                                 *)
QueryBaseRecord(s, e) ==
  LET end == IF e > now THEN now ELSE e
      start == IF s < base THEN base ELSE s
      from == IF s < base THEN Zero ELSE slot[nPTE_Addr(s, base)]
  IN IF end > start /\ end > base
     THEN [from |-> from, to |-> slot[nPTE_Addr(end, base)]]
     ELSE [from |-> Zero, to |-> Zero]

(* gPTE_Query: the records at the two ends, Zero for an end before the     *)
(* first record.  The result is Zero twice when the period is empty.       *)
Query(s, e) ==
  LET end == IF e > now THEN now ELSE e
      start == IF s <= base THEN base ELSE s
      from == IF s <= base THEN Zero ELSE slot[nPTE_Addr(s, base)]
  IN IF end > start /\ end > base
     THEN [from |-> from, to |-> slot[nPTE_Addr(end, base)]]
     ELSE [from |-> Zero, to |-> Zero]

(* nPTEnergy_DataInfo: command 0 asks for the newest record, 1 for the one *)
(* before, 2 for the same again.  The query itself is a step of its own.   *)
(* Mutant of Stepped: a repetition steps back, too.                        *)
SteppedOnRepeat(command) ==
  IF command = 0 THEN now
  ELSE IF SendIndex > base - 1 THEN StepBack(SendIndex)
  ELSE SendIndex

Stepped(command) ==
  IF command = 0 THEN now
  ELSE IF command = 1 /\ SendIndex > base - 1 THEN StepBack(SendIndex)
  ELSE SendIndex

HostAsk(command) ==
  /\ pc # "off" /\ asked = None
  /\ SendIndex' = Stepped(command)
  /\ last' = IF SendIndex' <= base + 1 THEN 1 ELSE 0
  /\ asked' = <<base, IF SendIndex' > base THEN SendIndex' ELSE base + 1>>
  /\ first' = IF command = 0 THEN now ELSE first
  /\ sent' = IF command = 0 THEN {}
             ELSE IF command = 1 THEN sent \cup answer
             ELSE sent
  /\ answer' = {}
  /\ UNCHANGED <<fram, ram, eras, clock, pc, rec, addr, reply, saved, steady>>

HostQuery ==
  /\ asked # None
  /\ reply' = Query(asked[1], asked[2])
  /\ answer' = {t \in Times : Linear(t) = Linear(asked[2])}
  /\ asked' = None
  /\ UNCHANGED <<fram, ram, eras, clock, pc, rec, addr, SendIndex, last, saved,
                 steady, first, sent>>

gPTE_Save == \/ SaveStart \/ SaveBase \/ SaveTime \/ SaveAddr \/ SaveWrite
             \/ SaveMark \/ FlagReset
PCTask == HostQuery \/ \E c \in {0, 1, 2} : HostAsk(c)

(* The PC task, once it has started an answer, keeps the Data task out.    *)
Next ==
  \/ BootLoad
  \/ BootDefaults
  \/ asked = None /\ gPTE_Save
  \/ EnergyClear
  \/ PCTask
  \/ PowerFail
  \/ PowerFailInClear
  \/ asked = None /\ Tick

Spec == Init /\ [][Next]_vars
-----------------------------------------------------------------------------
TypeOK ==
  /\ slot \in [SlotIndex -> Records]
  /\ fmInit \in BOOLEAN
  /\ {fmBase, base} \subseteq Times \cup {0}
  /\ {fmFlag, flag} \subseteq {0, 1}
  /\ era \in 1 .. MaxEra /\ baseEra \in 1 .. era
  /\ now \in Times /\ minute \in {"zero", "after"}
  /\ pc \in {"off", "idle", "base", "time", "addr", "write", "mark"}
  /\ rec \in Records /\ addr \in SlotIndex
  /\ SendIndex \in 0 .. Word - 1
  /\ asked \in (Times \cup {0}) \X (0 .. Word - 1)
  /\ last \in {0, 1}
  /\ reply \in [from : Records, to : Records]
  /\ saved \subseteq Times /\ steady \in BOOLEAN
  /\ first \in Times \cup {0} /\ sent \subseteq Times /\ answer \subseteq Times

(* A month saved since the base was last set stays in its slot, counted    *)
(* from the base of this boot or of the next: no later save, clear or      *)
(* power failure, one in the middle of a clear included, overwrites it or  *)
(* moves the base under it.  The exception is a save that went to -1: once *)
(* the power fails, the struck header loses the history.                   *)
SavedKept ==
  LET b == IF pc = "off" THEN fmBase ELSE base
  IN (pc = "off" => fmInit) =>
     \A t \in saved : /\ t > b
                      /\ slot[nPTE_Addr(t, b)].time = t
                      /\ slot[nPTE_Addr(t, b)].era \in baseEra .. era

(* The unit saves every month whose 00:00 it saw, unless the power failed  *)
(* or the energy was cleared in that very minute: the saved flag, set and  *)
(* persisted the month before, never suppresses it.                        *)
MonthSaved == steady /\ minute = "after" => now \in saved

(* A query over saved months, or from the base to one, subtracts exactly   *)
(* the records of those months, and both are of the era of the registers   *)
(* unless the power failed in the middle of the last clear.                *)
QueryHonest ==
  pc # "off" =>
    \A e \in saved : \A s \in saved \cup {base} : s < e =>
      LET q == Query(s, e)
      IN /\ q.to.time = e
         /\ q.from.time = (IF s = base THEN 0 ELSE s)
         /\ baseEra = era => /\ q.to.era = era
                             /\ s # base => q.from.era = era

(* An answer flagged as the last one ends a session in which the host got  *)
(* every saved month from the one it began with, across years and whatever *)
(* is saved, repeated or cleared meanwhile.                                *)
LastIsSound ==
  asked = None /\ first # 0 /\ last = 1
    => {t \in saved : t <= first} \subseteq sent \cup answer

-----------------------------------------------------------------------------
(* USR/sys_FramAlloc.h:25 gives the history energy its place from 0x3000   *)
(* on, the records FMOffset_PTE behind: a save stays inside.               *)
SaveInBlock == pc = "write" => addr >= 0
=============================================================================
