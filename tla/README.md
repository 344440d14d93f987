# Verification of the DPJ-G1K power monitor

The program (APP/, BSP/, USR/, GUI/Win/) is the firmware of a power distribution
monitor on an STM32F4: it measures two busbars, watches up to 144 branch
switches through slave modules, raises alarms, keeps a history of alarms and of
monthly energy in an FRAM, shows both on a touch display, answers a host on a
serial line and keeps a TCP client connection. It runs five FreeRTOS tasks.
The repository has no tests. This directory models its logic in TLA+, checks it
with TLC and proves its safety properties with TLAPS.

## 1. The system

Tasks (`USR/sys_Tasks.c:69-106`), from the highest priority to the lowest:

| task | priority | does |
|---|---|---|
| HMI | realtime | windows, touch; its buttons clear the alarm log and the energy, and write the settings |
| PC, ETH | above normal | PC answers a host frame taken from a message queue; ETH drives lwIP and the TCP client every 500 ms |
| SUB | normal | decodes a slave module's frame, then `SUB_BranchState` |
| Data | below normal | every 200 ms: acquisition, `Alm_AllHandler`, energy, `gPTE_Save`, demand, poll of the next slave module |

Nothing but the FRAM transfers is in a critical section, so between two FRAM
transfers of the Data task any other task may run a whole handler. That is the
source of most hazards, and the rule by which the modules cut handlers into
steps: a handler of a low task is cut wherever a step of a higher one, or the
loss of power, makes a difference; a handler of the highest task that changes
the shared state is one step, with a second action for power lost inside it.

| component | state | operations | talks to | what is hard | what makes it correct |
|---|---|---|---|---|---|
| Alarm history log (`APP/app_Alarm.c`) | FRAM ring of 500 records; `gPTAlmRelate` (FullFlag, AlmIndex) in RAM and FRAM; 0x55AA flag | `AlmRelate_Init`, `Alm_Generate`, `Alm_Terminate`, `Alm_RecordClear` | called by the scan (Data) and the HMI; read by HMI and host | clear against generate; power loss, torn writes; wrap; search for the record to close | a readable slot was written; RAM and FRAM agree; cleared is cleared; the record closed is the newest of its event; an active alarm's record is open |
| Alarm scan (`APP/app_Alarm.c`) | `LAlmState` per event, `gAlmMessage` (20 bus + 144 branch cells), lamp and buzzer | `Alm_AllHandler` and its judges | inputs from acquisition and SUB task, setup from HMI; message read by host | two memories of one alarm, a setup that changes under the scan, indices shared by two arrays | no alarm held is reported normal; the lamp stays on while one is held and goes off after |
| Real-time alarm window (`APP/app_Alarm.c`) | `gRTAlmRecord`, `RTAlmIndex` | filled by the judges, shifted when full, zeroed by the clear | HMI `NowAlarm` | index read again for every field, a clear in between | the last changes in their order, nothing written behind the window |
| History energy (`APP/app_PTEnergy.c`) | FRAM slots per month; base month and saved flag in RAM and FRAM; the host's position | `gPTE_Init`, `gPTE_Save`, `gPTE_BaseTime`, `gPTE_Query`, `gPTE_GetIndex`, paging `nPTEnergy_DataInfo` | clock, HMI clear, host | months over year ends, clear between two reads of the base, power loss, repeated minutes | each month saved once and kept; a query subtracts two records of one era; the last-flag is honest |
| Settings (`APP/app_Optimset.c`) | `Optimset_st`, `ucBranchSet_a`, password, in RAM and FRAM | `Opt_Init`, `Opt_Save`, `Opt_PWSave`, `Opt_BranchSet_Save` | written by HMI and host, read by all | flag before data | a boot loads what was saved last |
| Host protocol (`APP/app_PCProto.c`) | frame under construction, `ucPCProto_DataFlag`, positions of the two pagings | `gPCProtoHandle` and one `n..._DataInfo` per command | UART, log, energy, settings, scan | data flag changed by three tasks; transmit buffer freed under the DMA; static paging flags | a reply answers its request; a change is announced; paging delivers every record |
| Serial ports (`BSP/bsp_UART.c`) | one DMA buffer and one queue of 10 per port | idle interrupt `UART_Rx_IDLE`, DMA transmit | PC and SUB task | reception restarted into the buffer being parsed; the idle stops the transmitter too; a reception that is not restarted | a reply answers its request; the port recovers |
| Branch link (`APP/app_SUBProto.c`) | `ucSUB_SWRec`, `ucBranchState_a`, poll position | `SUB_Transmit`, `SUB_Receive`, `SUB_BranchState` | Data task polls, SUB task decodes | lost, late and garbled answers into one buffer; a setup that changes between judging and filling | what is known of a module is a state it had, never an older one; a branch shows its module's last answer |
| Acquisition (`APP/app_Acquisition.c`) | measured values, energy registers, demand | `Acq_BusVar`, `Acq_BusState`, `Acq_RTEnergy`, `Acq_EnergyClear`, `Acq_Req`, `Acq_MAXClear` | metering chips, FRAM | sum against clear | registers restart at a clear |
| TCP client and Ethernet task (`APP/app_TCPClient.c`, `USR/sys_Tasks.c:203`) | one `echoclient`, its pbuf; cable state | lwIP callbacks, link supervision | lwIP | lwIP drops connections silently; pools run empty; retries | the structure lives as long as the callbacks; a message is sent once; the server's close is followed |
| Checksums (`APP/Function.c`) | none | CRC16, sums, ASCII/hex | both protocols | widths, characters that are no digits | a byte arrives as itself; a length carries its check |
| Tasks, watchdog (`USR/`, `BSP/bsp_IWDG.c`) | tasks, queues | creation, loops, idle hook | all | starvation, queues created after the tasks | the dog is fed while all tasks run |
| HMI windows, display, touch, RTC, USB, Ethernet drivers | screens, hardware | | | | not modelled: I/O |
| LIB, freeRTOS, LwIP, FatFs, RTT, STemWin, Fonts, Proj | | | | | vendored |

`PROJECT.json` lists the components with their status and the hazards at their lines.

## 2. The modules

### AlarmLog

The ring, cut at every FRAM transfer of the Data task and at the load and the
store of `AlmIndex++`. `slot`, `fmInit`, `fmRelate` are FRAM; `full`, `idx`,
`rec`, `LAlmState` RAM; `pc`, `ev`, `new`, `addr`, `tmp` the Data task inside
`AlmComp`. `DetectAlarm`/`DetectNormal` are the judges' calls (any event whose
state changed), `GenWrite ... GenPersist` are `Alm_Generate`, `ScanLow`,
`ScanHigh`, `TermMark` are `Alm_Terminate` (a search is one step: no other task
changes a record), `Boot...` is `AlmRelate_Init`, `RecordClear` the HMI's
`Alm_RecordClear`. `PowerFail` may stop a transfer after any byte that matters;
`PowerFailInClear` does so inside the clear. A record keeps event, type and
flag; times are left out. A slot of the zeroed FRAM reads as event 0, which is
`AUa`, with a flag that is neither generate nor terminate (`Blank`). The state a
judge hands to `AlmComp` is read back from the real-time window after a clear may
have moved its index (`ReadBack`, `app_Alarm.c:320`). `fresh`, `cut` and `known` are history variables: the
slots written since the log was last emptied, whether that emptying interrupted
a generate, and the events whose alarm came up since the last reset (of an alarm
that was up at a reset the unit knows nothing any more: when it ends, its record
stays open).

`GenWrap` allows the compiler to compare the register or to read `AlmIndex`
again: a build may do either.

`EndedIsClosed` excepts one event, because the code does. The search of a full
ring starts one slot behind it (`app_Alarm.c:898`). If the record to close is not
below `AlmIndex` and the bytes there read as the event that ended, which zeroed
ones do for `AUa`, they are marked and the record in the ring stays open, although
the comment at `app_Alarm.c:817` says that the end of an alarm updates its record.
Without the exception TLC finds a behaviour of 26 states.

### AlarmScan

One pass of `Alm_AllHandler` in five phases (bus switches, bus A, bus B,
branches, lamp); between phases the SUB task may change a branch reading and the
HMI the setup. Events carry the numbers of `AlmEventTypeDef`, cells the
positions of `gAlmMessage`, because the code computes one from the other and
gets it wrong for absent bus switches (`app_Alarm.c:585` indexes `BranchAlm` by
`AlmEvent - 32` for events 9, 18 and 19 as well). Readings are the level a value
is judged as, or "Absent" (0x20) or "Unused" (branch states 2 and 3). A judge
acts only on a level that differs from the last one. The thresholds are in the
reading. The log and the window that `AlmComp` feeds are other modules.
`gAlmMessage` gets the judged level, `LAlmState` the one read back from the window
(`KeepStates`), which after an HMI clear may be another alarm's level. When the
value later takes that level the scan finds nothing new and the indication keeps
the level before. `crossed` is the set of events this has happened to, `steady`
that the unit was never less than a full one with both lightning arresters;
`IndicationCurrent` says of such a unit that alarm or no alarm is always indicated
right, and the level except for `crossed`.

### EnergyHistory

A month is `year * 256 + month` as in the code, in a small calendar (2 months a
year, base 4). The energy registers are their era (the number of clears before):
a difference is a consumption iff both records are of one era. `gPTE_Save` is cut
at the writes of the base, the reads of the base for comparison and for the
address, the record and the flag. `EnergyClear` is the HMI's
`Acq_EnergyClear; gPTE_BaseTime`. `Tick` is the clock: it leaves the minute 00:00
only after the Data task (every 200 ms) saw it, unless the power is off or the
save is not due. The host pages back with commands 0, 1, 2; `HostAsk` computes
position and last flag, `HostQuery` is `gPTE_Query`; in between only the HMI can
run. `saved`, `steady`, `first`, `sent`, `answer` and `baseEra`, the era when the base
was last set, are history variables.

A save that goes to -1 (run `energy_block`) writes the header as well: the
initialised flag is gone and base month and saved flag are anything (`SaveWrite`).
RAM still holds the right ones, so everything is kept until the power fails; then
the next boot takes the defaults and the history is lost. `SavedKept` says so
(`pc = "off" => fmInit`) and `BootDefaults` empties `saved`. The model takes it
that energies never read as 0x55AA in the two bytes of the flag. Power lost inside
a clear leaves registers of a new era over a base of the old one (`baseEra # era`):
months saved before stay readable, and a query across that clear subtracts readings
of two eras, which `QueryHonest` excepts. The write of flag and defaults by
`gPTE_Init` is one step. The clock only goes forward: a host that sets it back is
not modelled.

### AlarmPaging

Extends AlarmLog by the PC task's `nPTAlarm_DataInfo` and its statics. A command
(`AskNewest`, `AskNext`, `AskAgain` for 0, 1, 2) is one step: the PC task
preempts the Data task between any two of its steps, so a host may page while a
record is written and not counted, or while `AlmIndex` stands at the end of the
ring; the HMI's clear may land inside a command but changes no record. `LogStep`
is any step of the log; a reset clears the statics. The environment is a host
that begins with command 0 and sends 1 only as long as no answer was flagged the
last. `session` and `due` are history variables: whether the flag was clear when
the host began, and which records it still has to get.

### TcpClient

One action per callback of lwIP, which runs without an OS: all of them, and the
cable supervision, run in the ETH task one at a time. Variables are lwIP's
control blocks with their callback argument, whether the client's callbacks are
set, and the message in flight; the `echoclient` structures and the message
buffers; the cable and `Cable_state`. lwIP may drop a connection at any time
(`Dropped`) and no error callback is registered, so nobody frees its structure:
the pools of the model do run empty, which leads to `ConnectedNoStruct`.
`PBUF_POOL` also holds the frames received (`BSP/ethernetif.c:467`), so
`ConnectedNoPbuf` may come at any connection. The model shows what the code does without a promise to hold
it against: a failed `tcp_connect` leaves its control block allocated; a close
with a message pending loses its buffer; without a buffer the connection stays
open without callbacks; a new connection is made only after the cable was
pulled.

### UartPort

One serial port, instantiated by HostLink and SubLink. Reception is two steps
(first byte, idle after the last), because between them the buffer holds neither
the old frame nor the new one. `Idle` is `UART_Rx_IDLE`: it stops both
directions, restarts the reception unless a task is inside
`HAL_UART_Transmit_DMA`, and puts a pointer to the one buffer in the queue. An
error of the line stops the reception until the next idle.

### HostLink

The host asks and waits; the PC task takes a message (`PcGet`), copies and checks
the frame (`Copy`), compares the checksum with what the buffer holds then
(`Sum`), handles it (`Answer`) and sends it from a buffer it has freed
(`SendLock`, `SendStart`, or `SendBusy` while the last reply is still going out).
`MayOverwrite` is the freed buffer: what the next reply is built in may be what
the DMA still sends. The Data task and the SUB task update `ucPCProto_DataFlag`
by a load and a store, and run only while the PC task waits (priorities).
Alarms and branches are numbers of changes. `AlmChange` is a judge that found an
alarm or its end; `AlmAbsent` the early return that writes 0x20 for what the setup
leaves out (`app_Alarm.c:291-295`) and sets no bit: `AlarmAnnounced` is about the
last change of the first kind (`judged`). `SUB_BranchState` judges the branches
(`BranchChange`), then decides with an uninitialised array whether there was a
change (`SubLoad`), and may therefore set the bit without one or not set it for
one; the PC task may run between the two. A parameter has values the device
refuses (`Refused`) with another return code, which ends the host's request. The
HMI as second writer of the parameters is not modelled.

The host reads all alarms in one command (group 0xFF). A host that reads bus and
branch alarms separately loses announcements, since each read clears the one
bit. Commands without effect on the state and unknown commands (whose length is
uninitialised) are left out. `Patient` is a host that never repeats a request
while the device still works on the last one; for an impatient one replies have
no mark of their request and the code can promise nothing but `Answered`.

### Telemetry, SubLink

Telemetry is the promise of a polled link, in a dozen lines: of each unit a state it
had is known, never an older one than before, never another unit's. SubLink is
the link to the four branch modules and implements it (`IsTelemetry`, view
mapped to `ucSUB_SWRec`) as long as no bytes reach the buffer between the check
of an answer and its copy. A module's switches are the number of their state.
`Poll`/`PollSend` is `SUB_Transmit` of the Data task, which runs only while the
SUB task waits; `SubGet`, `Check`, `Copy` are `SUB_TaskFun` and `SUB_Receive`;
`Judge` and `Fill` are `SUB_BranchState`, cut where the HMI may change the setup.
An answer may be late by less than two polls. The 36 branches of a module are
one, a quarter; `RowModule` is the crossing of modules 2 and 3 in mode S.

### RtWindow

The window the HMI lists, cut at every access: the index is volatile and read
again for each field, and the clear sets it to 0 in between. `recent` is the
list of changes it should show; `cut` tells whether the last clear fell into a
change, after which the window may show one record too many. `AlarmStaysAlarm` is about
`app_Alarm.c:320`: the kind `AlmComp` reads back may then be another alarm's, but
never "normal", so no clear turns an alarm into an end.

### Function

Operators, no state: the two tables and conversions of hexadecimal characters and
the length word of a host frame, 16 bits wide. Characters that are no digits read
as 0. What is proved of them is in `HostLinkProofs`, with the link whose frames they
make. CHKsum and CRC16, sums over a whole frame, are not operators here: a frame
is either whole or `Garbage` in HostLink and SubLink.

## 3. The runs

| run | expects | shows |
|---|---|---|
| `log` | pass | with clears and power failures, torn writes included: `TypeOK`, `RingWritten`, `WriteInRing`, `Durable`, `ClearedStaysCleared`, `ActiveIsOpen`, `EndedIsClosed`, `ClosesNewest` |
| `paging` | pass | log and host together, under the same faults: `PagingTypeOK`, `HostReadsRecords`, `EveryRecordSent`, `TerminateFollows` |
| `log_clear_empties` | violation | a clear between the record's write and `AlmIndex++` leaves one old record readable ("clear past time alarm record") |
| `paging_newest` | violation | once the log was found empty, command 0 answers zeros for ever ("0x00 - get the newest history alarm") |
| `scan` | pass | `TypeOK`, `MsgCoversAlarm`, `LampOnWhileAlarm` with the setup changing, `IndicationCurrent`, `LampGoesOff` on a fully fitted unit, with clears that hand `AlmComp` another alarm's level |
| `scan_lamp` | violation | with branches not fitted, the lamp stays on after every alarm has ended |
| `energy` | pass | `TypeOK`, `SavedKept`, `MonthSaved`, `QueryHonest`, `LastIsSound` over two years with two clears, a struck header and power failures |
| `energy_block` | violation | an energy clear between comparison and address makes a save address the bytes before the records, the header among them |
| `tcp` | pass | `CallbackOwnsStruct`, `BufferOwned`, `MessageOnce`, `ServerCloseFollowed` with connections dropped at any point and pools that run empty |
| `host` | pass | `TypeOK`, `ReplyFits`, `SetConfirmed`, `AlarmAnnounced`, `BranchAnnounced`, `Answered` on a disturbed line |
| `sub` | pass | `TypeOK`, `PriorityProtects`, `BranchShown`, the refinement `IsTelemetry`, `RestIsLearnt` |
| `window` | pass | `TypeOK`, `WindowIsRecent`, `AlarmStaysAlarm` with a clear between any two accesses |

Bounds and why they are enough. AlarmLog: 3 slots let the ring fill, wrap and
overwrite; `ByteBase` 2 makes the index a two-byte value that can tear; two
events let one alarm's end meet the other's records. Everything in the module
is symmetric in slots except first, last and the wrap, all of which occur. The
FRAM leaves the factory zeroed, behind the ring as well, and one of the two events
is `AUa`, which zeros read as; with a pair left by another firmware, power lost
between flag and default pair (`app_Alarm.c:89`) makes the next boot trust those
bytes, which no run shows.
AlarmPaging: 3 slots and two events, so that a page back crosses the end of the
ring, a slot is reused under the host and two records can be told apart.
AlarmScan: one analog value, one branch and the two bus switches (whose wrong
cell is the interesting one) with all levels a class of event can have; the scan
treats events independently but for the level read back, of which every other
event's is tried. EnergyHistory: two years of two months contain
year ends, a December base (month = `Months`), and a wrap-free `Word`; two
clears (`MaxEra` 3) let one fall into a save and the other into what follows,
power failures are unbounded; `energy_block` needs only the first (`MaxEra` 2).
TcpClient: two control blocks and buffers and three structures, so that a second
connection meets what the first left behind, and pools run empty. HostLink: two
values of the parameter tell a set from the set before, a third is refused;
`MaxAlm` and `MaxIo` 1 are a change before, during or after any read, by both
tasks at once; one disturbance (`MaxNoise`) and one
early repetition (`MaxRush`) at any point, and a queue of one that is full at
the next frame. SubLink: all four modules answer, the switches of one move
(module 2, which mode S crosses); one disturbance; three setups: both orders of
the modules, in use and not, and no branches. RtWindow: 3 places, so that first,
middle and last differ; two events with two kinds of alarm.
Deadlock is checked in every run: in none of them can the system stop.

Fairness. `FairSpec` of AlarmScan has weak fairness of `Scan` alone: the Data
task's loop runs every 200 ms; the higher tasks wait on queues, `osDelay` and
`GUI_Delay`. The exception is the touch calibration at boot, a loop of the
highest task that runs before the windows appear; the properties are about the
unit after it. TcpClient has weak fairness of the two halves of the poll, which
lwIP calls every half second while callbacks are set; that the retry succeeds
at one of them is part of it, because segments in flight leave the heap when
they are acknowledged or the connection is dropped. HostLink: the PC task runs,
an idle follows every frame, a DMA transmission ends, and the host repeats what
is not answered. SubLink: both tasks run, an idle follows every frame, and,
strongly, a module polled again and again hears and answers again and again in
time. No fairness is assumed of inputs, disturbances or the HMI.

`EveryRecordSent` is about sessions begun with the last flag clear, because the
code never clears it again. It does not say that the flag ever comes: with one
record, or with `AlmIndex` at the last slot of a full ring, it does not.

Two properties of the scan are conditional on `FullUnit`, because the code fails
them otherwise, which `scan_lamp` shows. `BranchAnnounced` excepts two ways in
which the code does lose the bit of the branches: the uninitialised copy, and a
write of the SUB task between the Data task's load and store (`lost`). The bit of
an alarm or its end is not lost so: the SUB task finishes its update before the
Data task goes on, and the PC task both. An alarm that leaves the message because
the setup does is never announced.

## 4. The proofs

Every invariant and every action property a passing run checks is also a theorem,
and so is the refinement. They hold for every value of
the constants that satisfies the assumptions named in the modules; where one has
a hypothesis of its own, it is given here. Except where a property is inductive as
it stands, the proof goes by an invariant that the module states and explains.

`AlarmLogProofs` (the FRAM may have any size and content unless said otherwise)

| theorem | property | hypothesis |
|---|---|---|
| `TypeCorrect` | `TypeOK` | |
| `DurablePair` | `Durable` | |
| `ClosesOnlyNewest` | `ClosesNewest` | |
| `RingNeverExposesBlank` | `RingWritten` | FRAM leaves the factory zeroed |
| `GenerateStaysInRing` | `WriteInRing` | the same |
| `ClearIsPermanent` | `ClearedStaysCleared` | the same |
| `ActiveAlarmIsOpen` | `ActiveIsOpen` | the same |
| `EndedAlarmIsClosed` | `EndedIsClosed` | the same; the bytes behind the ring are anything |

  `IndexInv` says where `AlmIndex` may stand at the end of the ring, in RAM and
  FRAM; `Durable` follows. `RingInv` says, for each value of `pc`, which slots the
  pending index, the register and the saved pair make readable, torn pairs
  included: the pair on its own is not inductive, because a clear in the middle of
  a generate breaks the order "record first, index second". `SearchInv` says where
  the newest record of the ended event can still be while a search runs.
  `ClosesNewest` needs nothing else, whatever the ring holds. That the *right*
  state is found needs two more: `RoleInv`, what event and flag the Data task
  carries from step to step, and `NewestInv`, that of every event the newest
  record is open while the alarm is up and closed after it. That there is a newest
  record, and that the one the search meets first is it, is where the ring is
  compared with the order of ages (`AgeOrder`, by well-foundedness of a finite
  set).
  The hypothesis is not for convenience: a pair left by other firmware is trusted
  after a power failure at `app_Alarm.c:91`. Of the bytes behind the ring nothing
  is assumed; the statement excepts the event they read as.

`AlarmPagingProofs`: `PagingTypeCorrect` (`PagingTypeOK`), `HostGetsRecords`
  (`HostReadsRecords`), both over a ring that starts zeroed; `TerminateIsNext`
  (`TerminateFollows`) and `LastMeansAll` (`EveryRecordSent`) over any. A command
  leaves the log alone, so AlarmLog's invariants carry over. `WalkInv`: every slot
  from 0 to the host's position was written, because it began at a readable slot,
  the ring is written in order and no step, torn write or clear makes a slot blank
  again; an empty log sets the last flag, which keeps the host from walking at all.
  `PartInv`: the record read last is closed only until its terminate part is sent.
  `DueInv`: every record still due lies ahead of the host on its way down and
  around the ring, whatever is written behind it, and the walk stops at the last.

`AlarmScanProofs`: `ScanTypeCorrect`, `AlarmIsReported` (`MsgCoversAlarm`),
  `LampStaysOn` (`LampOnWhileAlarm`), `IndicationsFollow` (`IndicationCurrent`).
  `AlarmIsReported` and `LampStaysOn` rest on the fact that an absent
  bus switch's cell holds either its own level or "Absent" and that no judge writes
  "Normal" to a cell without writing it to `LAlmState`. The lamp needs both: it is
  switched off only when all cells are normal. `IndicationsFollow` goes by what each
  phase has brought up to date, on a complete unit,
  where no absent switch writes another's cell.

`RtWindowProofs`: `WindowTypeCorrect` (`TypeOK`, that `RTAlmIndex` is inside the
  window whenever a field is written included), `WindowShowsRecent`
  (`WindowIsRecent`), `AlarmNeverTakenForEnd` (`AlarmStaysAlarm`), for a window of
  any size. `ChangeInv` says for each step of a
  change what the window still holds and which fields of the new record are filled,
  as long as no clear cut into it.

`EnergyHistoryProofs`: `HistoryTypeCorrect` (`TypeOK`), `SavedMonthIsKept`
  (`SavedKept`), `EveryMonthIsSaved` (`MonthSaved`), `QueryIsHonest`
  (`QueryHonest`), `LastAnswerIsSound` (`LastIsSound`), for any number of months in
  a year, any year base above it and any word that holds them. They are proved from
  one invariant `IInv`, whose parts need each other: `BaseInv` (RAM and FRAM agree
  on a base not after the clock, unless the header was struck), `SaveInv` (what a save overtaken by a clear may
  write, and where), `AskInv` (the months the PC task has computed), `SavedKept`,
  `MonthInv` (the flag of this month goes up only once the month is saved) and
  `SessionInv` (of the months from the first asked down, the host has those after
  its position). Below it lies the arithmetic of `year * 256 + month`: months are
  ordered as their count, different months of the history have different addresses,
  and a step back by the host skips none (`MonthOrder`, `AddrDistinct`,
  `PrevSkipsNone`). `CalendarAssumption` says that a word is a whole number of
  years (the year is its high byte), without which the first step back from 0 would
  wrap to a number that is no month of any year.

`HostLinkProofs`: `HostTypeCorrect` (`TypeOK`), `HostTakesOwnReply` (`ReplyFits`),
  `SetIsConfirmed` (`SetConfirmed`), `AlarmsAreAnnounced` (`AlarmAnnounced`),
  `BranchesAreAnnounced` (`BranchAnnounced`), for any parameter values, numbers of
  changes and disturbances and any queue. For a patient host there is one request at
  a time and it is the host's (`OneRequest`, `OwnRequest`), wherever it is; a reply
  under way says what is true, or what has changed since is announced (`Fresh`); a
  task about to write the flag writes the other's bit back (`BitsKept`). Nothing of
  this holds of an impatient host. The module also proves `BytesArrive` and
  `LengthIsChecked` of the operators of `Function`, for every byte and every length;
  they are arithmetic of digits, and no run evaluates them.

`TcpClientProofs`: `ClientTypeCorrect` (`TypeOK`, which no run repeats), `CallbacksAreSafe`
  (`CallbackOwnsStruct`), `ClientMemorySafe` (`BufferOwned`),
  `MessageIsWrittenOnce` (`MessageOnce`), for any pools. The four are inductive
  together with `Phases`: only a connection that is or was established has
  callbacks, one still connecting has nothing in flight, and a free structure holds
  no buffer.

`SubLinkProofs`: `SubTypeCorrect`, the refinement `LinkIsTelemetry`
  (`IsTelemetry`), `BufferProtected` (`PriorityProtects`), `BranchesShown`
  (`BranchShown`), for any number of states, disturbances and setups. That no older
  answer replaces a newer one is a matter of order along the way of an answer:
  `Turns` says whose answers can be due, late and on the line at the same time,
  `Ordered` that answers on the way are no older than the one in the buffer and that
  one no older than what is known, `Receiving` that a frame is received over a
  buffer of no use or over the same bytes. `OneAtATime`: between a poll and the end
  of the judging only one of frame, message and copy exists.

Model-checked only: the liveness properties (`LampGoesOff`,
`ServerCloseFollowed`, `Answered`, `RestIsLearnt`), because the provers here reason
neither about fairness nor about ENABLED; and the four properties the code does not
have. Induction over data is out of reach too, so nothing is proved of a checksum
over a whole frame.

## 5. The plan

In this order; no module that is proved about declares a RECURSIVE operator.

1. Refinements: the log implements an append-only list with clear, the energy
   history a map from months to readings, the paging a reader of that list.
2. Settings: boot, save and the two writers of the settings; the parameters of
   `nSet_DataInfo` one by one.
3. Function: CHKsum and CRC16 against polynomial definitions, over bounded frames.

Not modelled, and why: float arithmetic (RMS, THD, demand, thresholds), which
TLC has no values for; drawing, touch sampling and chip drivers, which are I/O
without shared state; DHCP (`app_ETH.c`), which is not compiled; vendored
libraries (most of the repository's lines), which are the environment.
