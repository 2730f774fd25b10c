----------------------------- MODULE HwSysProofs -----------------------------
(***************************************************************************)
(* Proofs about HwSys: its type invariant, that the count of failed polls  *)
(* stays at three or less, that settings which do not meet are delivered,  *)
(* and that no change is logged that did not happen.                       *)
(***************************************************************************)
EXTENDS HwSys, TLAPS

\* What the assumption says of the table.
LEMMA TableFacts ==
  /\ Table[1] \in Regs
  /\ MaxValue \in Nat /\ MaxValue > 0
  /\ HiPeriod \in Nat /\ HiPeriod > 0 /\ LowPeriod \in Nat /\ LowPeriod > 0
  /\ MaxTransfer \in Nat /\ MaxTransfer > 0
  /\ MaxI2cError \in Nat /\ Pace \in Nat
  /\ HiRegs \subseteq Regs /\ LowRegs \subseteq Regs /\ Settable \subseteq Regs
<1>1. Len(Table) \in Nat /\ 1 \in 1..Len(Table)
  BY HwSysAssumption
<1>2. Table[1] \in Regs
  BY <1>1 DEF Regs
<1>3. QED
  BY <1>2, HwSysAssumption

LEMMA UnsetFact ==
  /\ Unset \in Nat /\ Unset > 1 /\ Unset \notin Values
  /\ NoPair \in [addr : Regs, val : Values \cup {Unset}] /\ NoPair.val = Unset
BY TableFacts DEF Unset, Values, NoPair

LEMMA TypeInit == Init => TypeOK
<1> SUFFICES ASSUME Init PROVE TypeOK
  OBVIOUS
<1> USE DEF Init
<1>1. 0 \in Values
  BY TableFacts DEF Values
<1>2. watched \in [Regs -> BOOLEAN] /\ polled \in [Regs -> BOOLEAN] /\ early \in [Regs -> BOOLEAN]
  OBVIOUS
<1>3. timer \in [Dumps -> Nat] /\ spent \in 0..MaxTransfer /\ errorCount \in 0..MaxI2cError
  BY TableFacts DEF Dumps
<1>4. slot \in Settings /\ req \in Settings \cup {NoPair}
  BY <1>1, TableFacts DEF Settings
<1>5. {calls, edits, outages, jumps, since} \subseteq Nat
  BY TableFacts
<1>6. QED
  BY <1>1, <1>2, <1>3, <1>4, <1>5, UnsetFact DEF TypeOK, Dumps, Writing, Blocking

LEMMA TypeMain == ASSUME TypeOK, MainStep PROVE TypeOK'
<1> USE TableFacts, UnsetFact DEF TypeOK
<1> USE DEF table, mailbox, com, events, world, history, Dumps, Writing, Blocking
<1>1. CASE open_i2c
  BY <1>1 DEF open_i2c, Opened
<1>2. CASE StartRead
  BY <1>2 DEF StartRead
<1>3. CASE ReadFails
  BY <1>3 DEF ReadFails, mainHandler, timer_set, Period
<1>4. CASE ReadDone
  BY <1>4 DEF ReadDone, mainHandler, timer_set, Period, i2c_parse_tlv
<1>5. CASE StartWrite
  BY <1>5 DEF StartWrite, Settings
<1>6. CASE WriteCopy
  BY <1>6 DEF WriteCopy, Settings
<1>7. CASE WriteIoctl
  BY <1>7 DEF WriteIoctl, McuChanges, Settings
<1>8. CASE WriteClear
  <2>1. write_flag' \in BOOLEAN
    BY <1>8 DEF WriteClear, FlagAfterWrite
  <2>2. errorCount' \in 0..MaxI2cError /\ mainPc' \in {"loop", "reset"}
    BY <1>8 DEF WriteClear, mainHandler
  <2>3. QED
    BY <1>8, <2>1, <2>2 DEF WriteClear
<1>9. CASE StartSleep
  BY <1>9 DEF StartSleep
<1>10. CASE EndSleep
  BY <1>10 DEF EndSleep, mainHandler
<1>11. CASE gpio_resetIoMcu
  BY <1>11 DEF gpio_resetIoMcu
<1>12. QED
  BY <1>1, <1>2, <1>3, <1>4, <1>5, <1>6, <1>7, <1>8, <1>9, <1>10, <1>11 DEF MainStep

LEMMA TypeCom == ASSUME TypeOK, ComSet \/ ComEmpty \/ SetStep PROVE TypeOK'
<1> USE TableFacts, UnsetFact DEF TypeOK
<1> USE DEF table, mailbox, main, com, events, world, history, Dumps, Writing, Blocking
<1>1. CASE ComSet
  <2>1. overlap' \in BOOLEAN /\ hasty' \in BOOLEAN /\ fate' \in {"waits", "taken", "lost"}
    BY <1>1 DEF ComSet, BeginSet
  <2>2. req' \in Settings
    BY <1>1 DEF ComSet, BeginSet, Settings
  <2>3. calls \in Nat /\ calls' = calls + 1
    BY <1>1 DEF ComSet
  <2>4. QED
    BY <1>1, <2>1, <2>2, <2>3 DEF ComSet, BeginSet
<1>2. CASE ComEmpty
  <2>1. req' = req /\ req \in Settings /\ comPc' = "copy"
    BY <1>2 DEF ComEmpty
  <2>2. calls \in Nat /\ calls' = calls + 1
    BY <1>2 DEF ComEmpty
  <2>3. QED
    BY <1>2, <2>1, <2>2 DEF ComEmpty
<1>3. CASE CopyHalf
  BY <1>3 DEF CopyHalf, Settings
<1>4. CASE CopyRest
  BY <1>4 DEF CopyRest
<1>5. CASE Store
  BY <1>5 DEF Store, Settings
<1>6. CASE RaiseFlag
  BY <1>6 DEF RaiseFlag
<1>7. QED
  BY <1>1, <1>2, <1>3, <1>4, <1>5, <1>6 DEF SetStep

LEMMA TypeRest ==
  ASSUME TypeOK,
         \/ \E r \in Regs : i2c_events_handler(r)
         \/ Tick \/ ClockSet \/ InputChanges \/ BusDown \/ BusUp
  PROVE  TypeOK'
<1> USE TableFacts, UnsetFact DEF TypeOK
<1> USE DEF table, mailbox, main, com, events, world, history, Dumps, Writing, Blocking
<1>1. CASE \E r \in Regs : i2c_events_handler(r)
  BY <1>1 DEF i2c_events_handler, handler
<1>2. CASE Tick
  BY <1>2 DEF Tick, Less
<1>3. CASE InputChanges
  BY <1>3 DEF InputChanges, McuChanges
<1>4. CASE BusDown
  <2>1. bus' \in BOOLEAN
    BY <1>4 DEF BusDown
  <2>2. outages \in Nat /\ outages' = outages + 1
    BY <1>4 DEF BusDown
  <2>3. QED
    BY <1>4, <2>1, <2>2 DEF BusDown
<1>5. CASE BusUp
  <2>1. bus' \in BOOLEAN
    BY <1>5 DEF BusUp
  <2>2. QED
    BY <1>5, <2>1 DEF BusUp
<1>6. CASE ClockSet
  <2>1. jumped' \in BOOLEAN
    BY <1>6 DEF ClockSet
  <2>2. timer' \in [Dumps -> Nat]
    BY <1>6 DEF ClockSet
  <2>3. jumps \in Nat /\ jumps' = jumps + 1
    BY <1>6 DEF ClockSet
  <2>4. QED
    BY <1>6, <2>1, <2>2, <2>3 DEF ClockSet
<1>7. QED
  BY <1>1, <1>2, <1>3, <1>4, <1>5, <1>6

LEMMA TypeStep == TypeOK /\ [Next]_vars => TypeOK'
<1> SUFFICES ASSUME TypeOK, [Next]_vars PROVE TypeOK'
  OBVIOUS
<1>1. CASE UNCHANGED vars
  BY <1>1 DEF TypeOK, vars, table, mailbox, main, com, events, world, history
<1>2. QED
  BY <1>1, TypeMain, TypeCom, TypeRest DEF Next

\* The type invariant of the hardware monitor, for any table of registers, any
\* periods and any number of clients, changes and outages.
THEOREM HwTypeCorrect == Spec => []TypeOK
<1>1. QED
  BY TypeInit, TypeStep, PTL DEF Spec

-----------------------------------------------------------------------------
(***************************************************************************)
(* The count of failed polls.  After a poll its own timer is not due, so   *)
(* polls in a row alternate; and as long as no poll lasts LowPeriod, the   *)
(* low priority dump is not due again after the poll that follows it.      *)
(***************************************************************************)
AtLoop ==
  mainPc = "loop" =>
    \/ errorCount = 0
    \/ /\ prio = "hi" /\ timer["hi"] > 0 /\ errorCount <= 3
       /\ errorCount >= 2 => timer["low"] > 0
    \/ prio = "low" /\ timer["low"] = LowPeriod /\ errorCount <= 2

AtRead ==
  mainPc = "read" =>
    /\ spent < LowPeriod
    /\ prio = "hi" => \/ errorCount = 0
                      \/ errorCount <= 2 /\ timer["low"] + spent >= LowPeriod
    /\ prio = "low" => errorCount <= 1

CountInv ==
  ~slow /\ ~jumped =>
    /\ errorCount <= 3
    /\ AtLoop /\ AtRead
    /\ mainPc \in {"loop", "copy", "clear"} => spent = 0
    /\ mainPc \in {"open", "reset"} => errorCount = 0

\* The history variables remember.
LEMMA HistoryKept == ASSUME [Next]_vars PROVE (slow => slow') /\ (jumped => jumped')
<1> USE DEF main, com, events, world, history
<1>1. CASE Tick
  <2>1. jumped' = jumped /\ slow' = (slow \/ (mainPc = "read" /\ spent + 1 >= LowPeriod))
    BY <1>1 DEF Tick
  <2>2. QED
    BY <2>1, Zenon
<1>2. CASE ClockSet
  <2>1. slow' = slow /\ jumped' = (jumped \/ write_flag \/ errorCount > 0)
    BY <1>2 DEF ClockSet
  <2>2. QED
    BY <2>1, Zenon
<1>3. ASSUME ~Tick, ~ClockSet PROVE slow' = slow /\ jumped' = jumped
  BY <1>3 DEF Next, MainStep, SetStep, vars, open_i2c, StartRead, ReadFails, ReadDone,
     StartWrite, WriteCopy, WriteIoctl, WriteClear, StartSleep, EndSleep, gpio_resetIoMcu,
     ComSet, ComEmpty, CopyHalf, CopyRest, Store, RaiseFlag, i2c_events_handler,
     InputChanges, BusDown, BusUp
<1>4. QED
  BY <1>1, <1>2, <1>3

LEMMA CountStep == TypeOK /\ CountInv /\ [Next]_vars => CountInv'
<1> SUFFICES ASSUME TypeOK, CountInv, [Next]_vars, ~slow', ~jumped' PROVE CountInv'
  BY DEF CountInv
<1> USE TableFacts DEF CountInv, AtLoop, AtRead
<1> USE DEF table, mailbox, main, com, events, world, history, Dumps
<1>0. ~slow /\ ~jumped
  BY HistoryKept
<1>t. /\ errorCount \in Nat /\ spent \in Nat /\ timer["hi"] \in Nat /\ timer["low"] \in Nat
      /\ prio \in {"hi", "low"} /\ DOMAIN timer = {"hi", "low"}
  BY DEF TypeOK
<1>1. CASE open_i2c
  BY <1>0, <1>1, <1>t DEF open_i2c
<1>2. CASE StartRead
  BY <1>0, <1>2, <1>t DEF StartRead, Due
<1>3. CASE ReadFails \/ ReadDone
  <2>1. PICK failed \in BOOLEAN : mainHandler(failed)
    BY <1>3 DEF ReadFails, ReadDone
  <2>2. /\ timer'[prio] = Period(prio) /\ prio' = prio /\ spent' = 0 /\ mainPc = "read"
        /\ \A d \in Dumps : d # prio => timer'[d] = timer[d]
    BY <1>3, <1>t DEF ReadFails, ReadDone, timer_set, TypeOK
  <2>3. QED
    BY <1>0, <2>1, <2>2, <1>t DEF mainHandler, Period
<1>4. CASE StartWrite \/ WriteCopy \/ StartSleep
  BY <1>0, <1>4 DEF StartWrite, WriteCopy, StartSleep
<1>5. CASE WriteIoctl
  BY <1>0, <1>5 DEF WriteIoctl
<1>6. CASE WriteClear
  BY <1>0, <1>6 DEF WriteClear, mainHandler
<1>7. CASE EndSleep
  BY <1>0, <1>7 DEF EndSleep, mainHandler
<1>8. CASE gpio_resetIoMcu
  BY <1>0, <1>8 DEF gpio_resetIoMcu
<1>9. CASE Tick
  <2>1. /\ timer'["low"] = IF timer["low"] = 0 THEN 0 ELSE timer["low"] - 1
        /\ spent' = spent + 1 /\ mainPc' = mainPc /\ prio' = prio /\ errorCount' = errorCount
        /\ mainPc \in Blocking
    BY <1>9 DEF Tick, Less
  <2>2. mainPc = "read" => spent + 1 < LowPeriod
    <3>1. ~(mainPc = "read" /\ spent + 1 >= LowPeriod)
      BY <1>9, Zenon DEF Tick
    <3>2. QED
      BY <3>1, <1>t
  <2>3. AtRead'
    BY <1>0, <1>t, <2>1, <2>2
  <2>4. QED
    BY <1>0, <2>1, <2>3 DEF Blocking
<1>10. CASE ComSet \/ ComEmpty \/ SetStep
  BY <1>0, <1>10 DEF ComSet, ComEmpty, SetStep, CopyHalf, CopyRest, Store, RaiseFlag
<1>11. CASE (\E r \in Regs : i2c_events_handler(r)) \/ InputChanges \/ BusDown \/ BusUp
  BY <1>0, <1>11 DEF i2c_events_handler, InputChanges, BusDown, BusUp
<1>12. CASE UNCHANGED vars
  BY <1>0, <1>12 DEF vars
<1>13. CASE ClockSet
  <2>1. errorCount = 0
    <3>1. ~(errorCount > 0)
      BY <1>13, Zenon DEF ClockSet
    <3>2. QED
      BY <3>1, <1>t
  <2>2. UNCHANGED <<mainPc, spent, errorCount>>
    BY <1>13 DEF ClockSet
  <2>3. QED
    BY <1>0, <2>1, <2>2
<1>14. QED
  BY <1>1, <1>2, <1>3, <1>4, <1>5, <1>6, <1>7, <1>8, <1>9, <1>10, <1>11, <1>12, <1>13
     DEF Next, MainStep

LEMMA NoReset ==
  ASSUME MaxI2cError >= 3
  PROVE  TypeOK /\ CountInv /\ WatchdogIsAsleep /\ [Next]_vars => WatchdogIsAsleep'
<1> SUFFICES ASSUME TypeOK, CountInv, WatchdogIsAsleep, [Next]_vars, ~slow', ~jumped'
             PROVE  mainPc' # "reset"
  BY DEF WatchdogIsAsleep
<1> USE TableFacts DEF table, mailbox, main, com, events, world, history
<1>1. ~slow /\ ~jumped /\ mainPc # "reset"
  BY HistoryKept DEF WatchdogIsAsleep
<1>2. CASE \E failed \in BOOLEAN : mainHandler(failed)
  <2>1. mainPc = "read" => errorCount <= 2
    BY <1>1 DEF CountInv, AtRead, TypeOK, Dumps
  <2>2. CASE ReadFails \/ ReadDone
    BY <1>2, <2>1, <2>2 DEF ReadFails, ReadDone, mainHandler, TypeOK
  <2>3. CASE WriteClear \/ EndSleep
    BY <2>3 DEF WriteClear, EndSleep, mainHandler
  <2>4. QED
    BY <1>1, <2>2, <2>3 DEF Next, MainStep, SetStep, vars, open_i2c, StartRead, StartWrite,
       WriteCopy, WriteIoctl, StartSleep, gpio_resetIoMcu, ComSet, ComEmpty, CopyHalf, CopyRest,
       Store, RaiseFlag, i2c_events_handler, Tick, ClockSet, InputChanges, BusDown, BusUp
<1>3. QED
  BY <1>1, <1>2 DEF Next, MainStep, SetStep, vars, open_i2c, StartRead, ReadFails, ReadDone,
     StartWrite, WriteCopy, WriteIoctl, WriteClear, StartSleep, EndSleep, gpio_resetIoMcu,
     ComSet, ComEmpty, CopyHalf, CopyRest, Store, RaiseFlag, i2c_events_handler, Tick, ClockSet,
     InputChanges, BusDown, BusUp

\* The reset of the I/O MCU is out of reach: as long as no poll lasts as long as
\* the low priority period and the clock is not set between failures, errorCount never passes 3, whatever the bus does,
\* while mainHandler waits for more than MAX_I2C_ERROR, which is 5.
THEOREM WatchdogUnreachable ==
  ASSUME MaxI2cError >= 3
  PROVE  Spec => []WatchdogIsAsleep
<1>1. Init => CountInv /\ WatchdogIsAsleep
  BY TableFacts DEF Init, CountInv, AtLoop, AtRead, WatchdogIsAsleep
<1>2. TypeOK /\ CountInv /\ WatchdogIsAsleep /\ [Next]_vars => WatchdogIsAsleep'
  BY NoReset
<1>3. QED
  BY <1>1, <1>2, CountStep, HwTypeCorrect, PTL DEF Spec

-----------------------------------------------------------------------------
(***************************************************************************)
(* Settings.  While no set has overlapped with the one before, the mailbox *)
(* belongs to one thread at a time: to the com thread until the flag is    *)
(* raised, to the main thread until it is cleared.  An empty request that  *)
(* repeats the set finds the same pair in the mailbox.                     *)
(***************************************************************************)
Owned ==
  /\ mainPc \in Writing => write_flag
  /\ comPc \in {"store", "flag"} \/ write_flag => slot = req

Carried ==
  /\ mainPc = "copy" => wr.addr = req.addr
  /\ mainPc = "ioctl" => wr = req
  /\ mainPc = "clear" => fate # "waits"
  /\ comPc = "accept" /\ ~write_flag /\ req # NoPair => fate # "waits"

DeliveryInv == ~overlap => Owned /\ Carried

LEMMA DeliveryStep == TypeOK /\ DeliveryInv /\ [Next]_vars => DeliveryInv'
<1> SUFFICES ASSUME TypeOK, DeliveryInv, [Next]_vars, ~overlap' PROVE (Owned /\ Carried)'
  BY DEF DeliveryInv
<1> USE DEF table, mailbox, main, com, events, world, history, Owned, Carried, Writing
<1>0. ~overlap
  BY DEF Next, MainStep, SetStep, vars, open_i2c, StartRead, ReadFails, ReadDone,
     StartWrite, WriteCopy, WriteIoctl, WriteClear, StartSleep, EndSleep, gpio_resetIoMcu,
     ComSet, ComEmpty, BeginSet, CopyHalf, CopyRest, Store, RaiseFlag, i2c_events_handler,
     Tick, ClockSet, InputChanges, BusDown, BusUp
<1>1. Owned /\ Carried
  BY <1>0 DEF DeliveryInv
<1>2. CASE open_i2c \/ StartRead \/ StartSleep \/ gpio_resetIoMcu
  BY <1>1, <1>2 DEF open_i2c, StartRead, StartSleep, gpio_resetIoMcu
<1>3. CASE ReadFails \/ ReadDone \/ EndSleep
  <2>1. mainPc' \in {"loop", "reset"}
    BY <1>3 DEF ReadFails, ReadDone, EndSleep, mainHandler
  <2>2. UNCHANGED <<slot, write_flag, comPc, req, wr, fate>>
    BY <1>3 DEF ReadFails, ReadDone, EndSleep
  <2>3. QED
    BY <1>1, <2>1, <2>2
<1>4. CASE StartWrite
  BY <1>1, <1>4 DEF StartWrite, TypeOK
<1>5. CASE WriteCopy
  <2>2. slot = req /\ wr.addr = req.addr
    BY <1>1, <1>5 DEF WriteCopy
  <2>1. wr'.addr = req.addr /\ wr'.val = req.val
    BY <1>5, <2>2 DEF WriteCopy, TypeOK
  <2>3. wr' = req
    <3>1. wr' \in Settings /\ req \in Settings
      BY <1>5, <2>2 DEF WriteCopy, TypeOK, Settings
    <3>2. QED
      BY <2>1, <3>1 DEF Settings
  <2>4. QED
    BY <1>1, <1>5, <2>3 DEF WriteCopy
<1>6. CASE WriteIoctl
  BY <1>1, <1>6 DEF WriteIoctl
<1>7. CASE WriteClear
  <2>1. mainPc' \in {"loop", "reset"}
    BY <1>7 DEF WriteClear, mainHandler
  <2>2. QED
    BY <1>1, <1>7, <2>1 DEF WriteClear, FlagAfterWrite
<1>8. CASE ComSet
  <2>1. comPc' = "copy" /\ ~write_flag /\ mainPc \notin Writing
    BY <1>8 DEF ComSet, BeginSet
  <2>2. QED
    BY <1>1, <1>8, <2>1 DEF ComSet
<1>13. CASE ComEmpty
  BY <1>1, <1>13 DEF ComEmpty
<1>9. CASE SetStep
  <2>1. CASE CopyHalf
    <3>1. write_flag => slot' = slot
      BY <1>1, <2>1 DEF CopyHalf, TypeOK, Settings
    <3>2. QED
      BY <1>1, <2>1, <3>1 DEF CopyHalf
  <2>2. CASE CopyRest \/ Store \/ RaiseFlag
    BY <1>1, <2>2 DEF CopyRest, Store, RaiseFlag
  <2>3. QED
    BY <1>9, <2>1, <2>2 DEF SetStep
<1>10. CASE \/ \E r \in Regs : i2c_events_handler(r)
            \/ Tick \/ ClockSet \/ InputChanges \/ BusDown \/ BusUp
  BY <1>1, <1>10 DEF i2c_events_handler, Tick, ClockSet, InputChanges, BusDown, BusUp
<1>11. CASE UNCHANGED vars
  BY <1>1, <1>11 DEF vars
<1>12. QED
  BY <1>2, <1>3, <1>4, <1>5, <1>6, <1>7, <1>8, <1>9, <1>10, <1>11, <1>13
     DEF Next, MainStep

\* Settings that do not meet in the mailbox are put on the bus as the client gave
\* them, and the MCU takes each unless the transfer fails, for any table, any
\* timing of the threads and any empty requests in between.
THEOREM SetsReachTheBus == Spec => []SetsDelivered
<1>1. Init => DeliveryInv
  BY DEF Init, DeliveryInv, Owned, Carried, Writing
<1>2. DeliveryInv => SetsDelivered
  BY DEF DeliveryInv, SetsDelivered, Owned, Carried
<1>3. QED
  BY <1>1, <1>2, DeliveryStep, HwTypeCorrect, PTL DEF Spec

-----------------------------------------------------------------------------
(***************************************************************************)
(* Events.  A change passes from the MCU to the table and from the table   *)
(* to the handler; what is on its way is counted with what was logged.     *)
(***************************************************************************)
Differ(a, b) == IF a = b THEN 0 ELSE 1
Grace(r) == IF early[r] THEN 1 ELSE 0

OnItsWay(r) ==
  IF prev[r] = Unset
  THEN logs[r] = 0 /\ (polled[r] => Differ(value[r], mcu[r]) <= changes[r])
  ELSE logs[r] + Differ(prev[r], value[r]) + Differ(value[r], mcu[r]) <= changes[r] + Grace(r)

EventInv ==
  \A r \in Regs \ torn :
                  /\ logs[r] <= changes[r] + Grace(r)
                  /\ watched[r] => OnItsWay(r)

\* The lengths are read once, before the first poll.
TornInv == mainPc = "open" => torn = {}

LEMMA TornStep == TornInv /\ [Next]_vars => TornInv'
<1> SUFFICES ASSUME TornInv, [Next]_vars, mainPc' = "open" PROVE torn' = {}
  BY DEF TornInv
<1> USE DEF main, TornInv
<1>1. CASE MainStep
  BY <1>1 DEF MainStep, open_i2c, StartRead, ReadFails, ReadDone, StartWrite, WriteCopy,
     WriteIoctl, WriteClear, StartSleep, EndSleep, gpio_resetIoMcu, mainHandler
<1>2. CASE ~MainStep
  BY <1>2 DEF Next, vars, ComSet, ComEmpty, SetStep, CopyHalf, CopyRest, Store, RaiseFlag,
     i2c_events_handler, Tick, ClockSet, InputChanges, BusDown, BusUp
<1>3. QED
  BY <1>1, <1>2

LEMMA ChangeKeeps ==
  ASSUME TypeOK, EventInv, NEW q \in Regs, NEW v \in Values, McuChanges(q, v),
         UNCHANGED <<table, events, polled, torn>>
  PROVE  EventInv'
<1> SUFFICES ASSUME NEW r \in Regs \ torn
             PROVE  /\ logs'[r] <= changes'[r] + Grace(r)'
                    /\ watched'[r] => OnItsWay(r)'
  BY DEF EventInv
<1>1. /\ logs[r] \in Nat /\ changes[r] \in Nat
      /\ logs[r] <= changes[r] + Grace(r) /\ (watched[r] => OnItsWay(r))
  BY DEF TypeOK, EventInv
<1>2. /\ changes'[r] = changes[r] \/ changes'[r] = changes[r] + 1
      /\ changes'[r] = changes[r] => mcu'[r] = mcu[r]
  BY DEF McuChanges, TypeOK
<1>3. QED
  BY <1>1, <1>2 DEF OnItsWay, Grace, Differ, table, events

LEMMA PollKeeps ==
  ASSUME TypeOK, EventInv, NEW got \in SUBSET Regs, NEW other, DOMAIN other \subseteq torn,
         i2c_parse_tlv(got, other), UNCHANGED <<watched, events, mcu, changes, torn>>
  PROVE  EventInv'
<1> SUFFICES ASSUME NEW r \in Regs \ torn
             PROVE  /\ logs'[r] <= changes'[r] + Grace(r)'
                    /\ watched'[r] => OnItsWay(r)'
  BY DEF EventInv
<1>1. /\ logs[r] \in Nat /\ changes[r] \in Nat
      /\ logs[r] <= changes[r] + Grace(r) /\ (watched[r] => OnItsWay(r))
  BY DEF TypeOK, EventInv
<1>2. CASE r \in got \ Wide
  <2>1. value'[r] = mcu[r]
    BY <1>2 DEF i2c_parse_tlv
  <2>2. QED
    BY <1>1, <2>1 DEF OnItsWay, Grace, Differ, events
<1>3. CASE r \notin got \ Wide
  <2>1. value'[r] = value[r] /\ (polled'[r] <=> polled[r])
    BY <1>3 DEF i2c_parse_tlv
  <2>2. QED
    BY <1>1, <2>1 DEF OnItsWay, Grace, Differ, events
<1>4. QED
  BY <1>2, <1>3

LEMMA HandlerKeeps ==
  ASSUME TypeOK, EventInv, NEW q \in Regs, i2c_events_handler(q)
  PROVE  EventInv'
<1> SUFFICES ASSUME NEW r \in Regs \ torn
             PROVE  /\ logs'[r] <= changes'[r] + Grace(r)'
                    /\ watched'[r] => OnItsWay(r)'
  BY DEF EventInv, i2c_events_handler, main
<1>1. /\ logs[r] \in Nat /\ changes[r] \in Nat
      /\ logs[r] <= changes[r] + Grace(r) /\ (watched[r] => OnItsWay(r))
  BY DEF TypeOK, EventInv
<1>2. UNCHANGED <<value, watched, mcu, changes, polled, torn>>
  BY DEF i2c_events_handler, table, world, main, history
<1>3. CASE r # q
  <2>1. logs'[r] = logs[r] /\ prev'[r] = prev[r] /\ early'[r] = early[r]
    BY <1>3 DEF i2c_events_handler, handler, TypeOK
  <2>2. QED
    BY <1>1, <1>2, <2>1 DEF OnItsWay, Grace, Differ
<1>4. CASE r = q
  <2>1. /\ prev'[r] = value[r] /\ value[r] # Unset /\ watched[r]
        /\ early'[r] = (early[r] \/ (prev[r] = Unset /\ ~polled[r]))
    BY <1>4, UnsetFact DEF i2c_events_handler, handler, TypeOK
  <2>2. logs'[r] = logs[r] + (IF check_changed_state(r) THEN 1 ELSE 0)
    BY <1>4 DEF i2c_events_handler, handler, TypeOK
  <2>3. CASE prev[r] = Unset
    <3>1. logs'[r] = 0
      BY <2>1, <2>2, <2>3, <1>1 DEF check_changed_state, OnItsWay
    <3>2. Differ(value[r], mcu[r]) <= changes[r] + Grace(r)'
      <4>1. CASE polled[r]
        BY <2>1, <2>3, <1>1, <4>1 DEF OnItsWay, Grace, Differ
      <4>2. CASE ~polled[r]
        <5>1. early'[r]
          BY <2>1, <2>3, <4>2
        <5>2. QED
          BY <5>1, <1>1 DEF Grace, Differ
      <4>3. QED
        BY <4>1, <4>2
    <3>3. QED
      BY <3>1, <3>2, <2>1, <1>1, <1>2 DEF OnItsWay, Grace, Differ
  <2>4. CASE prev[r] # Unset
    <3>1. logs'[r] <= logs[r] + Differ(prev[r], value[r]) /\ logs'[r] \in Nat
      BY <2>2, <1>1 DEF check_changed_state, Differ
    <3>2. Grace(r)' = Grace(r)
      BY <2>1, <2>4 DEF Grace
    <3>3. QED
      BY <3>1, <3>2, <2>1, <2>4, <1>1, <1>2 DEF OnItsWay, Grace, Differ
  <2>5. QED
    BY <2>3, <2>4
<1>5. QED
  BY <1>3, <1>4

LEMMA StoreKeeps == ASSUME TypeOK, EventInv, Store PROVE EventInv'
<1> SUFFICES ASSUME NEW r \in Regs \ torn
             PROVE  /\ logs'[r] <= changes'[r] + Grace(r)'
                    /\ watched'[r] => OnItsWay(r)'
  BY DEF EventInv, Store, main
<1>1. /\ logs[r] <= changes[r] + Grace(r) /\ (watched[r] => OnItsWay(r))
  BY DEF EventInv
<1>2. UNCHANGED <<events, mcu, changes, polled>>
  BY DEF Store, world, history
<1>3. watched'[r] => watched[r] /\ value'[r] = value[r]
  BY DEF Store, TypeOK, Settings
<1>4. QED
  BY <1>1, <1>2, <1>3 DEF OnItsWay, Grace, Differ, events

LEMMA EventStep == TypeOK /\ TornInv /\ EventInv /\ [Next]_vars => EventInv'
<1> SUFFICES ASSUME TypeOK, TornInv, EventInv, [Next]_vars PROVE EventInv'
  OBVIOUS
<1> USE DEF table, mailbox, main, com, events, world, history
<1>1. CASE ReadDone
  <2>1. PICK got \in SUBSET covered[prio], other \in [Garbage -> Values] :
               i2c_parse_tlv(got, other)
    BY <1>1 DEF ReadDone
  <2>4. DOMAIN other \subseteq torn
    BY <2>1 DEF Garbage
  <2>2. got \in SUBSET Regs
    BY <2>1 DEF TypeOK
  <2>3. QED
    BY <1>1, <2>1, <2>2, <2>4, PollKeeps DEF ReadDone
<1>2. CASE WriteIoctl
  <2>1. wr.addr \in Regs /\ wr.val \in Values
    BY <1>2 DEF WriteIoctl, TypeOK, Settings
  <2>2. CASE bus
    BY <1>2, <2>1, <2>2, ChangeKeeps DEF WriteIoctl
  <2>3. CASE ~bus
    BY <1>2, <2>3 DEF WriteIoctl, EventInv, OnItsWay, Grace, Differ
  <2>4. QED
    BY <2>2, <2>3
<1>3. CASE InputChanges
  BY <1>3, ChangeKeeps DEF InputChanges
<1>4. CASE \E r \in Regs : i2c_events_handler(r)
  BY <1>4, HandlerKeeps
<1>5. CASE Store
  BY <1>5, StoreKeeps
<1>6. ASSUME UNCHANGED <<value, watched, mcu, changes, polled, prev, logs, early, torn>>
      PROVE  EventInv'
  BY <1>6 DEF EventInv, OnItsWay, Grace, Differ
<1>12. CASE open_i2c
  <2>1. torn = {} /\ UNCHANGED <<value, watched, mcu, changes, polled, prev, logs, early>>
    BY <1>12 DEF open_i2c, TornInv
  <2>2. QED
    BY <2>1 DEF EventInv, OnItsWay, Grace, Differ
<1>7. CASE StartRead \/ ReadFails \/ StartWrite \/ WriteCopy \/ WriteClear
           \/ StartSleep \/ EndSleep \/ gpio_resetIoMcu
  BY <1>6, <1>7 DEF StartRead, ReadFails, StartWrite, WriteCopy, WriteClear,
     StartSleep, EndSleep, gpio_resetIoMcu
<1>8. CASE ComSet \/ ComEmpty \/ CopyHalf \/ CopyRest \/ RaiseFlag
  BY <1>6, <1>8 DEF ComSet, ComEmpty, CopyHalf, CopyRest, RaiseFlag
<1>9. CASE Tick \/ ClockSet \/ BusDown \/ BusUp
  BY <1>6, <1>9 DEF Tick, ClockSet, BusDown, BusUp
<1>10. CASE UNCHANGED vars
  BY <1>6, <1>10 DEF vars
<1>11. QED
  BY <1>1, <1>2, <1>3, <1>4, <1>5, <1>7, <1>8, <1>9, <1>10, <1>12 DEF Next, MainStep, SetStep

\* The log holds no more changes than the inputs made, and one more at most when
\* the events thread looked before the first poll: for any number of registers,
\* any values, any order of polls, settings and visits.
THEOREM EventsAreReal == Spec => []NoPhantomEvents
<1>1. Init => TornInv /\ EventInv
  BY UnsetFact DEF Init, TornInv, EventInv, OnItsWay, Grace
<1>2. EventInv => NoPhantomEvents
  BY DEF EventInv, NoPhantomEvents, Grace
<1>3. QED
  BY <1>1, <1>2, TornStep, EventStep, HwTypeCorrect, PTL DEF Spec

-----------------------------------------------------------------------------
(***************************************************************************)
(* Paced settings.  TicksLeft bounds the time until the main thread clears *)
(* the flag: the transfer or sleep it is in, then the high priority dump,  *)
(* the low one, the high one again, and the write.                         *)
(***************************************************************************)
LoopTicks ==
  IF timer["low"] = 0
  THEN IF timer["hi"] = 0 THEN 4 * MaxTransfer ELSE 3 * MaxTransfer
  ELSE IF timer["hi"] > 0 THEN MaxTransfer
       ELSE IF timer["low"] <= MaxTransfer THEN 4 * MaxTransfer ELSE 2 * MaxTransfer

ReadTicks ==
  IF prio = "low" THEN 3 * MaxTransfer - spent
  ELSE IF timer["low"] + spent <= MaxTransfer
       THEN 4 * MaxTransfer - spent ELSE 2 * MaxTransfer - spent

TicksLeft ==
  IF mainPc = "loop" THEN LoopTicks
  ELSE IF mainPc = "read" THEN ReadTicks
  ELSE IF mainPc = "copy" THEN MaxTransfer
  ELSE IF mainPc = "ioctl" THEN MaxTransfer - spent
  ELSE IF mainPc = "clear" THEN 0
  ELSE 5 * MaxTransfer - spent

PaceInv ==
  /\ ~slow /\ ~overlap
  /\ mainPc \in Writing => write_flag
  /\ write_flag => since + TicksLeft <= 5 * MaxTransfer

LEMMA ShorterPath ==
  ASSUME NEW t \in Nat, NEW u \in Nat, NEW s \in Nat, NEW m \in Nat,
         u <= 2 * m, t >= 2 * m, s + t <= 5 * m
  PROVE  s + u <= 5 * m
OBVIOUS

LEMMA OneTick ==
  ASSUME NEW t \in Nat, NEW s \in Nat, NEW s2 \in Nat, NEW m \in Nat,
         s2 <= s + 1, s + t <= m
  PROVE  s2 + (t - 1) <= m
OBVIOUS

LEMMA PaceStep ==
  ASSUME MaxTransfer < LowPeriod, Pace > 5 * MaxTransfer, MaxI2cError >= 3
  PROVE  TypeOK /\ CountInv /\ (~hasty /\ ~jumped => PaceInv) /\ [Next]_vars => (~hasty /\ ~jumped => PaceInv)'
<1>h. ASSUME [Next]_vars, ~hasty' PROVE ~hasty
  BY <1>h DEF Next, MainStep, open_i2c, StartRead, ReadFails, ReadDone, StartWrite, WriteCopy,
     WriteIoctl, WriteClear, StartSleep, EndSleep, gpio_resetIoMcu, ComSet, ComEmpty, BeginSet,
     SetStep, CopyHalf, CopyRest, Store, RaiseFlag, i2c_events_handler, Tick, ClockSet, InputChanges,
     BusDown, BusUp, com, history, vars
<1> SUFFICES ASSUME TypeOK, CountInv, PaceInv, [Next]_vars, ~hasty', ~jumped', ~jumped
             PROVE  PaceInv'
  BY <1>h, HistoryKept
<1> USE TableFacts DEF table, mailbox, main, com, events, world, history, PaceInv
<1>t. /\ errorCount \in Nat /\ spent \in 0..MaxTransfer /\ since \in Nat
      /\ timer["hi"] \in Nat /\ timer["low"] \in Nat
      /\ prio \in {"hi", "low"} /\ DOMAIN timer = {"hi", "low"}
  BY DEF TypeOK, Dumps
<1>s. mainPc \in {"loop", "copy", "clear"} => spent = 0
  BY DEF CountInv
<1> USE DEF TicksLeft, LoopTicks, ReadTicks, Writing
<1>1. CASE open_i2c
  BY <1>1, <1>t DEF open_i2c
<1>2. CASE StartRead
  <2>1. /\ mainPc = "loop" /\ mainPc' = "read" /\ UNCHANGED <<timer, spent, since, write_flag, slow, overlap>>
        /\ \/ prio' = "hi" /\ timer["hi"] = 0
           \/ prio' = "low" /\ timer["low"] = 0 /\ timer["hi"] > 0
    BY <1>2 DEF StartRead, Due, Dumps
  <2>2. QED
    BY <2>1, <1>t, <1>s
<1>3. CASE ReadFails \/ ReadDone
  <2>1. /\ mainPc = "read" /\ spent' = 0 /\ prio' = prio
        /\ UNCHANGED <<since, write_flag, slow, overlap>>
        /\ timer'[prio] = Period(prio)
        /\ \A d \in Dumps : d # prio => timer'[d] = timer[d]
    BY <1>3, <1>t DEF ReadFails, ReadDone, timer_set, TypeOK, Dumps
  <2>2. errorCount <= 2
    BY <2>1, <1>t DEF CountInv, AtRead
  <2>3. PICK failed \in BOOLEAN : mainHandler(failed)
    BY <1>3 DEF ReadFails, ReadDone
  <2>4. mainPc' = "loop"
    BY <2>2, <2>3, <1>t DEF mainHandler
  <2>5. CASE prio = "hi"
    <3>1. timer'["hi"] > 0 /\ timer'["low"] = timer["low"]
      BY <2>1, <2>5 DEF Period, Dumps
    <3>2. QED
      BY <2>1, <2>4, <2>5, <3>1, <1>t
  <2>6. CASE prio = "low"
    <3>1. timer'["low"] > MaxTransfer /\ timer'["low"] # 0 /\ timer'["low"] \in Nat
          /\ timer'["hi"] = timer["hi"]
      BY <2>1, <2>6 DEF Period, Dumps
    <3>2. LoopTicks' <= 2 * MaxTransfer /\ LoopTicks' \in Nat
      <4>1. CASE timer'["hi"] > 0
        BY <3>1, <4>1, <1>t
      <4>2. CASE timer'["hi"] = 0
        BY <3>1, <4>2, <1>t
      <4>3. QED
        BY <3>1, <4>1, <4>2, <1>t
    <3>3. TicksLeft' <= 2 * MaxTransfer /\ TicksLeft' \in Nat
      BY <3>2, <2>4
    <3>4. TicksLeft >= 2 * MaxTransfer /\ TicksLeft \in Nat
      BY <2>1, <2>6, <1>t
    <3>5. write_flag => since' + TicksLeft' <= 5 * MaxTransfer
      <4> SUFFICES ASSUME write_flag PROVE since' + TicksLeft' <= 5 * MaxTransfer
        OBVIOUS
      <4> HIDE DEF TicksLeft, LoopTicks, ReadTicks
      <4>1. since + TicksLeft <= 5 * MaxTransfer /\ since' = since
        BY <2>1
      <4> HIDE DEF PaceInv
      <4>2. QED
        BY <3>3, <3>4, <4>1, <1>t, ShorterPath, Zenon
    <3>6. QED
      BY <3>5, <2>1, <2>4
  <2>7. QED
    BY <2>5, <2>6, <1>t
<1>4. CASE StartWrite
  BY <1>4, <1>t DEF StartWrite, Dumps
<1>5. CASE WriteCopy
  BY <1>5, <1>t, <1>s DEF WriteCopy
<1>6. CASE WriteIoctl
  BY <1>6, <1>t DEF WriteIoctl
<1>7. CASE WriteClear
  <2>1. mainPc' \in {"loop", "reset"}
    BY <1>7 DEF WriteClear, mainHandler
  <2>2. ~write_flag' /\ ~slow' /\ ~overlap'
    BY <1>7 DEF WriteClear, FlagAfterWrite
  <2>3. QED
    BY <2>1, <2>2
<1>8. CASE StartSleep
  BY <1>8 DEF StartSleep
<1>9. CASE EndSleep
  <2>1. mainPc' = "loop" /\ spent' = 0
    BY <1>9 DEF EndSleep, mainHandler
  <2>2. QED
    BY <1>9, <2>1, <1>t DEF EndSleep
<1>10. CASE gpio_resetIoMcu
  BY <1>10, <1>t DEF gpio_resetIoMcu
<1>11. CASE ComSet
  <2>1. ~write_flag \/ since <= 5 * MaxTransfer
    BY <1>t
  <2>2. UNCHANGED <<main, mailbox, slow, since>>
    BY <1>11 DEF ComSet
  <2>4. \E r \in Settings : BeginSet(r)
    BY <1>11 DEF ComSet, Settings
  <2>6. hasty' = (hasty \/ since < Pace)
    BY <2>4 DEF BeginSet
  <2>7. since >= Pace
    <3>1. ~(since < Pace)
      BY <2>6
    <3>2. Pace \in Nat
      OBVIOUS
    <3>3. QED
      BY <3>1, <3>2, <1>t
  <2>8. ~write_flag /\ mainPc \notin Writing
    BY <2>1, <2>7, <1>t
  <2>9. ~overlap'
    BY <2>4, <2>8 DEF BeginSet
  <2>5. QED
    BY <2>2, <2>8, <2>9
<1>18. CASE ComEmpty
  BY <1>18 DEF ComEmpty
<1>19. CASE ClockSet
  <2>1. ~write_flag
    BY <1>19 DEF ClockSet
  <2>2. QED
    BY <1>19, <2>1 DEF ClockSet
<1>12. CASE CopyHalf \/ CopyRest \/ Store
  BY <1>12 DEF CopyHalf, CopyRest, Store
<1>13. CASE RaiseFlag
  <2>1. TicksLeft <= 5 * MaxTransfer
    BY <1>t
  <2>2. since' = 0 /\ UNCHANGED <<main, slow, overlap>> /\ write_flag'
    BY <1>13 DEF RaiseFlag
  <2>3. TicksLeft' = TicksLeft
    BY <2>2
  <2>4. QED
    BY <2>1, <2>2, <2>3, <1>t
<1>14. CASE Tick
  <2>1. /\ timer'["low"] = IF timer["low"] = 0 THEN 0 ELSE timer["low"] - 1
        /\ spent' = spent + 1 /\ spent < MaxTransfer
        /\ mainPc \in Blocking /\ since' <= since + 1 /\ since' \in Nat
        /\ UNCHANGED <<mainPc, prio, write_flag, overlap>>
    BY <1>14, <1>t DEF Tick, Less, Dumps
  <2>2. ~(mainPc = "read" /\ spent + 1 >= LowPeriod)
    BY <2>1, <1>t
  <2>3. ~slow'
    BY <1>14, <2>2 DEF Tick
  <2>4. TicksLeft' = TicksLeft - 1 /\ TicksLeft \in Nat
    <3>1. CASE mainPc = "read" /\ prio = "low"
      BY <2>1, <3>1, <1>t
    <3>2. CASE mainPc = "read" /\ prio = "hi"
      <4>1. timer'["low"] + spent' <= MaxTransfer <=> timer["low"] + spent <= MaxTransfer
        BY <2>1, <1>t
      <4>2. prio' = "hi" /\ mainPc' = "read"
        BY <2>1, <3>2
      <4>3. CASE timer["low"] + spent <= MaxTransfer
        BY <2>1, <3>2, <4>1, <4>2, <4>3, <1>t
      <4>4. CASE ~(timer["low"] + spent <= MaxTransfer)
        BY <2>1, <3>2, <4>1, <4>2, <4>4, <1>t
      <4>5. QED
        BY <4>3, <4>4
    <3>3. CASE mainPc # "read"
      BY <2>1, <3>3, <1>t DEF Blocking
    <3>4. QED
      BY <3>1, <3>2, <3>3, <1>t
  <2>5. write_flag => since' + TicksLeft' <= 5 * MaxTransfer
    <3> SUFFICES ASSUME write_flag PROVE since' + TicksLeft' <= 5 * MaxTransfer
      OBVIOUS
    <3> HIDE DEF TicksLeft, LoopTicks, ReadTicks
    <3>1. since + TicksLeft <= 5 * MaxTransfer
      OBVIOUS
    <3> HIDE DEF PaceInv
    <3>m. 5 * MaxTransfer \in Nat
      OBVIOUS
    <3>2. since' <= since + 1 /\ since' \in Nat
      BY <2>1
    <3>3. QED
      BY <3>1, <3>2, <2>4, <1>t, <3>m, OneTick, Zenon
  <2>6. QED
    BY <2>1, <2>3, <2>5
<1>15. CASE (\E r \in Regs : i2c_events_handler(r)) \/ InputChanges \/ BusDown \/ BusUp
  BY <1>15 DEF i2c_events_handler, InputChanges, BusDown, BusUp
<1>16. CASE UNCHANGED vars
  BY <1>16 DEF vars
<1>17. QED
  BY <1>1, <1>2, <1>3, <1>4, <1>5, <1>6, <1>7, <1>8, <1>9, <1>10, <1>11, <1>12, <1>13,
     <1>14, <1>15, <1>16, <1>18, <1>19 DEF Next, MainStep, SetStep

\* Clients that leave more than five transfer times between two settings never
\* overwrite one in the mailbox, whatever the polls do (a transfer being shorter
\* than the low priority period, MAX_I2C_ERROR at least 3, and the clock not set
\* while a setting waits).
THEOREM PacedSetsAreSafe ==
  ASSUME MaxTransfer < LowPeriod, Pace > 5 * MaxTransfer, MaxI2cError >= 3
  PROVE  Spec => []PacedSetsDoNotMeet
<1>1. Init => CountInv /\ (~hasty /\ ~jumped => PaceInv)
  BY TableFacts DEF Init, CountInv, AtLoop, AtRead, PaceInv, Writing
<1>2. (~hasty /\ ~jumped => PaceInv) => PacedSetsDoNotMeet
  BY DEF PaceInv, PacedSetsDoNotMeet
<1>3. TypeOK /\ CountInv /\ (~hasty /\ ~jumped => PaceInv) /\ [Next]_vars => (~hasty /\ ~jumped => PaceInv)'
  BY PaceStep
<1>4. QED
  BY <1>1, <1>2, <1>3, CountStep, HwTypeCorrect, PTL DEF Spec
=============================================================================
