-------------------------------- MODULE HwSys --------------------------------
(***************************************************************************)
(* The hardware monitor daemon, tf_hwsys: it polls the registers of the    *)
(* I/O microcontroller (MCU) over I2C, answers and takes settings from     *)
(* clients on a Unix socket, and logs changes of the inputs.               *)
(*                                                                         *)
(* Three threads share the table sock_msgArr and the one-place mailbox     *)
(* i2c_write without a lock.  The main thread polls two dumps of registers *)
(* on timers and, when neither is due, carries out the write in the        *)
(* mailbox; the com thread serves one client at a time; the events thread  *)
(* compares each stored value with the one it saw last.                    *)
(*                                                                         *)
(* A step ends where another thread can see what it did: the copy of the   *)
(* mailbox, the copy into the table and the flag are steps of their own,   *)
(* and so are the loads of the mailbox by the writer.  A poll stores what  *)
(* it read in the step that reads it, and the events thread samples a      *)
(* value in the step that handles it: what others do in between might as   *)
(* well be done after it.  Time passes only while the main thread is in an *)
(* I2C transfer or asleep.  The MCU, the bus and the clients are the       *)
(* environment.                                                            *)
(***************************************************************************)
EXTENDS Naturals, Sequences, FiniteSets

CONSTANTS
  Table,        \* the registers, in the order of sock_msgArr
  HiRegs,       \* the registers in the MCU's high priority dump ...
  LowRegs,      \* ... and in its low priority dump
  Settable,     \* the registers clients set
  Watched,      \* the registers with an eventsHandler
  Wide,         \* the registers whose bytes fill the field value: fibers, media
  MaxValue,     \* registers hold 0..MaxValue
  HiPeriod, LowPeriod,  \* 3 s and 30 s
  MaxI2cError,  \* MAX_I2C_ERROR
  Pace,         \* ticks a client should leave between two settings
  MaxTransfer,  \* bound: ticks an I2C transfer or a sleep may last
  MaxCalls,     \* bound: settings and empty requests
  MaxChanges,   \* bound: changes in the MCU that no client asked for
  MaxOutages,   \* bound: times the bus goes down
  MaxJumps      \* bound: times the clock is set

Regs   == {Table[k] : k \in 1..Len(Table)}
Values == 0..MaxValue
Dumps  == {"hi", "low"}
Unset  == MaxValue + 1   \* 0xFF, what prevValue holds at first
NoPair == [addr |-> Table[1], val |-> Unset]

DumpRegs(d) == IF d = "hi" THEN HiRegs ELSE LowRegs
Period(d)   == IF d = "hi" THEN HiPeriod ELSE LowPeriod

ASSUME HwSysAssumption ==
  /\ Table \in Seq(Regs) /\ Len(Table) > 0
  /\ HiRegs \subseteq Regs /\ LowRegs \subseteq Regs
  /\ Settable \subseteq Regs /\ Watched \subseteq Regs /\ Wide \subseteq Regs
  /\ {MaxValue, HiPeriod, LowPeriod, MaxTransfer} \subseteq Nat \ {0}
  /\ {MaxI2cError, Pace, MaxCalls, MaxChanges, MaxOutages, MaxJumps} \subseteq Nat

VARIABLES
  value, watched,   \* sock_msgArr[].value, and is its eventsHandler not NULL
  slot, write_flag, \* i2c_write.i2c_data and i2c_write.write_flag
  \* the main thread
  mainPc,
  prio,             \* the dump it reads, or has read last
  wr,               \* what write_buffer has loaded of the mailbox
  timer,            \* seconds until hi_prio_timer and low_prio_timer expire
  spent,            \* seconds in this transfer or sleep
  errorCount,
  covered, broken,  \* what hi_prio_len and low_prio_len let a dump reach
  torn,             \* what a low_prio_len too long may fill with other bytes
  \* the com thread
  comPc, req,       \* i2cRec
  hasty,            \* history: a setting came less than Pace after the one before
  \* the events thread
  prev,             \* the prevValue of each handler
  \* the environment
  mcu, bus, calls, edits, outages, jumps, since,
  \* history
  fate,             \* of the last set: has the MCU "taken" it, is it "lost"
  overlap,          \* a set was begun before the one before was written
  slow,             \* a poll has lasted LowPeriod or longer
  jumped,           \* the clock was set while a setting waited or errors were counted
  polled,           \* has the register been read from the MCU
  early,            \* was the first value seen older than the first poll
  changes, logs     \* how often a register changed, how often that was logged,
                    \* but for the torn ones

main    == <<mainPc, prio, wr, timer, spent, errorCount, covered, broken, torn>>
com     == <<comPc, req, hasty>>
events  == <<prev, early, logs>>
mailbox == <<slot, write_flag>>
table   == <<value, watched>>
world   == <<mcu, changes, bus, calls, edits, outages, jumps, since>>
history == <<fate, overlap, slow, jumped, polled>>
vars == <<table, mailbox, main, com, events, world, history>>
-----------------------------------------------------------------------------
(***************************************************************************)
(* The main thread.                                                        *)
(***************************************************************************)
Writing  == {"copy", "ioctl", "clear"}
Blocking == {"open", "read", "ioctl", "sleep", "reset"}

\* mainHandler: what it does with the result of read_i2c.
CountedOnly(error) ==  \* mutant: a pass without an error does not clear the count
  LET n == IF error THEN errorCount + 1 ELSE errorCount
  IN errorCount' = n /\ mainPc' = "loop"
mainHandler(error) ==
  LET n == IF error THEN errorCount + 1 ELSE 0
  IN /\ errorCount' = IF n > MaxI2cError THEN 0 ELSE n
     /\ mainPc' = IF n > MaxI2cError THEN "reset" ELSE "loop"

\* open_i2c: the results of the two reads of lengths are ignored.  A failed
\* transfer leaves what the buffer held (0, or the other length); an error
\* response is taken for the length 0xAAAA, which no later read accepts.  With
\* the high dump's length for its own the low dump is cut short, or what
\* follows it in the buffer is parsed too.
Opened(hi, low) ==
  /\ broken' = {d \in Dumps : \/ d = "hi" /\ hi = "error"
                              \/ d = "low" /\ (low = "error" \/ (low = "kept" /\ hi = "error"))}
  /\ \E part \in SUBSET LowRegs, rest \in SUBSET Regs :
        /\ hi # "full" \/ low # "kept" => part = {} /\ rest = {}
        /\ rest # {} => part = LowRegs
        /\ torn' = rest
        /\ covered' = [d \in Dumps |->
                         IF d = "hi" THEN (IF hi = "full" THEN HiRegs ELSE {})
                         ELSE (IF low = "full" THEN LowRegs ELSE part)]

open_i2c ==
  /\ mainPc = "open"
  /\ \E hi \in {"full", "kept", "error"}, low \in {"full", "kept", "error"} :
        /\ bus => hi = "full" /\ low = "full"
        /\ Opened(hi, low)
  /\ mainPc' = "loop" /\ spent' = 0
  /\ UNCHANGED <<table, mailbox, com, events, world, history,
                 prio, wr, timer, errorCount>>

\* read_i2c: the high priority dump first, then the low one, then a write.
Due(d) == timer[d] = 0 /\ (d = "low" => timer["hi"] > 0)

StartRead ==
  /\ mainPc = "loop"
  /\ \E d \in Dumps : Due(d) /\ prio' = d
  /\ mainPc' = "read"
  /\ UNCHANGED <<table, mailbox, com, events, world, history,
                 wr, timer, spent, errorCount, covered, broken, torn>>

TimerKept(d) == timer  \* mutant: timer_set is not called after a failure
timer_set(d) == [timer EXCEPT ![d] = Period(d)]

\* read_buffer fails: the transfer failed, or the MCU sent an error response.
ReadFails ==
  /\ mainPc = "read" /\ (~bus \/ prio \in broken)
  /\ timer' = timer_set(prio)
  /\ mainHandler(TRUE)
  /\ spent' = 0
  /\ UNCHANGED <<table, mailbox, com, events, world, history,
                 prio, wr, covered, broken, torn>>

\* i2c_parse_tlv stops at the first entry with an impossible address; what a
\* bad bus leaves of the dump is any part of it.  A value that fills the field
\* is not copied (tlv->len < sizeof(value)).  other is what the bytes after the
\* dump seem to say.
FirstKept(got, other) ==  \* mutant: a register that was read once is not read again
  LET kept == got \ Wide
  IN /\ value' = [r \in Regs |-> IF r \in DOMAIN other THEN other[r]
                                 ELSE IF r \in kept /\ ~polled[r] THEN mcu[r] ELSE value[r]]
     /\ polled' = [r \in Regs |-> polled[r] \/ r \in kept]
i2c_parse_tlv(got, other) ==
  LET kept == got \ Wide
  IN /\ value' = [r \in Regs |-> IF r \in DOMAIN other THEN other[r]
                                 ELSE IF r \in kept THEN mcu[r] ELSE value[r]]
     /\ polled' = [r \in Regs |-> polled[r] \/ r \in kept]

Garbage == IF prio = "low" THEN torn ELSE {}

ReadDone ==
  /\ mainPc = "read" /\ prio \notin broken
  /\ \E got \in SUBSET covered[prio], error \in BOOLEAN :
        /\ bus => got = covered[prio]
        /\ \E other \in [Garbage -> Values] : i2c_parse_tlv(got, other)
        /\ IF Garbage = {} THEN error = (got # covered[prio])
                           ELSE got # covered[prio] => error
        /\ mainHandler(error)
  /\ timer' = timer_set(prio)
  /\ spent' = 0
  /\ UNCHANGED <<watched, mailbox, com, events, world, fate, overlap, slow, jumped,
                 prio, wr, covered, broken, torn>>

\* write_buffer takes the address as an argument, the value through a pointer.
StartWrite ==
  /\ mainPc = "loop" /\ (\A d \in Dumps : timer[d] > 0) /\ write_flag
  /\ wr' = [wr EXCEPT !.addr = slot.addr]
  /\ mainPc' = "copy"
  /\ UNCHANGED <<table, mailbox, com, events, world, history,
                 prio, timer, spent, errorCount, covered, broken, torn>>

WriteCopy ==
  /\ mainPc = "copy"
  /\ wr' = [wr EXCEPT !.val = slot.val]
  /\ mainPc' = "ioctl"
  /\ UNCHANGED <<table, mailbox, com, events, world, history,
                 prio, timer, spent, errorCount, covered, broken, torn>>

\* The register of the MCU takes another value.
McuChanges(r, v) ==
  /\ mcu' = [mcu EXCEPT ![r] = v]
  /\ changes' = [changes EXCEPT ![r] = @ + (IF v = mcu[r] THEN 0 ELSE 1)]

\* The result of write_buffer is ignored: a failed write is not repeated.
WriteIoctl ==
  /\ mainPc = "ioctl"
  /\ IF bus THEN McuChanges(wr.addr, wr.val) ELSE UNCHANGED <<mcu, changes>>
  /\ fate' = IF bus /\ wr = req THEN "taken"
             ELSE IF ~bus /\ fate = "waits" THEN "lost" ELSE fate
  /\ wr' = NoPair
  /\ mainPc' = "clear" /\ spent' = 0
  /\ UNCHANGED <<table, mailbox, com, events, bus, calls, edits, outages, jumps, since,
                 overlap, slow, jumped, polled, prio, timer, errorCount, covered, broken, torn>>

FlagStays == TRUE    \* mutant: write_flag is not cleared
FlagAfterWrite == FALSE

WriteClear ==
  /\ mainPc = "clear"
  /\ write_flag' = FlagAfterWrite
  /\ mainHandler(FALSE)
  /\ UNCHANGED <<table, slot, com, events, world, history,
                 prio, wr, timer, spent, covered, broken, torn>>

StartSleep ==
  /\ mainPc = "loop" /\ (\A d \in Dumps : timer[d] > 0) /\ ~write_flag
  /\ mainPc' = "sleep"
  /\ UNCHANGED <<table, mailbox, com, events, world, history,
                 prio, wr, timer, spent, errorCount, covered, broken, torn>>

EndSleep ==
  /\ mainPc = "sleep" /\ spent > 0
  /\ mainHandler(FALSE)
  /\ spent' = 0
  /\ UNCHANGED <<table, mailbox, com, events, world, history,
                 prio, wr, timer, covered, broken, torn>>

\* gpio_resetIoMcu holds the reset line for a second; the table is kept, and
\* so are the registers, as far as this daemon can tell.
gpio_resetIoMcu ==
  /\ mainPc = "reset" /\ spent > 0
  /\ mainPc' = "loop" /\ spent' = 0
  /\ UNCHANGED <<table, mailbox, com, events, world, history,
                 prio, wr, timer, errorCount, covered, broken, torn>>

MainStep == open_i2c \/ StartRead \/ ReadFails \/ ReadDone \/ StartWrite \/ WriteCopy
            \/ WriteIoctl \/ WriteClear \/ StartSleep \/ EndSleep \/ gpio_resetIoMcu
-----------------------------------------------------------------------------
(***************************************************************************)
(* The com thread: clientHandler and i2c_setData.  A get changes nothing.  *)
(***************************************************************************)
BeginSet(r) ==
  /\ req' = r
  /\ comPc' = "copy"
  /\ fate' = "waits"
  /\ overlap' = (overlap \/ write_flag \/ mainPc \in Writing)
  /\ hasty' = (hasty \/ since < Pace)

ComSet ==
  /\ comPc = "accept" /\ calls < MaxCalls
  /\ \E r \in Settable, v \in Values : BeginSet([addr |-> r, val |-> v])
  /\ calls' = calls + 1
  /\ UNCHANGED <<table, mailbox, main, events, mcu, changes, bus, edits, outages, jumps,
                 since, slow, jumped, polled>>

\* A client that sends nothing: receive_msg leaves i2cRec as the stack had it.
\* Where that is still the request before, it is carried out once more; else
\* nothing changes.
ComEmpty ==
  /\ comPc = "accept" /\ calls < MaxCalls
  /\ req # NoPair
  /\ comPc' = "copy"
  /\ calls' = calls + 1
  /\ UNCHANGED <<table, mailbox, main, req, hasty, events, mcu, changes, bus, edits, outages,
                 jumps, since, history>>

\* memcpy(&i2c_write.i2c_data, ...): in two parts, either first.
FlagFirst ==  \* mutant: the flag is raised before the copy is complete
  /\ comPc = "copy"
  /\ \E f \in {"addr", "val"} : slot' = [slot EXCEPT ![f] = req[f]]
  /\ write_flag' = TRUE
  /\ comPc' = "half"
  /\ UNCHANGED <<table, main, req, hasty, events, world, history>>
CopyHalf ==
  /\ comPc = "copy"
  /\ \E f \in {"addr", "val"} : slot' = [slot EXCEPT ![f] = req[f]]
  /\ comPc' = "half"
  /\ UNCHANGED <<table, write_flag, main, req, hasty, events, world, history>>

CopyRest ==
  /\ comPc = "half"
  /\ slot' = req
  /\ comPc' = "store"
  /\ UNCHANGED <<table, write_flag, main, req, hasty, events, world, history>>

\* memcpy(&sock_msgArr[id], ...): the whole record, with the client's empty
\* eventsHandler.
Store ==
  /\ comPc = "store"
  /\ value' = [value EXCEPT ![slot.addr] = slot.val]
  /\ watched' = [watched EXCEPT ![slot.addr] = FALSE]
  /\ comPc' = "flag"
  /\ UNCHANGED <<mailbox, main, req, hasty, events, world, history>>

RaiseFlag ==
  /\ comPc = "flag"
  /\ write_flag' = TRUE
  /\ since' = 0
  /\ comPc' = "accept"
  /\ UNCHANGED <<table, slot, main, req, hasty, events, mcu, changes, bus, calls, edits, outages, jumps,
                 history>>

SetStep == CopyHalf \/ CopyRest \/ Store \/ RaiseFlag
-----------------------------------------------------------------------------
(***************************************************************************)
(* The events thread.  Its visits to the registers come at any time: the   *)
(* handlers share nothing, and the period sets only the rate.              *)
(***************************************************************************)
\* check_changed_state with the states 0 and 1, and the test of prevValue
\* before it.
LogsFirst(r) == prev[r] # value[r]  \* mutant: the first value is a change
check_changed_state(r) ==
  /\ prev[r] # Unset
  /\ \/ value[r] = 1 /\ prev[r] = 0
     \/ value[r] = 0 /\ prev[r] = 1

\* handler_TAMPER and the other handlers of two-state inputs.
handler(r) ==
  /\ logs' = [logs EXCEPT ![r] = @ + (IF check_changed_state(r) /\ r \notin torn THEN 1 ELSE 0)]
  /\ early' = [early EXCEPT ![r] = @ \/ (prev[r] = Unset /\ ~polled[r])]
  /\ prev' = [prev EXCEPT ![r] = value[r]]

i2c_events_handler(r) ==
  /\ watched[r]
  /\ handler(r)
  /\ UNCHANGED <<table, mailbox, main, com, world, history>>
-----------------------------------------------------------------------------
(***************************************************************************)
(* The environment.                                                        *)
(***************************************************************************)
Less(n) == IF n = 0 THEN 0 ELSE n - 1

Tick ==
  /\ mainPc \in Blocking /\ spent < MaxTransfer
  /\ spent' = spent + 1
  /\ timer' = [d \in Dumps |-> Less(timer[d])]
  /\ since' = IF since < Pace /\ ~hasty THEN since + 1 ELSE since
  /\ slow' = (slow \/ (mainPc = "read" /\ spent + 1 >= LowPeriod))
  /\ UNCHANGED <<table, mailbox, com, events, mcu, changes, bus, calls, edits, outages, jumps,
                 fate, overlap, jumped, polled,
                 mainPc, prio, wr, errorCount, covered, broken, torn>>

\* The clock is set while the daemon runs (sysfixtime, ntpd).  timer_expired
\* takes the unsigned difference of now and the start: a step back past the start
\* makes a timer expire, a shorter one puts it off, a step forward brings it
\* nearer.
ClockSet ==
  /\ jumps < MaxJumps
  /\ jumps' = jumps + 1
  /\ \E hi \in 0..HiPeriod, low \in 0..LowPeriod :
        timer' = [d \in Dumps |-> IF d = "hi" THEN hi ELSE low]
  /\ jumped' = (jumped \/ write_flag \/ errorCount > 0)
  /\ UNCHANGED <<table, mailbox, com, events, mcu, changes, bus, calls, edits, outages, since,
                 fate, overlap, slow, polled,
                 mainPc, prio, wr, spent, errorCount, covered, broken, torn>>

InputChanges ==
  /\ edits < MaxChanges
  /\ edits' = edits + 1
  /\ \E r \in Regs, v \in Values : v # mcu[r] /\ McuChanges(r, v)
  /\ UNCHANGED <<table, mailbox, main, com, events, bus, calls, outages, jumps, since,
                 history>>

BusDown ==
  /\ bus /\ outages < MaxOutages
  /\ bus' = FALSE
  /\ outages' = outages + 1
  /\ UNCHANGED <<table, mailbox, main, com, events, mcu, changes, calls, edits, jumps, since,
                 history>>

BusUp ==
  /\ ~bus
  /\ bus' = TRUE
  /\ UNCHANGED <<table, mailbox, main, com, events, mcu, changes, calls, edits, outages,
                 jumps, since, history>>

Init ==
  /\ value = [r \in Regs |-> 0]
  /\ watched = [r \in Regs |-> r \in Watched]
  /\ slot = [addr |-> Table[1], val |-> 0] /\ write_flag = FALSE
  /\ mainPc = "open" /\ prio = "low" /\ wr = NoPair
  /\ timer = [d \in Dumps |-> IF d = "hi" THEN HiPeriod ELSE 0]
  /\ spent = 0 /\ errorCount = 0
  /\ covered = [d \in Dumps |-> {}] /\ broken = {} /\ torn = {}
  /\ comPc = "accept" /\ req = NoPair /\ hasty = FALSE
  /\ prev = [r \in Regs |-> Unset]
  /\ fate = "waits" /\ overlap = FALSE /\ slow = FALSE /\ jumped = FALSE
  /\ polled = [r \in Regs |-> FALSE]
  /\ early = [r \in Regs |-> FALSE]
  /\ changes = [r \in Regs |-> 0] /\ logs = [r \in Regs |-> 0]
  /\ mcu \in [Regs -> Values] /\ bus = TRUE
  /\ calls = 0 /\ edits = 0 /\ outages = 0 /\ jumps = 0 /\ since = Pace

Next == MainStep \/ ComSet \/ ComEmpty \/ SetStep
        \/ (\E r \in Regs : i2c_events_handler(r))
        \/ Tick \/ ClockSet \/ InputChanges \/ BusDown \/ BusUp

Spec == Init /\ [][Next]_vars

\* A thread that can run does, transfers end and time goes on.
FairSpec == Spec /\ WF_vars(MainStep) /\ WF_vars(SetStep) /\ WF_vars(Tick)
            /\ \A r \in Regs : WF_vars(i2c_events_handler(r))
-----------------------------------------------------------------------------
Settings == [addr : Regs, val : Values]

\* Type invariant.
TypeOK ==
  /\ value \in [Regs -> Values] /\ mcu \in [Regs -> Values]
  /\ watched \in [Regs -> BOOLEAN] /\ polled \in [Regs -> BOOLEAN] /\ early \in [Regs -> BOOLEAN]
  /\ slot \in Settings /\ req \in Settings \cup {NoPair}
  /\ comPc # "accept" => req \in Settings
  /\ wr \in [addr : Regs, val : Values \cup {Unset}]
  /\ mainPc = "ioctl" => wr \in Settings
  /\ write_flag \in BOOLEAN /\ bus \in BOOLEAN /\ hasty \in BOOLEAN /\ overlap \in BOOLEAN
  /\ slow \in BOOLEAN /\ jumped \in BOOLEAN /\ fate \in {"waits", "taken", "lost"}
  /\ mainPc \in {"loop"} \cup Writing \cup Blocking
  /\ comPc \in {"accept", "copy", "half", "store", "flag"}
  /\ prev \in [Regs -> Values \cup {Unset}]
  /\ prio \in Dumps /\ timer \in [Dumps -> Nat] /\ spent \in 0..MaxTransfer
  /\ errorCount \in 0..MaxI2cError
  /\ covered \in [Dumps -> SUBSET Regs] /\ broken \in SUBSET Dumps
  /\ torn \in SUBSET Regs
  /\ changes \in [Regs -> Nat] /\ logs \in [Regs -> Nat]
  /\ {calls, edits, outages, jumps, since} \subseteq Nat

\* The reset of the I/O MCU after six failed polls (mainHandler) cannot happen
\* unless a poll lasts half a minute or the clock is set between two failures: a
\* pass without a poll clears the count, and between two such passes there are
\* at most three polls.
WatchdogIsAsleep == ~slow /\ ~jumped => mainPc # "reset"

\* A setting is lost or mixed with another only if it came before the one
\* before it was written, or if its transfer failed, which write_buffer's
\* caller ignores: in all other cases the pair on the bus is the pair the
\* client gave, and once the mailbox is empty the MCU has taken it.  An empty request
\* that repeats it takes nothing of that away.
SetsDelivered ==
  ~overlap =>
    /\ mainPc = "ioctl" => wr = req
    /\ ~write_flag /\ mainPc \notin Writing /\ comPc = "accept" /\ req # NoPair
         => fate # "waits"

\* Settings that come at least Pace seconds one after the other never meet in
\* the mailbox: each is written and its flag cleared before the next begins,
\* unless a poll has lasted half a minute or the clock was set meanwhile.
PacedSetsDoNotMeet == ~hasty /\ ~slow /\ ~jumped => ~overlap

\* No change is logged that did not happen, but for one: when the first pass
\* of the events thread comes before the first poll, the value 0 of the table
\* is taken for a reading.  Registers that a dump of the wrong length overlays
\* are left out.
NoPhantomEvents ==
  \A r \in Regs \ torn : logs[r] <= changes[r] + (IF early[r] THEN 1 ELSE 0)

\* With a bus that stays up and lengths that were read, the table comes to say
\* what the MCU says, and so does the events thread where it has a handler: of
\* every register in the dumps but the wide ones, which are never stored.
ReportsConverge ==
  <>[](bus /\ broken = {} /\ torn = {} /\ \A d \in Dumps : covered[d] = DumpRegs(d))
  => <>[](\A r \in (HiRegs \cup LowRegs) \ Wide :
             value[r] = mcu[r] /\ (watched[r] => prev[r] = mcu[r]))

\* The mailbox is emptied: polls, which go first, do not starve the writer,
\* unless one lasts half a minute.
MailboxDrains == write_flag ~> ~write_flag \/ slow
=============================================================================
