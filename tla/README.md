# TLA+ models of the T-Fortis PoE switch packages

The repository is an OpenWrt feed for a family of industrial PoE switches. Its
own code is a handful of small daemons; this directory holds TLA+ models of
them, TLC runs over small instances and TLAPS proofs for every instance.

## 1. Inventory

| part | source | state | operations | hard because |
| --- | --- | --- | --- | --- |
| autorestart daemon | `tf_ar_poe/src/autorestartd` | `portInfoArr[i]`: state, event and error words, counters, schedule, reboot machine | poll a port, run its test, count failures, power-cycle, serve `reboot`, follow a daily schedule | three threads and one worker per port share the array without a lock; `procd` restarts it at any time |
| PoE controller daemon | `realtek-poe-tfortis/src/main.c` | FIFO of serial commands, retry counter, port status | queue, send, match replies, retry on `0xf0`, ubus `manage`/`reload` | one outstanding command, no reply timeout, lost or late replies |
| hardware monitor | `tf_hwsys/src/hwsysd`, `tf_hwsys/lib` | table of register values, one-place I2C write mailbox, two poll timers, error count, `prevValue` of each event handler | poll the I/O MCU, parse its dumps, write a setting, log changes and values out of range | three threads without a lock; a failing bus; values older than the first poll; negative numbers compared as unsigned |
| device monitor | `tf_device_monitor/src` | client state machine, events, send callbacks, message buffers, open pipes | answer UDP searches, check and apply settings, reload services | processes nobody waits for, descriptors never closed, its own broadcasts, stale buffers after a failed call |
| `tf_autorestart_ctrl`, `hwsys` clients | `tf_ar_poe/src/autorestart_ctrl`, `tf_hwsys` | none | one request, one printed answer | - |
| `tf_clish`, `tf_file`, `tf_statistics` | command tables, Lua, UCI files | none of their own | - | - |
| `rtk`, `luci`, `mstpd`, `syslog_fc`, ... | vendored | - | - | third-party code |

How they interact: the autorestart daemon tells the PoE controller daemon to
switch a port with `ubus call poe manage` (a child process it waits for), reads
the port's administrative state and its own configuration with `ubus call uci
get`, and is asked for status and reboots over a Unix socket by
`tf_autorestart_ctrl`. Committing the configuration `tf_autorestart` makes
`procd` stop and start it; committing `poe` makes it call `ubus call poe
reload`. The PoE controller daemon speaks to the PoE microcontroller (MCU) over
a serial line, and `procd` starts it again when it exits.

What makes each part correct: the autorestart daemon must give a port its power
back after every power-down, respect `max_reset`, end every reboot, and report
the truth about a port; the PoE controller daemon must send commands one at a
time and in order, deliver each reply to its own command and not stall; the
hardware monitor must bring a setting to the MCU whole, empty its mailbox in
spite of the polls, show what the MCU shows, and log changes and alarms that are
true and all of them; the device monitor must apply only genuine settings,
answer a request at most once and truthfully, persist what it was told, and come
back to waiting after every request. `PROJECT.json` lists the hazards at their
lines.

The other two daemons stand alone: `hwsysd` serves `hwsys_ctrl`, and through it
scripts such as `sysfixtime`, on a Unix socket; the device monitor listens for
the broadcasts of a management program and acts through `uci` and `init.d`.

## 2. Plan

1. `PowerCycle`, `Autorestart`, `AutorestartProofs` - done.
2. `PoeQueue`, `PoeQueueProofs`, `PoeAnswerProofs`, `PoePowerProofs` - done.
3. `HwSys`, `HwSysProofs` (threads, mailbox, timers) and `RangeAlarms`,
   `RangeAlarmsProofs` (handlers of measured values) - done.
4. `DeviceMonitor`, `DeviceMonitorProofs` - done.
5. Left: the composition of `Autorestart` with `PoeQueue` through ubus `manage`
   and `reload` (a reload of the PoE configuration inside the off-time of a
   reboot).
6. Left: a module in which every load and store of the words `event`,
   `errorCode` and `state` is a step of its own, for the bits two threads can lose.
7. Left: the schedule against the wall clock (drift of `targetTime`).
8. Every safety property of the passing runs has its theorem; what is left to
   TLC is named at the end of section 5.

## 3. The modules

**`Autorestart`** models `autorestartd`. One variable per shared field (a
function of the port), the place of each thread, the last PoE command to each
port, and history variables.

| code | model |
| --- | --- |
| `eventsHandler`, one pass over the ports | `evPort`, `evPc`; `EvIdle`, `EvRegular`, `EvReboot*`, then `EvAlarm*`, then the next port |
| `test_ErrorHandler` | `EvRegular` |
| `rebootHandler` with `autoResetHandler`, `manualResetHandler` | `EvRebootIdle`, `EvRebootInit`, `EvPowerDown`/`EvPowerDownDone`, `EvPoeDownWait`, `EvPowerUp`/`EvRebootDone`, `EvReload` |
| `alarmHandler`, `port_timeAlarm` | `EvAlarmOff`, `EvAlarmWait`, `EvAlarmDown`, `EvAlarmUp`, `EvAlarmDone` |
| `test_main`, `get_PortAndPoeState` | `TsPoll`, `TsJoin` |
| `runTest*`, `port_runTest*` in a worker thread | `WkDisable`, `WkLink`, `WkPing`, `WkSpeed` |
| `cmd_rebootHandler` | `ComReboot` (the test), `ComAccept` or `ComRefuse` (the store) |
| `time(NULL)` | `Tick` (external) |
| `reload_service` in `init.d/tf_autorestart` | `Restart` |

Grain of atomicity. A step is the code between two points where a thread can be
held up for long: `popen` (every ubus call), `ping`, `sleep`, `accept`, and
between the test and the store of `cmd_rebootHandler`. Code after a ubus call is
a step of its own, so other threads run between a power-down and the setting of
its deadline. What lies inside a step is hidden: a link test that fails stores
ERR_OK and takes it back some lines later (`port_module.c:174-179`), and an events
pass in between, which the model does not have, would clear `resetCount`. A single `|=` or `&=` is one step; that these are not atomic in C
is a hazard listed in `PROJECT.json` and left to plan item 6.

Abstractions. Error and event words are sets of flags. A configuration section
is its test type, whether its parameters are accepted, the schedule switch and
the distance to the two times. Deadlines are kept as ticks left. The result of
reading `operstate`, of `ping` and of the speed computation is a free choice.
`totalResetCount`, `timeStr`, the byte counters and logging change no decision
and are left out. `errorTestCount` keeps its 8-bit width (`CountMod`).

History variables: `by` (who asked for the cycle), `spent` (automatic
power-downs since ERR_OK or an accepted command), `age` (ticks since a reboot
switched the port off), `orphan` (why nobody is left to power the port up).

**`PowerCycle`** is the abstract specification: a reboot is prepared, switches
the port off, waits `RebootDelay` ticks, switches it on or abandons it, and
ends. `Autorestart` instantiates it with the phase computed from the reboot
state, its flags and the place of the events thread (`PhaseOf`).

**`MCAutorestart`** gives TLC its constants. **`MCAutorestartPing`** adds one
history variable for the ping run. **`AutorestartProofs`** holds the proofs.

**`PoeQueue`** models `realtek-poe`, one `uloop` thread, together with the MCU
and the serial line, which are external.

| code | model |
| --- | --- |
| `cmd_pending`, `num_retries`, `cmd_seq` | `cmd_pending`, a sequence of commands; `cmd_seq` with its width (`SeqMod`) |
| `poe_cmd_queue`, `poe_cmd_send`, `poe_cmd_next` | the same names; a callback queues its commands as one batch, and the first is sent if the list was empty and no pause is running |
| `poe_initial_setup`, `poe_port_setup`, `poet_setup`, `config_load` | the same names; `config_load` is any set of enabled ports |
| `state_timeout_cb`, `ubus_poe_manage_cb`, `ubus_poe_sendframe_cb`, `ubus_poe_reload_cb` | the same names |
| `poe_stream_msg_cb`, `poe_reply_consume` | `ReadShort`, `ReadUnsolicited`, `ReadBad`, `ReadOther`, `ReadAnswer`, one for each way through |
| `handle_poe_f0_reply`, `mcu_clear_timeout` | `ReadRejected`, `ReadAborted`; `mcu_clear_timeout` |
| `poe_stream_notify_cb`, `respawn` in `init.d/poe`, `tcflush` | `Restart` |
| the MCU | `McuStep`: carries out and answers, or rejects, each command once, in order |
| the line | `Noise`, `Damage`, `Lose` |

A frame of 12 bytes is two halves on the line, because `ustream` calls
`poe_stream_msg_cb` once for each read, whatever the read returned, and the
callback takes at most one frame: a read of half a frame, of one and of several
are all different. A frame whose halves do not belong together stands for a bad
checksum. The contents of configuration commands and the measurements in the
replies change no decision and are left out; so are the ubus method `info`,
which only reads, and a `port_count` that grows with a reload. `power_budget` of
a port is never set by `load_port_config`, so the first loop of `poe_port_setup`
queues nothing; one PSE gets a global budget, as on every board but the one that
`config_apply_quirks` names.

History: `noise` and `lost` count the halves that answer nothing, or were lost,
in this life of the daemon; `want` is the last switch command given for a port,
`served` whether the last one that left the list was answered, and `mixedUp`
whether a handler was ever given the answer to another command. Each frame
carries whether it answers the command that waits (`life`).

**`MCPoeQueue`** gives TLC its constants. The proofs are in three modules, each
extending the one before: **`PoeQueueProofs`** (types, and how much is on the
line), **`PoeAnswerProofs`** (which reply is taken for which command) and
**`PoePowerProofs`** (what the MCU has carried out).

**`HwSys`** models `hwsysd`: three threads, the I2C bus and the I/O MCU, the last
two external.

| code | model |
| --- | --- |
| `sock_msgArr[].value`, `.eventsHandler` | `value`, `watched` |
| `i2c_write.i2c_data`, `.write_flag` | `slot`, `write_flag` |
| `open_i2c` | `open_i2c`, with `Opened` for the two lengths whose errors are ignored |
| `read_i2c` | `StartRead`, `ReadFails` or `ReadDone` when a timer is due; else `StartWrite`, `WriteCopy`, `WriteIoctl`, `WriteClear` when the flag is set; else `StartSleep`, `EndSleep` |
| `mainHandler`, `gpio_resetIoMcu` | the same names; every pass through `read_i2c` ends in `mainHandler` |
| `i2c_parse_tlv` | the same name; a bad bus leaves any part of the dump, and a value that fills its field is not stored (`Wide`) |
| `clientHandler`, `i2c_setData` | `ComSet`, then `CopyHalf`, `CopyRest`, `Store`, `RaiseFlag` |
| `receive_msg` of an empty request | `ComEmpty`: the last request is carried out again (that nothing happens is no step) |
| `i2c_events_handler`, `handler_TAMPER` and the others with two states | `i2c_events_handler`, `handler`, `check_changed_state` |
| `timer_set`, `timer_expired` | `timer`, the ticks left; `ClockSet` when the wall clock is set, which leaves either timer anywhere in its period or expired |

Grain: the copy into the mailbox (in two parts, in either order), the copy into
the table and the flag are steps of their own, and so are the writer's loads of
address and value. A write that fails is lost: `write_buffer`'s result is ignored
and the flag cleared (`fate`). When the low dump's length could not be read and
the high one's is used for it, a dump that is too short is cut, and behind one
that is too long other bytes of the buffer are parsed as registers (`torn`).
Time passes only while the main thread is in a transfer, a
sleep or the reset. A restart of the daemon loses all of its state, so it is a
behaviour that starts at `Init` again, where the registers of the MCU hold any
values. A register is a value of a small set: a handler compares only with 0 and
1. `handler_SHT_CONNECTED` logs only one of its two changes, which `logs` may
exceed. History: `fate`, `overlap`, `hasty`, `slow`, `jumped`, `polled`, `early`,
`changes`, `logs`, described where they are declared. A dump that the bus
corrupts without an error is not modelled.

**`RangeAlarms`** models the handlers of measured values and
`check_out_of_range`. The handlers share nothing, so a behaviour follows one of
them (`who`), a record of what distinguishes the copies of the code: the width,
the limits, what is kept and what is logged. The two SFP modules, transmitted
and received power, have handlers that differ in names alone and are one record.
`i2c_parse_tlv` puts a reading into the table, `handler` is one pass of the
events thread. Whether a module is present is read from an uninitialised byte
(`i2c_getData` copies one byte, its record's first), so skipping the value is
always possible (`NotPresent`). The copy of the value by the events thread may
meet the parser and mix two readings: the theorems allow any reading, so what a
mix amounts to is one of them. The constant `WordMod` is 2^32 in the code and
2^24 for TLC, whose integers are narrower; the proofs use only that it is more
than twice 2^16. `handler_RPS_TEMPER` reads a signed register as a `uint8_t`
(`events_handlers.c:301`), although its lower limit is -60: what the register
means (`Meaning`) and what the handler sees differ for a negative value, and it
logs an overheat. Settings of measured registers by a client are left out. What
`send_log` prints for `%d` is not modelled (it passes its `va_list` to `syslog`
as an argument). A handler that keeps a `prevValue` of 0xFFFF keeps it as if it
were its first.

**`DeviceMonitor`** models `client_handler`, called for ever by `client_app`;
a call in each state is an action, except that every `popen` of a setting is one
of its own, so that other processes end between two of them.

| code | model |
| --- | --- |
| `clientInfo.state`, `.event`, `.msgType`, `.count`; the send callbacks | `state`, `event`, `msgType`, `count`; `sendCb` |
| `CLIENT_SATE_INIT` | `client_init` |
| `CLIENT_STATE_WAIT`: `net_getCommand`, `client_waitCommand` | `Receive`, `ReceiveAck` (its own broadcast), `RecvFails`; `Dispatch` |
| `CLIENT_STATE_FILL_MSG`: `client_emitEvent_fillmsg` | `FillMsg`, `FillDone` |
| `CLIENT_STATE_SETTINGS`: `checkMacAddress`, `checkMD5Sum`, `getSettingsCmdArray` | `SettingsCrash`, `NotForThisDevice`, `Refuse`, `MallocFails`, `Accept` |
| `settings_handler`, the `runSet*` functions | `RunCommand` puts what a command starts (`Starts`) into `steps`, `RunUnknown` is the other outcome of an unknown name; `openPipe` and `runSetIp` take one step each; `ApplySettings`, `SettingsDone` |
| `openPipe` without `closePipe` | `openPipe`, `free` |
| `syslog`, `closelog` | the field `log` of a step, `logOpen`: the descriptor of `/dev/log` is held from a message to the next `closelog` |
| `CLIENT_STATE_SEND`, `CLIENT_STATE_RELOAD` | `Send` with `net_sendMsg`; `Reload`, `ReloadDone` |
| `uci set`, `uci commit`, `init.d/network restart` | `UciSet`, `UciCommit`, `NetworkRestart` (external): processes that end in any order |

Descriptors. `popen` takes two and gives one back; before the checks of a request
(`state_handler.c:137`) and before each command (`settings_module.c:144`)
`syslog` has one too, so that three must be free (`CanPopen`). The error path of
`openPipe` ends with `closelog`, so that a later command may find one more.
`net_sendMsg` logs before it calls `socket` and needs two (`net_utils.c:122`).

Undefined behaviour, as a choice among what it can do:

* A name that is not in the table leaves its entry of the map uninitialised, and
  the entry is run all the same (`settings_module.c:84-90, 143-145`): any command,
  the two reloads included, or nothing, or a call of what is no function
  (`Runs`, `RunUnknown`). The value it sets is garbage that came about with this
  request, and is marked with its number.
* A name with nothing after its `=` has `strncpy` read from NULL
  (`settings_module.c:87`): the daemon dies (`Accept`, "NOVALUE"). So does a
  request without any name, whose `strcmp` gets NULL.
* Before its first search the daemon does not know its device name, and parses its
  MAC address from an uninitialised buffer (`run_CLIcmd.c:204-211`): the request's
  address agrees with it or not (`checkMacAddress`).
* The fill loop counts to `CMD_MAX` over an array of five callbacks
  (`state_handler.c:378-382`): whatever lies behind it is skipped if it is zero,
  and a crash if it is not (`FillMsg`). Nothing is assumed of what that is.

`passFlag |= checkMacAddress()` (`state_handler.c:290`) is taken as the compilers
in use evaluate it, the call first; the other order would never refuse an address.
"uci show" may print no line, in which case `runSetIp` sets nothing and asks for
no reload.

The value of a setting is the number of the request it came with; the text of
requests and replies is left out. Restarts of services other than the network,
and `echo`, take a descriptor but are no jobs: they change nothing here. The
daemon has no `procd` respawn: `dead` is final. A reply of length 0 cannot be
reached.

**`MCHwSys`**, **`MCRangeAlarms`** and **`MCDeviceMonitor`** give TLC constants;
**`HwSysProofs`**, **`RangeAlarmsProofs`** and **`DeviceMonitorProofs`** hold the
proofs.

## 4. The runs

| run | instance | shows |
| --- | --- | --- |
| `ar_tests` | 1 port that may be disabled; link, ping, speed, scheduled without test, faulty sections, reloads between them; 1 command, 1 restart | TypeOK, AutoCyclesBounded, PowerAccountedFor, ImplementsPowerCycle |
| `ar_live` | 1 scheduled port with a link test, 1 command | PowerReturns, RebootEnds, ScheduledOffServed, DeadPortGivenUp |
| `ar_twice` (violation) | 2 commands | the second command cancels the first and wedges the port |
| `ar_manual_giveup` (violation) | 1 command | a command taken in the visit that gives up is never carried out |
| `ar_sticky` (violation) | port disabled and enabled again | "port disable" is shown for ever |
| `ar_ping` (violation) | ping test | a silent host is power-cycled without limit |
| `poe_queue` | 2 ports, setup, polls, 1 ubus call, rejections, 2 line faults | TypeOK, OneExchange, NeverStuck, RightAnswer, ManageObeyed |
| `poe_live` | 1 port, setup, polls, 1 ubus call, rejections, 1 restart | SwitchFinishes, ReportCatchesUp, ManageObeyed across the restart |
| `hw_sets` | 1 register, 2 settings or repeated ones, transfers of up to 2 ticks, 1 outage, the clock set once, reset after the 4th error | SetsDelivered, PacedSetsDoNotMeet, WatchdogIsAsleep |
| `hw_live` | 1 watched register, 1 setting, 2 changes of the input, 1 outage | TypeOK, NoPhantomEvents, ReportsConverge, MailboxDrains |
| `hw_alarms` | all handlers; readings inside, at and beyond both limits and at the end of the range | TypeOK, AlarmsAreTrue, AlarmsAreMeasured, AlarmsAreRaised |
| `dm_requests` | 2 requests of four kinds of batches, 8 descriptors, 1 failing `recvfrom`, 1 failing `malloc` | TypeOK, NothingLeftOver, RepliesAreAnswers, OneSpoiltReply, OnlyGenuine, PersistedInOrder, BackToWait |

Bounds. `MaxReset` = 1 with `TestNum` 1 or 2 lets a port fail, be cycled, be
given up and recover; two commands (`ar_twice`) are the least that interfere with each other;
one restart reaches every point of a cycle; an off-time of 1 or 2 ticks lets
everything happen before, during and after it; `Day` is longer than the off-time
so that alarms fall due inside and outside a reboot. One port reaches all that
the threads can do to one port; that several ports, commands and restarts add
nothing is what the proofs show.
`CountMod` = 4 keeps the counter's wrap above `TestNum`, as 2^8 is above 60.

For `PoeQueue`: a setup of two ports is nine commands, so `MaxPending` = 9 lets
polls and calls come in whenever at least one batch fits, also while setup
commands are waiting; `MaxRetries` = 1 (the code has 5) reaches both ways out of
a rejection; two faults are a whole stray frame, or a lost half and its
replacement. `SeqMod` = 4 makes the sequence number wrap inside the setup. That
it suffices for `RightAnswer` depends on the faults: a reply is refused as long
as the replies are less than `SeqMod` commands late, and one stray frame makes
them late by one for good, so `MaxFaults` is kept below twice `SeqMod`, as it is
below 512 stray halves on the device (section 5). `poe_queue` does not check deadlock: after a
lost answer the list really does not move again, which is what `NeverStuck` and
`SwitchFinishes` except.

For `HwSys`: `hw_sets` has one register and transfers as long as the low priority
period (2 ticks for 30 s), so that a poll can be too slow and the reset, at an
error limit of 3, does happen; `Pace` = 8 is the least that holds there (7 is
violated). It has 11 million states under the view `SetsView`, which leaves out
the values in the table and in the MCU: without a handler nothing tests them, so
that states that differ in them alone have the same future. Two registers, where
address and value could be mixed, are in the proof of `SetsReachTheBus`; the
mutant that raises the flag before the copy is complete is already caught with
one. `hw_live` has transfers of at most one tick and the code's error limit of 5;
a second register, or one of the wide ones, which `ReportsConverge` leaves out,
makes it too large for its liveness properties. The clock is set at most once
(`MaxJumps`), and not in `hw_live`. Setting it once while errors are counted
allows six failures in a row with the code's periods (high, low, high, and the
same again), which is what the reset takes.

For `RangeAlarms` the readings are the values at which a comparison changes its
outcome, with the distances 5, 9, 11 and 21 around `STABLE_VALUE` and its double.

For `DeviceMonitor`: eight descriptors run out within two requests, in the middle
of a batch, before a reply and between two; among the batches are one with an
unknown name, which runs any command, and one with a name without a value.
`CallbackNum` = 2 and `CmdMax` = 3 stand for 5 and 10, with one entry past the
array. `dm_requests` does not check deadlock: the daemon may wait for ever
or be dead.

Fairness (`FairSpec`), `Autorestart`: the events and test threads are endless loops whose
blocking calls return, every worker ends (ping has a timeout), a command that
has been started is finished, and the clock advances. Commands, restarts, test
results and poll results are never promised. `RebootEnds` holds with one command
and fails with two (`ar_twice`).

Fairness, `PoeQueue`: `uloop` runs timers that are due and reads what has come
in, and the MCU answers every command, possibly always with a rejection. Ubus
calls, faults and restarts are never promised. `SwitchFinishes` is about lists
that are at most `MaxPending` long; `ReportCatchesUp` assumes in its premise that
the line stays clean and that the rejections come to an end.

Fairness, `HwSys`: a thread that can run does, I2C transfers and sleeps end, the
events thread visits every register again, and time goes on. Clients, changes of
inputs and the state of the bus are not promised; `ReportsConverge` asks in its
premise for a bus that stays up and lengths that were read. That the clock is set
is not promised either. Fairness,
`DeviceMonitor`: the loop goes on while it has something to do; that anything
arrives, or that a process ever runs, is not assumed.

The extra cycle in `AutoCyclesBounded` (`max_reset + 1`) is real: with
`max_reset` as the bound TLC finds an ERR_OK, or a command, that comes between
`autoResetHandler` and the power-down and clears `resetCount` afterwards.

## 5. The proofs

`AutorestartProofs` proves, for every number of ports, `test_num`, `max_reset`,
off-time, length of day, set of configurations and set of poll results, from
`SizesAssumption` and `EnvironmentAssumption` alone:

* `TypeCorrect`: Spec => []TypeOK, one lemma per action.
* `Refinement`: Spec => Cycle!PSpec. The inductive invariant `RebootInv` is
  needed because the reboot flags, the place of the events thread and the
  deadline must agree with the reboot state: a START or TIMER_STOP left over from
  an interrupted reboot would let a later one skip its power-down or its wait,
  and the deadline must not pass before the off-time (`OffTime`).
* `NoPowerUpForgotten`: Spec => []PowerAccountedFor. `PowerInv` adds the same
  fact for the moment when the power-up has been decided and the reboot state
  is about to become idle.
* `CyclesBounded`: Spec => []AutoCyclesBounded. The bound is not inductive.
  `SpentInv` says how far `spent` may be ahead of `resetCount` (by one, and not
  at all while a counted power-down is still to come), and that each of the
  things that clear `resetCount` - ERR_OK, a pending manual request, a reload -
  can only be there with `spent` at most 1, and 0 before the power-down.

`PoeQueueProofs` proves, for every number of ports, width of the sequence
number, retry limit and set of raw commands, and for any number of calls, faults
and restarts, from `PoeSizesAssumption` alone:

* `QueueTypeCorrect`: Spec => []TypeOK, the retry limit included.
* `NoStall`: Spec => []NeverStuck, and `ExchangesAlternate`: Spec =>
  []OneExchange. Neither is inductive. `LineAccount` keeps the books of the line:
  while a command waits, two halves are owed, and what is on the way (commands
  counted twice, halves on the line and in the read buffer) differs from what is
  owed by at most `noise` upwards and `lost` downwards. It is needed because
  `NeverStuck` must know, when a read empties the line, that a whole frame is in
  the buffer, so that the callback does send the next command.

`PoeAnswerProofs` proves `AnswersKeepApart`: Spec => []RightAnswer under
`FewStrays`: MaxFaults + 2 * MaxRestarts < 2 * SeqMod. The sequence numbers in the
list follow one another (`Consecutive`), and a half or a frame that answers a
command which has left the list is at most half as many numbers behind the head
as halves have come in for nothing, less what is still to be read before it
(`InInStep`, `OutInStep`; together with the list and a bound on `noise` they are
`StepInv`). At the head of the buffer such a reply is at least one and less than
`SeqMod` numbers behind, so that `Matches` refuses it. The assumption is what the
code relies on with its 8-bit `cmd_seq` - fewer than 512 stray halves - and it is
sharp: TLC finds `RightAnswer` violated with `MaxFaults` = 2 * `SeqMod` for
`SeqMod` = 1 and 2. In the model a restart may leave one command on the line, so
it counts for two halves; `MaxFaults` and `MaxRestarts` bound a whole behaviour.

`PoePowerProofs` proves `PowerAsWanted`: Spec => []ManageObeyed under `FewStrays`
and `FewFormer`: there is no restart, or MaxFaults + 2 * MaxRestarts <= 14.
`ManageObeyed` speaks of the moment in which the list holds no command for a
port; it is inductive only with what is known of the list and of the lines before
that. `PowerInv` says:

* the last command of the list for a port says what is wanted (`LastWanted`; each
  callback queues at most one switch per port, `OnceEach`);
* what is live on the lines belongs to the head of the list, only live frames
  follow a live one, and if an answer "ok" to a switch is on its way the MCU has
  carried it out (`LiveIn`, `LiveOut`, `LiveLast`, `Done`);
* switches still on their way for a port that is served and has none in the list
  agree with what is wanted (`Obeyed`): a switch that was sent again, or whose
  reply was mistaken, may be carried out late without harm;
* a frame of an earlier life is read while a command that is no switch is at the
  head (`FormerIn`, `FormerOut`).

The last point needs `FewFormer`. A restart numbers the commands from 1 again and
queues the same setup, so the reply of an earlier life to its first "enable" has
the id and number of the new one. It is not taken for its answer because at least
seven commands go before the first "enable", and each takes two halves off the
line: 14 in all. With eight restarts in a row and no fault (16 halves) TLC finds
`ManageObeyed` violated on an instance with one port: the daemon takes the old
"on" for the answer to the new "off". With seven it holds.

`HwSysProofs` proves, for every table, pair of dumps, periods and bounds, from
`HwSysAssumption`:

* `HwTypeCorrect`: Spec => []TypeOK.
* `WatchdogUnreachable`: []WatchdogIsAsleep if `MaxI2cError` is at least 3 (it is
  5). `CountInv` bounds the failures in a row by what the two timers still allow:
  after a poll its timer is a whole period away, so that before the next pass
  without a poll there is at most one more poll of each dump, unless one lasts as
  long as a period or the clock is set while errors are counted.
* `SetsReachTheBus`: []SetsDelivered. `DeliveryInv` says what the mailbox, the
  writer's copies and the client's request have in common at each pair of places
  of the two threads, as long as no setting has begun before the one before was
  written; a setting whose flag is cleared has been taken by the MCU, or its
  transfer failed. `ComEmpty` keeps it because a repeated request carries the same
  pair.
* `EventsAreReal`: []NoPhantomEvents. `EventInv` counts the differences between
  MCU, table and `prevValue`: each is a change that has not been logged yet. It
  says nothing of registers that are `torn`.
* `PacedSetsAreSafe`: []PacedSetsDoNotMeet if a transfer is shorter than
  `LowPeriod`, `Pace` is more than five times a transfer and `MaxI2cError` is at
  least 3. `PaceInv` bounds the ticks a setting may still spend in the mailbox
  (`TicksLeft`): what the main thread is in the middle of, up to three polls that
  go first (high, low and high again), and the write; setting the clock while one
  waits is excepted.
  The run `hw_sets` covers transfers of exactly `LowPeriod`, where the theorem
  does not apply, up to the first poll that is too slow.

`RangeAlarmsProofs` proves all four properties of `RangeAlarms` for every set of
readings and every width of a word, from `RangeAssumption`:

* `RangeTypeCorrect`: []TypeOK.
* `AlarmsTellTheTruth`: []AlarmsAreTrue, which excepts negative UPS temperatures.
  It needs `NeverKept`, that the `prevValue` of the SHT temperature is 0xFFFF for
  ever: its handler would report every frost as heat if it reported at all.
* `MeasuredBeforeAlarm`: []AlarmsAreMeasured, by `Unpolled`: before the first poll
  `prevValue` is its first value or the one in the table.
* `AlarmsAreNotMissed`: []AlarmsAreRaised. `Follows` says that `prevValue` is
  within `STABLE_VALUE` of the value seen last unless that was too low; it is
  needed because small steps are not kept, and several of them could otherwise
  carry a value out of its range unseen.

`DeviceMonitorProofs` proves, for every set of batches, number of descriptors and
callbacks, and any number of requests and failures, from
`DeviceMonitorAssumption`:

* `MonitorTypeCorrect`: []TypeOK, the descriptors included.
* `RequestsAreSeparate`: []NothingLeftOver (`CleanInv`: at most the callback of
  the message under way is registered, and reloads are due only until `Reload`).
  It says nothing of what the fill loop finds behind its array.
* `NoReplyStorm`: []RepliesAreAnswers (`AnswerInv`: the buffer of a request that
  has been answered holds an acknowledgement, so that a failed `recvfrom` cannot
  raise it again).
* `OneSpoiltReplyEver`: []OneSpoiltReply (`FdInv`: once a command has been missed,
  or a socket, fewer than three descriptors are left, for ever, so that the next
  search or settings request ends in a crash).
* `SettingsPersist`: []PersistedInOrder. It rests on what is known of the lists of
  processes (`GoodList`, `StepInv`: whatever command runs, a key outside the
  network package is set only with its commit behind it, and "uci show" stands
  alone). `SettleInv` says, while processes are
  still to run or to be started, that the last `uci set` of a key that waits sets what was asked
  for last and, outside the network package, has a commit after it, and that a
  key with no set waiting is committed or has its commit to come; `Numbered` keeps
  the values apart from "nothing set".
* `SettingsAreGenuine`: []OnlyGenuine (`GenuineInv`: a request whose commands run
  is in `genuine`, also when it is taken from the buffer a second time; only a
  request's own commands set anything, what is started after them are restarts).

The inductive invariants were model-checked on instances of the runs before they
were proved.

Only model-checked: the liveness properties (fairness and ENABLED are outside
the prover) and the four violations.

## 6. Not modelled

Most of the repository by lines is vendored: the Realtek SDK under `rtk` alone is
some two million lines of register tables and drivers, and `luci`, `mstpd` and
others are third-party packages too. They are not modelled, so the share of lines
that the models cover is small. What follows is about the feed's own packages.

* The client programs and libraries of `tf_ar_poe` and `hwsys_ctrl`: one request,
  one printed answer. `tf_clish`, `tf_file` and `tf_statistics` are command
  tables, scripts and UCI files; `sysfixtime`, which sets the clock by a series of
  settings through `hwsysd`, is represented by the pace of the settings.
* The parsing of the text of configuration options and of settings requests.
* Failures of `pthread_create`, `fopen` and `accept`; the descriptors that
  `autorestartd` and `hwsysd` do not close; in `autorestartd` an error of `setTime`
  that is dropped and the wrap of the speed computation; in `realtek-poe` the
  growth of `cmd_pending` without limit and the index check at `main.c:756`, which
  a reply to a command of the ubus method `sendframe` alone could fail.
* Handlers of `hwsysd` that are in no table entry (SFP current and bias current)
  or do nothing (battery current), and `testStruct.c`, which nothing calls.

Observed while modelling, outside the runs: the temperature of the SHT sensor is
never reported, because `prevValue` is kept only with an alarm and there is no
alarm while it holds 0xFFFF (`events_handlers.c:358`), though the lines after it
log one; the registers of 32 bytes, FIBER_TEC and MEDIA, are never stored, because
their length is not below the size of the field (`i2c_module.c:272`); a manual reboot of a port that the
schedule has switched off powers it up and leaves `ERR_POE_DOWN` set, so that
`tf_autorestart_ctrl` reports a powered port as switched off by the schedule
(`events_module.c:130`); the table entry of the UPS temperature starts at 123
degrees, above its limit, so that an events pass before the first poll logs an
overheating that was not measured (`i2c_module.c:74`); after a first alarm the
UPS temperature's handler does not see the value fall, because its lower limit of
-60 becomes a large number, and so does not report a second overheating of nearly
the same value; a commit of the network settings happens only with a gateway
(`settings_module.c:228`).
