---------------------------- MODULE Autorestart ----------------------------
(***************************************************************************)
(* The autorestart daemon of tf_ar_poe (src/autorestartd): it watches the  *)
(* PoE ports of the switch with a link, ping or speed test, power-cycles a *)
(* port whose test keeps failing, power-cycles a port on the operator's    *)
(* command, and switches ports off and on by a daily schedule.             *)
(*                                                                         *)
(* Three threads share the array portInfoArr and use no lock:              *)
(*   events  eventsHandler, the state machine of every port;               *)
(*   test    test_main, which polls the configuration of every port and    *)
(*           starts one worker thread per port for the test itself;        *)
(*   com     clientHandler, which serves tf_autorestart_ctrl.              *)
(* A step of the model is the code between two points where the thread may *)
(* be held up for long (popen, ping, sleep, accept) or between a test of   *)
(* shared state and the store that depends on it.  A single |= or &= on a  *)
(* word is one step here.                                                  *)
(*                                                                         *)
(* Bit masks are sets of flag names.  Deadlines are kept as the number of  *)
(* clock ticks left, so that time needs no bound.                          *)
(***************************************************************************)
EXTENDS Naturals, FiniteSets

CONSTANTS
  NumPorts,     \* NUM_PORTS
  TestNum,      \* config option test_num, at most 60 after getConfig
  MaxReset,     \* config option max_reset, at most 60 after getConfig
  CountMod,     \* 2^8: the width of errorTestCount
  RebootDelay,  \* ticks between PoE down and PoE up, 15 s in rebootParamInit
  Day,          \* ticks of a day, the period of the schedule
  Configs,      \* the contents a section lanN of tf_autorestart may have
  AdminStates,  \* what a poll may find enabled
  MaxCommands,  \* bound: reboot commands served in one life of the daemon
  MaxRestarts   \* bound: restarts of the daemon

Ports      == 1..NumPorts
AlarmKind  == {"up", "down"}
AdminFlags == {"port", "poe"}

(***************************************************************************)
(* A section of the configuration: the test type, whether setHost or       *)
(* setSpeed accepts its parameters (setSpeed may also refuse good ones, it *)
(* reads errorCode before setting it), the schedule switch, and the ticks  *)
(* until the next occurrence of timeUp and timeDown.  0 stands for a       *)
(* malformed time; up = 0 also for a section that lacks either option.     *)
(***************************************************************************)
ConfigRecords ==
  [state : {"disable", "link", "ping", "speed", "unknown"}, paramOk : BOOLEAN,
   alarm : BOOLEAN, up : 0..Day, down : 0..Day]

ASSUME SizesAssumption ==
  /\ NumPorts \in Nat \ {0}
  /\ TestNum \in Nat
  /\ MaxReset \in Nat
  /\ CountMod \in Nat /\ CountMod > TestNum
  /\ RebootDelay \in Nat \ {0}
  /\ Day \in Nat \ {0}
  /\ MaxCommands \in Nat
  /\ MaxRestarts \in Nat

ASSUME EnvironmentAssumption ==
  /\ Configs \subseteq ConfigRecords
  /\ AdminStates \subseteq SUBSET AdminFlags

VARIABLES
  \* portInfoArr[i], shared by the threads
  state,          \* portResetInfo.state
  event,          \* portResetInfo.event
  errorCode,      \* portResetInfo.errorCode
  errorTestCount, \* portResetInfo.errorTestCount
  resetCount,     \* portResetInfo.resetCount
  test,           \* portConfigInfo.test
  alarm,          \* portConfigInfo.alarm = enable
  alarmStatus,    \* the timeAlarm entries whose status is enable
  alarmLeft,      \* timeAlarm[].targetTime, as ticks left
  enabled,        \* portStateInfo: which of port_state and poe_state are enable
  rebootState,    \* portRebootInfo.rebootState
  rebootEvent,    \* portRebootInfo.rebootEvent
  rebootLeft,     \* portRebootInfo.rebootTimeStart, as ticks left
  \* where each thread is
  evPort, evPc,   \* events: the port it visits and the place in the visit
  tsPort, worker, \* test: the port it polls next; each port's worker thread
  com,            \* com: what it is about to do, and to which port
  \* the environment
  poe,            \* the last ubus "poe manage" of each port and its reason
  commands, restarts,
  \* history
  by,             \* who asked for the power cycle under way or last done
  spent,          \* automatic power-downs since ERR_OK or a manual command
  age,            \* ticks since the last power-down of a reboot
  orphan          \* why no one is left to power the port up again

shared   == <<state, event, errorCode>>
counters == <<errorTestCount, resetCount>>
config   == <<test, alarm>>
schedule == <<alarmStatus, alarmLeft>>
reboot   == <<rebootState, rebootEvent, rebootLeft>>
events   == <<evPort, evPc>>
tests    == <<tsPort, worker>>
bounds   == <<commands, restarts>>
history  == <<by, spent, age, orphan>>
vars == <<shared, counters, config, schedule, enabled, reboot, events, tests,
          com, poe, bounds, history>>

ArState      == {"IDLE", "REGULAR", "REBOOT"}
ArEvent      == {"TEST_OK", "AUTO_RESTART", "MANUAL_RESTART"}
RebootStates == {"IDLE", "INIT", "POE_DOWN", "POE_UP"}
RebootEvents == {"START", "TIMER_STOP"}
TestFailureNoLink == {"TEST_SPEED", "TEST_PING"}  \* mutant: a flag left out
TestFailure  == {"TEST_LINK", "TEST_SPEED", "TEST_PING"}
TestBlocked  == {"PORT_DISABLE", "TEST_DISABLE", "PORT_SHUTDOWN", "POE_DOWN",
                 "PoE_DISABLE"}
ConfigFault  == {"IP_NOT_VALID", "TIME_NOT_VALID", "SPEED_VALUE", "PORT_DISABLE"}
ErrorFlags   == {"OK", "REBOOTING", "MANUAL_REBOOT", "TEST_TYPE"} \cup
                TestFailure \cup TestBlocked \cup ConfigFault
TestTypes    == {"disable", "link", "ping", "speed"}
EvPcs        == {"visit", "downDone", "upDone", "reload", "alarm",
                 "alarmDownDone", "alarmUpDone"}
WorkerPcs    == {"none", "pinging", "pingSkipped", "speeding", "speedSkipped"}
                \cup TestTypes
PoeRecords   == [on : BOOLEAN, by : {"boot", "reboot", "schedule"}]

PortEnabled(i) == enabled[i] = AdminFlags
-----------------------------------------------------------------------------
(***************************************************************************)
(* Reading the configuration: getPortParam, with setLink, setHost,         *)
(* setSpeed, setTime, setResetZeroValue and set_errorHandler.              *)
(***************************************************************************)
ConfigError(c) ==
  CASE c.state = "unknown" -> {"TEST_TYPE"}
    [] c.state = "disable" -> {"TEST_DISABLE"}
    [] c.state = "link"    -> {"OK"}
    [] c.state = "ping"    -> IF c.paramOk THEN {} ELSE {"IP_NOT_VALID"}
    [] c.state = "speed"   -> IF c.paramOk THEN {"OK"} ELSE {"SPEED_VALUE"}

\* set_errorHandler: a faulty configuration switches the test off.
set_errorHandler(errors, current) ==
  IF errors \cap ConfigFault # {} THEN "disable" ELSE current

ConfigTest(c) ==
  set_errorHandler(ConfigError(c), IF c.state = "unknown" THEN "disable" ELSE c.state)

\* setTime: an occurrence that cannot be computed leaves the old deadline, and
\* a bad timeUp also keeps timeDown from being set.
setTime(c, left) ==
  IF ~c.alarm THEN left
  ELSE [up   |-> IF c.up > 0 THEN c.up ELSE left.up,
        down |-> IF c.up > 0 /\ c.down > 0 THEN c.down ELSE left.down]

NoDeadline == [k \in AlarmKind |-> 0]

(***************************************************************************)
(* ar_mainInit: getPortsParam and rebootParamInit on zeroed static memory. *)
(***************************************************************************)
Init ==
  \E c \in [Ports -> Configs] :
    /\ state = [i \in Ports |-> "REGULAR"]
    /\ event = [i \in Ports |-> {}]
    /\ errorCode = [i \in Ports |-> ConfigError(c[i])]
    /\ errorTestCount = [i \in Ports |-> 0]
    /\ resetCount = [i \in Ports |-> 0]
    /\ test = [i \in Ports |-> ConfigTest(c[i])]
    /\ alarm = [i \in Ports |-> c[i].alarm]
    /\ alarmStatus = [i \in Ports |-> {}]
    /\ alarmLeft = [i \in Ports |-> setTime(c[i], NoDeadline)]
    /\ enabled = [i \in Ports |-> {}]
    /\ rebootState = [i \in Ports |-> "IDLE"]
    /\ rebootEvent = [i \in Ports |-> {}]
    /\ rebootLeft = [i \in Ports |-> 0]
    /\ evPort = 1 /\ evPc = "visit"
    /\ tsPort = 1
    /\ worker = [i \in Ports |-> "none"]
    /\ com = [pc |-> "idle", port |-> 1]
    /\ poe = [i \in Ports |-> [on |-> TRUE, by |-> "boot"]]
    /\ commands = 0 /\ restarts = 0
    /\ by = [i \in Ports |-> "auto"]
    /\ spent = [i \in Ports |-> 0]
    /\ age = [i \in Ports |-> RebootDelay]
    /\ orphan = [i \in Ports |-> "no"]
-----------------------------------------------------------------------------
(***************************************************************************)
(* The events thread.  A visit of port i runs the handler of its state and *)
(* then, if the schedule is on, alarmHandler.                              *)
(***************************************************************************)
Visit(i)   == evPc = "visit" /\ evPort = i
EvGoto(pc) == evPc' = pc /\ UNCHANGED evPort
NextVisit  == evPc' = "visit" /\ evPort' = (evPort % NumPorts) + 1
poe_Control(i, on, who) == poe' = [poe EXCEPT ![i] = [on |-> on, by |-> who]]

\* eventsHandler, IDLE_STATE: a passed test brings the port back to work.
EvIdle(i) ==
  /\ Visit(i) /\ state[i] = "IDLE"
  /\ IF "TEST_OK" \in event[i]
     THEN /\ event' = [event EXCEPT ![i] = @ \ {"TEST_OK"}]
          /\ state' = [state EXCEPT ![i] = "REGULAR"]
          /\ errorCode' = [errorCode EXCEPT ![i] = @ \ {"PORT_SHUTDOWN"}]
     ELSE UNCHANGED shared
  /\ EvGoto("alarm")
  /\ UNCHANGED <<counters, config, schedule, enabled, reboot, tests, com, poe,
                 bounds, history>>

\* test_ErrorHandler: first the good verdict, then the bad one.
OkDecrement(i) ==
  IF "OK" \in errorCode[i] /\ errorTestCount[i] > 0 THEN errorTestCount[i] - 1
                                                    ELSE errorTestCount[i]
RecoveredUnseen(i) == OkDecrement(i) = 0  \* mutant: the verdict is not looked at
Recovered(i)   == "OK" \in errorCode[i] /\ OkDecrement(i) = 0
ErrorsAfter(i) == errorCode[i] \ (IF Recovered(i) THEN {"PORT_SHUTDOWN"} ELSE {})
Failing(i)     == ErrorsAfter(i) \cap TestBlocked = {} /\ errorCode[i] \cap TestFailure # {}

EvRegular(i) ==
  LET count == IF Failing(i) THEN (OkDecrement(i) + 1) % CountMod ELSE OkDecrement(i)
      arm   == Failing(i) /\ count >= TestNum
  IN /\ Visit(i) /\ state[i] = "REGULAR"
     /\ errorTestCount' = [errorTestCount EXCEPT ![i] = count]
     /\ resetCount' = [resetCount EXCEPT ![i] = IF Recovered(i) THEN 0 ELSE @]
     /\ errorCode' = [errorCode EXCEPT ![i] = ErrorsAfter(i)]
     /\ event' = [event EXCEPT ![i] = IF arm THEN @ \cup {"AUTO_RESTART"} ELSE @]
     /\ state' = [state EXCEPT ![i] = IF arm THEN "REBOOT" ELSE @]
     /\ EvGoto("alarm")
     /\ UNCHANGED <<config, schedule, enabled, reboot, tests, com, poe, bounds, history>>

(***************************************************************************)
(* rebootHandler, REBOOT_STATE_IDLE: autoResetHandler takes AUTO_RESTART,  *)
(* then, with what that has left, manualResetHandler takes MANUAL_RESTART. *)
(***************************************************************************)
GivesUpLate(i)  == resetCount[i] > MaxReset  \* mutant: one reset too many
GivesUp(i)      == resetCount[i] >= MaxReset
AutoErrors(i)   == IF GivesUp(i)
                   THEN (errorCode[i] \ {"OK", "REBOOTING"}) \cup {"PORT_SHUTDOWN"}
                   ELSE (errorCode[i] \ {"OK"}) \cup {"REBOOTING"}
ManualErrors(e) == (e \ {"OK", "PORT_SHUTDOWN"}) \cup {"MANUAL_REBOOT"}
TakesRequestsAlways(i) == TRUE  \* mutant: the reboot state is not looked at
TakesRequests(i) == rebootState[i] = "IDLE"

EvRebootIdle(i) ==
  LET auto   == "AUTO_RESTART" \in event[i]
      manual == "MANUAL_RESTART" \in event[i] /\ PortEnabled(i)
      stop   == auto /\ GivesUp(i)
      errors == IF auto THEN AutoErrors(i) ELSE errorCode[i]
  IN /\ Visit(i) /\ state[i] = "REBOOT" /\ TakesRequests(i)
     /\ event' = [event EXCEPT ![i] = @ \ ({"AUTO_RESTART"} \cup
                                          (IF manual THEN {"MANUAL_RESTART"} ELSE {}))]
     /\ errorCode' = [errorCode EXCEPT ![i] = IF manual THEN ManualErrors(errors) ELSE errors]
     /\ state' = [state EXCEPT ![i] = IF stop THEN "IDLE" ELSE @]
     /\ test' = [test EXCEPT ![i] = IF stop THEN set_errorHandler(errors, @) ELSE @]
     /\ errorTestCount' = [errorTestCount EXCEPT ![i] =
                             IF manual \/ (auto /\ ~stop) THEN 0 ELSE @]
     /\ resetCount' = [resetCount EXCEPT ![i] =
                         IF manual THEN 0 ELSE IF auto /\ ~stop THEN @ + 1 ELSE @]
     /\ rebootState' = [rebootState EXCEPT ![i] =
                          IF manual \/ (auto /\ ~stop) THEN "INIT" ELSE "IDLE"]
     /\ by' = [by EXCEPT ![i] = IF manual THEN "manual" ELSE IF auto /\ ~stop THEN "auto" ELSE @]
     /\ EvGoto("alarm")
     /\ UNCHANGED <<alarm, schedule, enabled, rebootEvent, rebootLeft, tests, com,
                    poe, bounds, spent, age, orphan>>

\* REBOOT_STATE_INIT.
EvRebootInit(i) ==
  /\ Visit(i) /\ state[i] = "REBOOT" /\ rebootState[i] = "INIT"
  /\ rebootState' = [rebootState EXCEPT ![i] = "POE_DOWN"]
  /\ rebootEvent' = [rebootEvent EXCEPT ![i] = @ \cup {"START"}]
  /\ EvGoto("alarm")
  /\ UNCHANGED <<shared, counters, config, schedule, enabled, rebootLeft, tests,
                 com, poe, bounds, history>>

\* REBOOT_STATE_POE_DOWN with REBOOT_EVENT_START: the port is switched off ...
EvPowerDown(i) ==
  /\ Visit(i) /\ state[i] = "REBOOT" /\ rebootState[i] = "POE_DOWN"
  /\ "START" \in rebootEvent[i]
  /\ rebootEvent' = [rebootEvent EXCEPT ![i] = @ \ {"START"}]
  /\ poe_Control(i, FALSE, "reboot")
  /\ spent' = [spent EXCEPT ![i] = IF by[i] = "auto" THEN @ + 1 ELSE @]
  /\ age' = [age EXCEPT ![i] = 0]
  /\ orphan' = [orphan EXCEPT ![i] = "no"]
  /\ EvGoto("downDone")
  /\ UNCHANGED <<shared, counters, config, schedule, enabled, rebootState,
                 rebootLeft, tests, com, bounds, by>>

\* ... and, once ubus has answered, the deadline is set; it is not due yet.
EvPowerDownDone(i) ==
  /\ evPc = "downDone" /\ evPort = i
  /\ rebootLeft' = [rebootLeft EXCEPT ![i] = RebootDelay]
  /\ EvGoto("alarm")
  /\ UNCHANGED <<shared, counters, config, schedule, enabled, rebootState,
                 rebootEvent, tests, com, poe, bounds, history>>

\* REBOOT_STATE_POE_DOWN without REBOOT_EVENT_START: wait for the deadline.
TimerIgnored(i) == TRUE                         \* mutant: no wait
TimerFlipped(i) == rebootLeft[i] > RebootDelay  \* mutant: <= for >=
TimerDue(i)     == rebootLeft[i] = 0

EvPoeDownWait(i) ==
  /\ Visit(i) /\ state[i] = "REBOOT" /\ rebootState[i] = "POE_DOWN"
  /\ "START" \notin rebootEvent[i]
  /\ rebootEvent' = [rebootEvent EXCEPT ![i] =
                       IF TimerDue(i) THEN @ \cup {"TIMER_STOP"} ELSE @]
  /\ rebootState' = [rebootState EXCEPT ![i] =
                       IF "TIMER_STOP" \in rebootEvent'[i] THEN "POE_UP" ELSE @]
  /\ EvGoto("alarm")
  /\ UNCHANGED <<shared, counters, config, schedule, enabled, rebootLeft, tests,
                 com, poe, bounds, history>>

\* REBOOT_STATE_POE_UP: the port is switched on, unless it is disabled ...
EvPowerUp(i) ==
  /\ Visit(i) /\ state[i] = "REBOOT" /\ rebootState[i] = "POE_UP"
  /\ rebootEvent' = [rebootEvent EXCEPT ![i] = @ \ {"TIMER_STOP"}]
  /\ IF PortEnabled(i)
     THEN poe_Control(i, TRUE, "reboot") /\ UNCHANGED orphan
     ELSE UNCHANGED poe /\ orphan' = [orphan EXCEPT ![i] = "disabled"]
  /\ EvGoto("upDone")
  /\ UNCHANGED <<shared, counters, config, schedule, enabled, rebootState,
                 rebootLeft, tests, com, bounds, by, spent, age>>

\* ... and, once ubus has answered, the reboot ends.  A MANUAL_RESTART still
\* pending is dropped and the port's configuration read again.
StateKept(i)        == state[i]  \* mutant: the port is left in REBOOT_STATE
StateAfterReboot(i) == "REGULAR"

EvRebootDone(i) ==
  LET manual == "MANUAL_RESTART" \in event[i]
  IN /\ evPc = "upDone" /\ evPort = i
     /\ state' = [state EXCEPT ![i] = StateAfterReboot(i)]
     /\ rebootState' = [rebootState EXCEPT ![i] = "IDLE"]
     /\ errorCode' = [errorCode EXCEPT ![i] = @ \ ({"REBOOTING", "MANUAL_REBOOT"} \cup
                                          (IF manual THEN {"PORT_SHUTDOWN"} ELSE {}))]
     /\ event' = [event EXCEPT ![i] = @ \ {"MANUAL_RESTART"}]
     /\ EvGoto(IF manual THEN "reload" ELSE "alarm")
     /\ UNCHANGED <<counters, config, schedule, enabled, rebootEvent, rebootLeft,
                    tests, com, poe, bounds, history>>

\* getPortParam(portNum - 1, 1), once ubus has answered.
EvReload(i) ==
  \E c \in Configs :
    /\ evPc = "reload" /\ evPort = i
    /\ state' = [state EXCEPT ![i] = "REGULAR"]
    /\ event' = [event EXCEPT ![i] = {}]
    /\ errorCode' = [errorCode EXCEPT ![i] = ConfigError(c)]
    /\ errorTestCount' = [errorTestCount EXCEPT ![i] = 0]
    /\ resetCount' = [resetCount EXCEPT ![i] = 0]
    /\ test' = [test EXCEPT ![i] = ConfigTest(c)]
    /\ alarm' = [alarm EXCEPT ![i] = c.alarm]
    /\ alarmLeft' = [alarmLeft EXCEPT ![i] = setTime(c, @)]
    /\ EvGoto("alarm")
    /\ UNCHANGED <<alarmStatus, enabled, reboot, tests, com, poe, bounds, history>>

(***************************************************************************)
(* alarmHandler.  port_timeAlarm turns a passed deadline into a status and *)
(* sets the deadline one day on; outside REBOOT_STATE a status becomes a   *)
(* PoE command, off before on.                                             *)
(***************************************************************************)
DueAlarms(i) == {k \in AlarmKind : alarmLeft[i][k] = 0}
port_runTestTime(i) ==
  alarmLeft' = [alarmLeft EXCEPT ![i] =
                  [k \in AlarmKind |-> IF k \in DueAlarms(i) THEN Day ELSE @[k]]]
Pending(i) == alarmStatus[i] \cup DueAlarms(i)
AlarmAllowedIdle(i) == state[i] = "IDLE"  \* mutant: wrong state asked for
AlarmAllowed(i) == state[i] # "REBOOT"

\* The schedule is off: the visit ends here.
EvAlarmOff(i) ==
  /\ evPc = "alarm" /\ evPort = i
  /\ ~alarm[i]
  /\ NextVisit
  /\ UNCHANGED <<shared, counters, config, schedule, enabled, reboot, tests, com,
                 poe, bounds, history>>

\* Nothing to do now: no status is set, or the port is being rebooted.
EvAlarmWait(i) ==
  /\ evPc = "alarm" /\ evPort = i
  /\ alarm[i]
  /\ ~AlarmAllowed(i) \/ Pending(i) = {}
  /\ port_runTestTime(i)
  /\ alarmStatus' = [alarmStatus EXCEPT ![i] = Pending(i)]
  /\ NextVisit
  /\ UNCHANGED <<shared, counters, config, enabled, reboot, tests, com, poe,
                 bounds, history>>

EvAlarmDown(i) ==
  /\ evPc = "alarm" /\ evPort = i
  /\ alarm[i] /\ AlarmAllowed(i) /\ "down" \in Pending(i)
  /\ port_runTestTime(i)
  /\ alarmStatus' = [alarmStatus EXCEPT ![i] = Pending(i) \ {"down"}]
  /\ errorCode' = [errorCode EXCEPT ![i] = @ \cup {"POE_DOWN"}]
  /\ poe_Control(i, FALSE, "schedule")
  /\ EvGoto("alarmDownDone")
  /\ UNCHANGED <<state, event, counters, config, enabled, reboot, tests, com,
                 bounds, history>>

\* The up half, reached at once or after the down command has been answered.
EvAlarmUp(i) ==
  /\ evPort = i
  /\ \/ /\ evPc = "alarm" /\ alarm[i] /\ AlarmAllowed(i)
        /\ Pending(i) = {"up"}
        /\ port_runTestTime(i)
     \/ /\ evPc = "alarmDownDone" /\ "up" \in alarmStatus[i]
        /\ UNCHANGED alarmLeft
  /\ alarmStatus' = [alarmStatus EXCEPT ![i] = {}]
  /\ poe_Control(i, TRUE, "schedule")
  /\ EvGoto("alarmUpDone")
  /\ UNCHANGED <<shared, counters, config, enabled, reboot, tests, com, bounds, history>>

EvAlarmDone(i) ==
  /\ evPort = i
  /\ \/ evPc = "alarmDownDone" /\ "up" \notin alarmStatus[i] /\ UNCHANGED errorCode
     \/ /\ evPc = "alarmUpDone"
        /\ errorCode' = [errorCode EXCEPT ![i] = @ \ {"POE_DOWN"}]
  /\ NextVisit
  /\ UNCHANGED <<state, event, counters, config, schedule, enabled, reboot, tests,
                 com, poe, bounds, history>>
-----------------------------------------------------------------------------
(***************************************************************************)
(* The test thread polls one port after the other and starts its worker,   *)
(* then waits for all workers and starts over.                             *)
(***************************************************************************)
\* get_PortAndPoeState: anything but "enable", a failed ubus call included,
\* counts as disabled.
PollErrors(i, found) ==
  (errorCode[i] \ (IF found = AdminFlags THEN {} ELSE {"OK"}))
    \cup (IF "port" \in found THEN {} ELSE {"PORT_DISABLE"})
    \cup (IF "poe" \in found THEN {} ELSE {"PoE_DISABLE"})

TsPoll(i) ==
  \E found \in AdminStates :
    /\ tsPort = i
    /\ enabled' = [enabled EXCEPT ![i] = found]
    /\ errorCode' = [errorCode EXCEPT ![i] = PollErrors(i, found)]
    /\ state' = [state EXCEPT ![i] = IF found = AdminFlags THEN @ ELSE "IDLE"]
    /\ worker' = [worker EXCEPT ![i] = test[i]]
    /\ tsPort' = tsPort + 1
    /\ UNCHANGED <<event, counters, config, schedule, reboot, events, com, poe,
                   bounds, history>>

TsJoin ==
  /\ tsPort = NumPorts + 1
  /\ \A i \in Ports : worker[i] = "none"
  /\ tsPort' = 1
  /\ UNCHANGED <<shared, counters, config, schedule, enabled, reboot, events,
                 worker, com, poe, bounds, history>>

WorkerGoto(i, pc) == worker' = [worker EXCEPT ![i] = pc] /\ UNCHANGED tsPort
RaiseTestOk(i, ok) ==
  event' = [event EXCEPT ![i] = IF ok /\ state[i] = "IDLE" THEN @ \cup {"TEST_OK"} ELSE @]
ClearSpent(i, ok) == spent' = [spent EXCEPT ![i] = IF ok THEN 0 ELSE @]

\* port_runTestDisable.
WkDisable(i) ==
  /\ worker[i] = "disable"
  /\ errorCode' = [errorCode EXCEPT ![i] = (@ \ {"OK"}) \cup {"TEST_DISABLE"}]
  /\ WorkerGoto(i, "none")
  /\ UNCHANGED <<state, event, counters, config, schedule, enabled, reboot, events,
                 com, poe, bounds, history>>

\* port_runTestLink, the whole of the link test and the first part of the
\* others; ERR_TEST_LINK then tells the second part to fail at once.
AfterLink(kind, up) ==
  CASE kind = "link"  -> "none"
    [] kind = "ping"  -> IF up THEN "pinging" ELSE "pingSkipped"
    [] kind = "speed" -> IF up THEN "speeding" ELSE "speedSkipped"

WkLink(i) ==
  \E up \in BOOLEAN :
    /\ worker[i] \in {"link", "ping", "speed"}
    /\ errorCode' = [errorCode EXCEPT ![i] =
                       IF up THEN (@ \ {"TEST_LINK"}) \cup {"OK"}
                             ELSE (@ \ {"OK"}) \cup {"TEST_LINK"}]
    /\ RaiseTestOk(i, up /\ test[i] = "link")
    /\ ClearSpent(i, up)
    /\ WorkerGoto(i, AfterLink(worker[i], up))
    /\ UNCHANGED <<state, counters, config, schedule, enabled, reboot, events, com,
                   poe, bounds, by, age, orphan>>

\* ping: an answer within the timeout or not, and no attempt without a link.
ping(i) == IF worker[i] = "pinging" THEN BOOLEAN ELSE {FALSE}

\* port_runTestPing, when ping has returned: an answer overwrites every flag.
WkPing(i) ==
  \E ok \in ping(i) :
    /\ worker[i] \in {"pinging", "pingSkipped"}
    /\ errorCode' = [errorCode EXCEPT ![i] =
                       IF ok THEN {"OK"} ELSE (@ \ {"OK"}) \cup {"TEST_PING"}]
    /\ RaiseTestOk(i, ok)
    /\ ClearSpent(i, ok)
    /\ WorkerGoto(i, "none")
    /\ UNCHANGED <<state, counters, config, schedule, enabled, reboot, events, com,
                   poe, bounds, by, age, orphan>>

\* port_runTestSpeed: ok is the speed being within its limits.
WkSpeed(i) ==
  \E ok \in BOOLEAN :
    /\ worker[i] = "speeding" \/ (worker[i] = "speedSkipped" /\ ~ok)
    /\ errorCode' = [errorCode EXCEPT ![i] =
                       IF ok THEN (@ \ {"TEST_SPEED"}) \cup {"OK"}
                             ELSE (@ \ {"OK"}) \cup {"TEST_SPEED"}]
    /\ RaiseTestOk(i, ok)
    /\ ClearSpent(i, ok)
    /\ WorkerGoto(i, "none")
    /\ UNCHANGED <<state, counters, config, schedule, enabled, reboot, events, com,
                   poe, bounds, by, age, orphan>>
-----------------------------------------------------------------------------
(***************************************************************************)
(* The com thread: cmd_rebootHandler, in two steps, the test of the port's *)
(* state and the store.  cmd_sendStatus only reads.                        *)
(***************************************************************************)
ComReboot(i) ==
  /\ com.pc = "idle" /\ commands < MaxCommands
  /\ commands' = commands + 1
  /\ com' = [pc |-> IF state[i] = "REBOOT" THEN "refuse"
                    ELSE IF PortEnabled(i) THEN "accept" ELSE "idle",
             port |-> i]
  /\ UNCHANGED <<shared, counters, config, schedule, enabled, reboot, events, tests,
                 poe, restarts, history>>

\* Status 1: the port is to be rebooted.
ComAccept(i) ==
  /\ com = [pc |-> "accept", port |-> i]
  /\ state' = [state EXCEPT ![i] = "REBOOT"]
  /\ event' = [event EXCEPT ![i] = @ \cup {"MANUAL_RESTART"}]
  /\ spent' = [spent EXCEPT ![i] = 0]
  /\ com' = [com EXCEPT !.pc = "idle"]
  /\ UNCHANGED <<errorCode, counters, config, schedule, enabled, reboot, events,
                 tests, poe, bounds, by, age, orphan>>

\* Status 2: the port is said to be rebooting already.
ComRefuse(i) ==
  /\ com = [pc |-> "refuse", port |-> i]
  /\ event' = [event EXCEPT ![i] = @ \ {"MANUAL_RESTART"}]
  /\ com' = [com EXCEPT !.pc = "idle"]
  /\ UNCHANGED <<state, errorCode, counters, config, schedule, enabled, reboot,
                 events, tests, poe, bounds, history>>
-----------------------------------------------------------------------------
(***************************************************************************)
(* The environment: the clock, and procd, which stops and starts the       *)
(* daemon whenever the configuration tf_autorestart is committed.          *)
(***************************************************************************)
CountDown(n) == IF n = 0 THEN 0 ELSE n - 1

Tick ==
  /\ rebootLeft' = [i \in Ports |-> CountDown(rebootLeft[i])]
  /\ alarmLeft' = [i \in Ports |-> [k \in AlarmKind |-> CountDown(alarmLeft[i][k])]]
  /\ age' = [i \in Ports |-> IF age[i] < RebootDelay THEN age[i] + 1 ELSE age[i]]
  /\ UNCHANGED <<shared, counters, config, alarmStatus, enabled, rebootState,
                 rebootEvent, events, tests, com, poe, bounds, by, spent, orphan>>

\* reload_service: the memory is lost, what ubus was told is not.
Restart ==
  \E c \in [Ports -> Configs] :
    /\ restarts < MaxRestarts
    /\ restarts' = restarts + 1
    /\ state' = [i \in Ports |-> "REGULAR"]
    /\ event' = [i \in Ports |-> {}]
    /\ errorCode' = [i \in Ports |-> ConfigError(c[i])]
    /\ errorTestCount' = [i \in Ports |-> 0]
    /\ resetCount' = [i \in Ports |-> 0]
    /\ test' = [i \in Ports |-> ConfigTest(c[i])]
    /\ alarm' = [i \in Ports |-> c[i].alarm]
    /\ alarmStatus' = [i \in Ports |-> {}]
    /\ alarmLeft' = [i \in Ports |-> setTime(c[i], NoDeadline)]
    /\ enabled' = [i \in Ports |-> {}]
    /\ rebootState' = [i \in Ports |-> "IDLE"]
    /\ rebootEvent' = [i \in Ports |-> {}]
    /\ rebootLeft' = [i \in Ports |-> 0]
    /\ evPort' = 1 /\ evPc' = "visit"
    /\ tsPort' = 1
    /\ worker' = [i \in Ports |-> "none"]
    /\ com' = [pc |-> "idle", port |-> 1]
    /\ commands' = 0
    /\ by' = [i \in Ports |-> "auto"]
    /\ spent' = [i \in Ports |-> 0]
    /\ orphan' = [i \in Ports |-> IF poe[i].on THEN "no" ELSE "restart"]
    /\ UNCHANGED <<poe, age>>
-----------------------------------------------------------------------------
EventsStep(i) ==
  \/ EvIdle(i) \/ EvRegular(i) \/ EvRebootIdle(i) \/ EvRebootInit(i)
  \/ EvPowerDown(i) \/ EvPowerDownDone(i) \/ EvPoeDownWait(i)
  \/ EvPowerUp(i) \/ EvRebootDone(i) \/ EvReload(i)
  \/ EvAlarmOff(i) \/ EvAlarmWait(i) \/ EvAlarmDown(i) \/ EvAlarmUp(i)
  \/ EvAlarmDone(i)

WorkerStep(i) == WkDisable(i) \/ WkLink(i) \/ WkPing(i) \/ WkSpeed(i)
ComFinish(i)  == ComAccept(i) \/ ComRefuse(i)

Next ==
  \/ \E i \in Ports : EventsStep(i) \/ TsPoll(i) \/ WorkerStep(i)
                      \/ ComReboot(i) \/ ComFinish(i)
  \/ TsJoin
  \/ Tick
  \/ Restart

Spec == Init /\ [][Next]_vars

(***************************************************************************)
(* The threads are endless loops that only block in calls which return,    *)
(* and the clock advances; commands and restarts need never come.          *)
(***************************************************************************)
Fairness ==
  /\ WF_vars(\E i \in Ports : EventsStep(i))
  /\ WF_vars(TsJoin \/ \E i \in Ports : TsPoll(i))
  /\ \A i \in Ports : WF_vars(WorkerStep(i)) /\ WF_vars(ComFinish(i))
  /\ WF_vars(Tick)

FairSpec == Spec /\ Fairness
-----------------------------------------------------------------------------
(***************************************************************************)
(* Properties.                                                             *)
(***************************************************************************)
\* Every field keeps to its type; in particular resetCount never passes
\* max_reset, however often autoResetHandler runs.
TypeOK ==
  /\ state \in [Ports -> ArState]
  /\ event \in [Ports -> SUBSET ArEvent]
  /\ errorCode \in [Ports -> SUBSET ErrorFlags]
  /\ errorTestCount \in [Ports -> 0..(CountMod - 1)]
  /\ resetCount \in [Ports -> 0..MaxReset]
  /\ test \in [Ports -> TestTypes]
  /\ alarm \in [Ports -> BOOLEAN]
  /\ alarmStatus \in [Ports -> SUBSET AlarmKind]
  /\ alarmLeft \in [Ports -> [AlarmKind -> 0..Day]]
  /\ enabled \in [Ports -> SUBSET AdminFlags]
  /\ rebootState \in [Ports -> RebootStates]
  /\ rebootEvent \in [Ports -> SUBSET RebootEvents]
  /\ rebootLeft \in [Ports -> 0..RebootDelay]
  /\ evPort \in Ports /\ evPc \in EvPcs
  /\ tsPort \in 1..(NumPorts + 1)
  /\ worker \in [Ports -> WorkerPcs]
  /\ com \in [pc : {"idle", "accept", "refuse"}, port : Ports]
  /\ poe \in [Ports -> PoeRecords]
  /\ commands \in 0..MaxCommands /\ restarts \in 0..MaxRestarts
  /\ by \in [Ports -> {"auto", "manual"}]
  /\ spent \in [Ports -> Nat]
  /\ age \in [Ports -> 0..RebootDelay]
  /\ orphan \in [Ports -> {"no", "disabled", "restart"}]

\* max_reset bounds automatic power cycles: a port is switched off at most
\* max_reset + 1 times on the daemon's own initiative unless in between a test
\* raised ERR_OK or an operator's command was accepted.  The one extra cycle is
\* real: an ERR_OK or a command that comes after autoResetHandler but before the
\* power-down is still there after the cycle and clears resetCount.
AutoCyclesBounded == \A i \in Ports : spent[i] <= MaxReset + 1

\* A port that a reboot has switched off is either still owed its power-up by
\* the reboot state machine, or was found disabled when the power-up was due,
\* or the daemon was restarted in between; no interleaving of commands, polls
\* and schedule makes rebootHandler forget it in any other way.
PowerAccountedFor ==
  \A i \in Ports :
    ~poe[i].on /\ poe[i].by = "reboot" =>
      rebootState[i] \in {"POE_DOWN", "POE_UP"} \/ orphan[i] # "no"

\* The refinement mapping to PowerCycle: the reboot state machine with its
\* flags, and the place of the events thread once the power-up is decided.
PhaseOf(i) ==
  CASE rebootState[i] = "IDLE" -> "none"
    [] rebootState[i] = "INIT" -> "prepared"
    [] rebootState[i] = "POE_DOWN" ->
         IF "START" \in rebootEvent[i] THEN "prepared" ELSE "off"
    [] rebootState[i] = "POE_UP" ->
         IF evPc = "upDone" /\ evPort = i THEN "done" ELSE "due"

Cycle == INSTANCE PowerCycle WITH phase <- [i \in Ports |-> PhaseOf(i)], off <- age

\* The daemon implements PowerCycle: whatever the three threads do to a port's
\* state, event and error words, each reboot of it switches off, waits, and
\* switches on or finds the port disabled, in this order and once each.
ImplementsPowerCycle == Cycle!PSpec

\* A port that is off in the middle of a reboot gets its power back, unless it
\* is found disabled or the daemon is restarted meanwhile; a second command, a
\* test result or a due alarm does not stop it.
PowerReturns ==
  \A i \in Ports :
    (~poe[i].on /\ poe[i].by = "reboot" /\ state[i] = "REBOOT" /\ PortEnabled(i))
      ~> (poe[i].on \/ ~PortEnabled(i) \/ orphan[i] # "no")

\* No port stays in REBOOT_STATE for ever.
RebootEnds == \A i \in Ports : state[i] = "REBOOT" ~> state[i] # "REBOOT"

\* "manual rebooting..." is shown while a reboot is under way: the flag behind
\* it, ERR_MANUAL_REBOOT, goes away again.
ManualRebootEnds ==
  \A i \in Ports :
    "MANUAL_REBOOT" \in errorCode[i] ~> "MANUAL_REBOOT" \notin errorCode[i]

\* A port whose link stays down is tried max_reset times and then left alone,
\* whatever the schedule does and whether or not an operator intervenes.
DeadPortGivenUp ==
  \A i \in Ports : <>[]("TEST_LINK" \in errorCode[i]) => <>[](state[i] = "IDLE")

\* A scheduled switch-off that falls into a reboot is carried out after it.
ScheduledOffServed ==
  \A i \in Ports : "down" \in alarmStatus[i] ~> "down" \notin alarmStatus[i]

\* "port disable" (ERR_PORT_DISABLE) goes away once the port stays enabled.
DisableMessageClears ==
  \A i \in Ports :
    <>[]PortEnabled(i) => <>[]("PORT_DISABLE" \notin errorCode[i])
=============================================================================
