------------------------- MODULE AutorestartProofs -------------------------
(***************************************************************************)
(* Proofs about Autorestart for every number of ports, every test_num and  *)
(* max_reset, every off-time and every set of configurations and poll      *)
(* results.                                                                *)
(***************************************************************************)
EXTENDS Autorestart, TLAPS

-----------------------------------------------------------------------------
(***************************************************************************)
(* Type correctness.                                                       *)
(***************************************************************************)

\* What getPortParam stores has the right type: the error word and the test
\* type that come out of a configuration section, and the deadlines.
LEMMA ConfigTypes ==
  ASSUME NEW c \in Configs
  PROVE  /\ ConfigError(c) \in SUBSET ErrorFlags
         /\ ConfigTest(c) \in TestTypes
         /\ c.alarm \in BOOLEAN
         /\ \A left \in [AlarmKind -> 0..Day] : setTime(c, left) \in [AlarmKind -> 0..Day]
<1>1. c \in ConfigRecords
  BY EnvironmentAssumption
<1>2. /\ c.state \in {"disable", "link", "ping", "speed", "unknown"}
      /\ c.paramOk \in BOOLEAN /\ c.alarm \in BOOLEAN
      /\ c.up \in 0..Day /\ c.down \in 0..Day
  BY <1>1 DEF ConfigRecords
<1>3. ConfigError(c) \in SUBSET ErrorFlags
  BY <1>2 DEF ConfigError, ErrorFlags, TestFailure, TestBlocked, ConfigFault
<1>4. ConfigTest(c) \in TestTypes
  BY <1>2 DEF ConfigTest, set_errorHandler, TestTypes
<1>5. ASSUME NEW left \in [AlarmKind -> 0..Day]
      PROVE  setTime(c, left) \in [AlarmKind -> 0..Day]
  BY <1>2 DEF setTime, AlarmKind
<1> QED
  BY <1>2, <1>3, <1>4, <1>5

LEMMA InitType == Init => TypeOK
<1> SUFFICES ASSUME Init PROVE TypeOK
  OBVIOUS
<1>1. PICK c \in [Ports -> Configs] :
        /\ errorCode = [i \in Ports |-> ConfigError(c[i])]
        /\ test = [i \in Ports |-> ConfigTest(c[i])]
        /\ alarm = [i \in Ports |-> c[i].alarm]
        /\ alarmLeft = [i \in Ports |-> setTime(c[i], NoDeadline)]
  BY DEF Init
<1>2. NoDeadline \in [AlarmKind -> 0..Day]
  BY SizesAssumption DEF NoDeadline
<1>3. \A i \in Ports : /\ ConfigError(c[i]) \in SUBSET ErrorFlags
                        /\ ConfigTest(c[i]) \in TestTypes
                        /\ c[i].alarm \in BOOLEAN
                        /\ setTime(c[i], NoDeadline) \in [AlarmKind -> 0..Day]
  BY <1>1, <1>2, ConfigTypes
<1>4. /\ errorCode \in [Ports -> SUBSET ErrorFlags]
      /\ test \in [Ports -> TestTypes]
      /\ alarm \in [Ports -> BOOLEAN]
      /\ alarmLeft \in [Ports -> [AlarmKind -> 0..Day]]
  BY <1>1, <1>3
<1>5. /\ state \in [Ports -> ArState]
      /\ event \in [Ports -> SUBSET ArEvent]
      /\ errorTestCount \in [Ports -> 0..(CountMod - 1)]
      /\ resetCount \in [Ports -> 0..MaxReset]
      /\ alarmStatus \in [Ports -> SUBSET AlarmKind]
      /\ enabled \in [Ports -> SUBSET AdminFlags]
  BY SizesAssumption DEF Init, ArState
<1>6. /\ rebootState \in [Ports -> RebootStates]
      /\ rebootEvent \in [Ports -> SUBSET RebootEvents]
      /\ rebootLeft \in [Ports -> 0..RebootDelay]
      /\ evPort \in Ports /\ evPc \in EvPcs
      /\ tsPort \in 1..(NumPorts + 1)
      /\ worker \in [Ports -> WorkerPcs]
      /\ com \in [pc : {"idle", "accept", "refuse"}, port : Ports]
  BY SizesAssumption DEF Init, RebootStates, EvPcs, WorkerPcs, Ports
<1>7. /\ poe \in [Ports -> PoeRecords]
      /\ commands \in 0..MaxCommands /\ restarts \in 0..MaxRestarts
      /\ by \in [Ports -> {"auto", "manual"}]
      /\ spent \in [Ports -> Nat]
      /\ age \in [Ports -> 0..RebootDelay]
      /\ orphan \in [Ports -> {"no", "disabled", "restart"}]
  BY SizesAssumption DEF Init, PoeRecords
<1> QED
  BY <1>4, <1>5, <1>6, <1>7 DEF TypeOK

\* A visit by the events thread ends at a port, wherever it ends.
LEMMA NextPort ==
  ASSUME TypeOK, NextVisit
  PROVE  evPort' \in Ports /\ evPc' \in EvPcs
BY SizesAssumption, SMTT(30) DEF TypeOK, NextVisit, Ports, EvPcs

LEMMA EvIdleType ==
  ASSUME TypeOK, NEW i \in Ports, EvIdle(i)
  PROVE  TypeOK'
<1>1. /\ state' \in [Ports -> ArState]
      /\ event' \in [Ports -> SUBSET ArEvent]
      /\ errorCode' \in [Ports -> SUBSET ErrorFlags]
  <2>1. CASE "TEST_OK" \in event[i]
    <3>1. /\ event' = [event EXCEPT ![i] = @ \ {"TEST_OK"}]
          /\ state' = [state EXCEPT ![i] = "REGULAR"]
          /\ errorCode' = [errorCode EXCEPT ![i] = @ \ {"PORT_SHUTDOWN"}]
      BY <2>1 DEF EvIdle
    <3> QED
      BY <3>1 DEF TypeOK, ArState
  <2>2. CASE "TEST_OK" \notin event[i]
    BY <2>2 DEF TypeOK, EvIdle, shared
  <2> QED
    BY <2>1, <2>2
<1> QED
  BY <1>1 DEF TypeOK, EvIdle, EvGoto, EvPcs, counters, config, schedule, reboot, tests, bounds, history

LEMMA EvRegularType ==
  ASSUME TypeOK, NEW i \in Ports, EvRegular(i)
  PROVE  TypeOK'
<1>1. OkDecrement(i) \in 0..(CountMod - 1)
  BY SizesAssumption DEF TypeOK, OkDecrement
<1>2. (OkDecrement(i) + 1) % CountMod \in 0..(CountMod - 1)
  BY <1>1, SizesAssumption
<1>3. errorTestCount' \in [Ports -> 0..(CountMod - 1)]
  BY <1>1, <1>2 DEF TypeOK, EvRegular
<1>4. errorCode' \in [Ports -> SUBSET ErrorFlags]
  BY DEF TypeOK, EvRegular, ErrorsAfter
<1>5. resetCount' \in [Ports -> 0..MaxReset]
  BY SizesAssumption DEF TypeOK, EvRegular
<1>6. /\ state' \in [Ports -> ArState]
      /\ event' \in [Ports -> SUBSET ArEvent]
      /\ evPort' \in Ports /\ evPc' \in EvPcs
  BY DEF TypeOK, EvRegular, EvGoto, ArState, ArEvent, EvPcs
<1> QED
  BY <1>3, <1>4, <1>5, <1>6
  DEF TypeOK, EvRegular, config, schedule, reboot, tests, bounds, history

LEMMA EvRebootIdleType ==
  ASSUME TypeOK, NEW i \in Ports, EvRebootIdle(i)
  PROVE  TypeOK'
<1>1. /\ AutoErrors(i) \in SUBSET ErrorFlags
      /\ \A e \in SUBSET ErrorFlags : ManualErrors(e) \in SUBSET ErrorFlags
  BY DEF TypeOK, AutoErrors, ManualErrors, ErrorFlags, TestBlocked
<1>2. errorCode' \in [Ports -> SUBSET ErrorFlags]
  BY <1>1 DEF TypeOK, EvRebootIdle
<1>3. ~GivesUp(i) => resetCount[i] + 1 \in 0..MaxReset
  BY SizesAssumption DEF TypeOK, GivesUp
<1>4. /\ resetCount' \in [Ports -> 0..MaxReset]
      /\ errorTestCount' \in [Ports -> 0..(CountMod - 1)]
  BY <1>3, SizesAssumption DEF TypeOK, EvRebootIdle
<1>5. /\ state' \in [Ports -> ArState]
      /\ event' \in [Ports -> SUBSET ArEvent]
      /\ evPort' \in Ports /\ evPc' \in EvPcs
  BY DEF TypeOK, EvRebootIdle, EvGoto, ArState, EvPcs
<1>6. /\ test' \in [Ports -> TestTypes]
      /\ rebootState' \in [Ports -> RebootStates]
      /\ by' \in [Ports -> {"auto", "manual"}]
  BY DEF TypeOK, EvRebootIdle, set_errorHandler, TestTypes, RebootStates
<1> QED
  BY <1>2, <1>4, <1>5, <1>6
  DEF TypeOK, EvRebootIdle, schedule, tests, bounds

LEMMA EvRebootInitType ==
  ASSUME TypeOK, NEW i \in Ports, EvRebootInit(i)
  PROVE  TypeOK'
BY DEF TypeOK, EvRebootInit, EvGoto, RebootStates, RebootEvents, EvPcs, shared, counters,
       config, schedule, tests, bounds, history

LEMMA EvPowerDownType ==
  ASSUME TypeOK, NEW i \in Ports, EvPowerDown(i)
  PROVE  TypeOK'
<1>1. /\ poe' \in [Ports -> PoeRecords]
      /\ spent' \in [Ports -> Nat]
      /\ age' \in [Ports -> 0..RebootDelay]
      /\ orphan' \in [Ports -> {"no", "disabled", "restart"}]
  BY SizesAssumption DEF TypeOK, EvPowerDown, poe_Control, PoeRecords
<1> QED
  BY <1>1 DEF TypeOK, EvPowerDown, EvGoto, EvPcs, shared, counters, config, schedule,
              tests, bounds

LEMMA EvPowerDownDoneType ==
  ASSUME TypeOK, NEW i \in Ports, EvPowerDownDone(i)
  PROVE  TypeOK'
BY SizesAssumption DEF TypeOK, EvPowerDownDone, EvGoto, EvPcs, shared, counters, config,
       schedule, tests, bounds, history

LEMMA EvPoeDownWaitType ==
  ASSUME TypeOK, NEW i \in Ports, EvPoeDownWait(i)
  PROVE  TypeOK'
BY DEF TypeOK, EvPoeDownWait, EvGoto, EvPcs, RebootStates, RebootEvents, shared, counters,
       config, schedule, tests, bounds, history

LEMMA EvPowerUpType ==
  ASSUME TypeOK, NEW i \in Ports, EvPowerUp(i)
  PROVE  TypeOK'
<1>1. /\ poe' \in [Ports -> PoeRecords]
      /\ orphan' \in [Ports -> {"no", "disabled", "restart"}]
  <2>1. CASE PortEnabled(i)
    <3>1. /\ poe' = [poe EXCEPT ![i] = [on |-> TRUE, by |-> "reboot"]]
          /\ orphan' = orphan
      BY <2>1 DEF EvPowerUp, poe_Control
    <3> QED
      BY <3>1 DEF TypeOK, PoeRecords
  <2>2. CASE ~PortEnabled(i)
    <3>1. poe' = poe /\ orphan' = [orphan EXCEPT ![i] = "disabled"]
      BY <2>2 DEF EvPowerUp
    <3> QED
      BY <3>1 DEF TypeOK
  <2> QED
    BY <2>1, <2>2
<1> QED
  BY <1>1 DEF TypeOK, EvPowerUp, EvGoto, EvPcs, shared, counters, config, schedule, tests,
              bounds

LEMMA EvRebootDoneType ==
  ASSUME TypeOK, NEW i \in Ports, EvRebootDone(i)
  PROVE  TypeOK'
BY DEF TypeOK, EvRebootDone, EvGoto, EvPcs, StateAfterReboot, ArState, RebootStates, counters,
       config, schedule, tests, bounds, history

LEMMA EvReloadType ==
  ASSUME TypeOK, NEW i \in Ports, EvReload(i)
  PROVE  TypeOK'
<1>1. PICK c \in Configs :
        /\ errorCode' = [errorCode EXCEPT ![i] = ConfigError(c)]
        /\ test' = [test EXCEPT ![i] = ConfigTest(c)]
        /\ alarm' = [alarm EXCEPT ![i] = c.alarm]
        /\ alarmLeft' = [alarmLeft EXCEPT ![i] = setTime(c, @)]
  BY DEF EvReload
<1>2. /\ errorCode' \in [Ports -> SUBSET ErrorFlags]
      /\ test' \in [Ports -> TestTypes]
      /\ alarm' \in [Ports -> BOOLEAN]
      /\ alarmLeft' \in [Ports -> [AlarmKind -> 0..Day]]
  BY <1>1, ConfigTypes DEF TypeOK
<1> QED
  BY <1>2, SizesAssumption
  DEF TypeOK, EvReload, EvGoto, EvPcs, ArState, reboot, tests, bounds, history

LEMMA AlarmTimes ==
  ASSUME TypeOK, NEW i \in Ports
  PROVE  /\ Pending(i) \in SUBSET AlarmKind
         /\ port_runTestTime(i) => alarmLeft' \in [Ports -> [AlarmKind -> 0..Day]]
BY SizesAssumption DEF TypeOK, Pending, DueAlarms, port_runTestTime

LEMMA EvAlarmOffType ==
  ASSUME TypeOK, NEW i \in Ports, EvAlarmOff(i)
  PROVE  TypeOK'
BY NextPort DEF TypeOK, EvAlarmOff, shared, counters, config, schedule, reboot, tests,
       bounds, history

LEMMA EvAlarmWaitType ==
  ASSUME TypeOK, NEW i \in Ports, EvAlarmWait(i)
  PROVE  TypeOK'
BY NextPort, AlarmTimes
DEF TypeOK, EvAlarmWait, shared, counters, config, reboot, tests, bounds, history

LEMMA EvAlarmDownType ==
  ASSUME TypeOK, NEW i \in Ports, EvAlarmDown(i)
  PROVE  TypeOK'
<1>1. /\ poe' \in [Ports -> PoeRecords]
      /\ errorCode' \in [Ports -> SUBSET ErrorFlags]
      /\ alarmStatus' \in [Ports -> SUBSET AlarmKind]
  BY AlarmTimes
  DEF TypeOK, EvAlarmDown, poe_Control, PoeRecords, ErrorFlags, TestBlocked
<1> QED
  BY <1>1, AlarmTimes
  DEF TypeOK, EvAlarmDown, EvGoto, EvPcs, counters, config, reboot, tests, bounds, history

LEMMA EvAlarmUpType ==
  ASSUME TypeOK, NEW i \in Ports, EvAlarmUp(i)
  PROVE  TypeOK'
<1>1. /\ poe' \in [Ports -> PoeRecords]
      /\ alarmStatus' \in [Ports -> SUBSET AlarmKind]
  BY DEF TypeOK, EvAlarmUp, poe_Control, PoeRecords
<1>2. alarmLeft' \in [Ports -> [AlarmKind -> 0..Day]]
  BY AlarmTimes DEF TypeOK, EvAlarmUp
<1> QED
  BY <1>1, <1>2
  DEF TypeOK, EvAlarmUp, EvGoto, EvPcs, shared, counters, config, reboot, tests, bounds, history

LEMMA EvAlarmDoneType ==
  ASSUME TypeOK, NEW i \in Ports, EvAlarmDone(i)
  PROVE  TypeOK'
<1>1. errorCode' \in [Ports -> SUBSET ErrorFlags]
  <2>1. CASE errorCode' = [errorCode EXCEPT ![i] = @ \ {"POE_DOWN"}]
    BY <2>1 DEF TypeOK
  <2>2. CASE UNCHANGED errorCode
    BY <2>2 DEF TypeOK
  <2> QED
    BY <2>1, <2>2 DEF EvAlarmDone
<1> QED
  BY <1>1, NextPort
  DEF TypeOK, EvAlarmDone, counters, config, schedule, reboot, tests, bounds, history

LEMMA TsPollType ==
  ASSUME TypeOK, NEW i \in Ports, TsPoll(i)
  PROVE  TypeOK'
<1>1. PICK found \in AdminStates :
        /\ enabled' = [enabled EXCEPT ![i] = found]
        /\ errorCode' = [errorCode EXCEPT ![i] = PollErrors(i, found)]
        /\ state' = [state EXCEPT ![i] = IF found = AdminFlags THEN @ ELSE "IDLE"]
  BY DEF TsPoll
<1>2. PollErrors(i, found) \in SUBSET ErrorFlags
  BY DEF TypeOK, PollErrors, ErrorFlags, TestBlocked
<1>3. /\ enabled' \in [Ports -> SUBSET AdminFlags]
      /\ errorCode' \in [Ports -> SUBSET ErrorFlags]
      /\ state' \in [Ports -> ArState]
  BY <1>1, <1>2, EnvironmentAssumption DEF TypeOK, ArState
<1>4. tsPort' \in 1..(NumPorts + 1)
  BY SizesAssumption DEF TypeOK, TsPoll, Ports
<1> QED
  BY <1>3, <1>4
  DEF TypeOK, TsPoll, WorkerPcs, counters, config, schedule, reboot, events, bounds, history

LEMMA TsJoinType ==
  ASSUME TypeOK, TsJoin
  PROVE  TypeOK'
BY SizesAssumption DEF TypeOK, TsJoin, shared, counters, config, schedule, reboot, events,
       bounds, history

LEMMA WorkerType ==
  ASSUME TypeOK, NEW i \in Ports, WorkerStep(i)
  PROVE  TypeOK'
<1>1. worker' \in [Ports -> WorkerPcs] /\ UNCHANGED tsPort
  BY DEF TypeOK, WorkerStep, WkDisable, WkLink, WkPing, WkSpeed, WorkerGoto, AfterLink,
         WorkerPcs, TestTypes
<1>2. errorCode' \in [Ports -> SUBSET ErrorFlags]
  <2>1. {"OK", "TEST_DISABLE", "TEST_LINK", "TEST_PING", "TEST_SPEED"} \subseteq ErrorFlags
    BY DEF ErrorFlags, TestFailure, TestBlocked
  <2>2. PICK e \in SUBSET ErrorFlags : errorCode' = [errorCode EXCEPT ![i] = e]
    <3>1. CASE WkDisable(i)
      BY <2>1, <3>1 DEF TypeOK, WkDisable
    <3>2. CASE WkLink(i)
      BY <2>1, <3>2 DEF TypeOK, WkLink
    <3>3. CASE WkPing(i)
      BY <2>1, <3>3 DEF TypeOK, WkPing
    <3>4. CASE WkSpeed(i)
      BY <2>1, <3>4 DEF TypeOK, WkSpeed
    <3> QED
      BY <3>1, <3>2, <3>3, <3>4 DEF WorkerStep
  <2> QED
    BY <2>2 DEF TypeOK
<1>3. event' \in [Ports -> SUBSET ArEvent]
  BY DEF TypeOK, WorkerStep, WkDisable, WkLink, WkPing, WkSpeed, RaiseTestOk, ArEvent
<1>4. spent' \in [Ports -> Nat]
  BY DEF TypeOK, WorkerStep, WkDisable, WkLink, WkPing, WkSpeed, ClearSpent, history
<1> QED
  BY <1>1, <1>2, <1>3, <1>4
  DEF TypeOK, WorkerStep, WkDisable, WkLink, WkPing, WkSpeed, counters, config, schedule,
      reboot, events, bounds, history

LEMMA ComType ==
  ASSUME TypeOK, NEW i \in Ports, ComReboot(i) \/ ComFinish(i)
  PROVE  TypeOK'
<1>1. CASE ComReboot(i)
  BY <1>1, SizesAssumption
  DEF TypeOK, ComReboot, shared, counters, config, schedule, reboot, events, tests, history
<1>2. CASE ComAccept(i)
  BY <1>2 DEF TypeOK, ComAccept, ArState, ArEvent, counters, config, schedule, reboot, events,
              tests, bounds
<1>3. CASE ComRefuse(i)
  BY <1>3 DEF TypeOK, ComRefuse, counters, config, schedule, reboot, events, tests, bounds,
              history
<1> QED
  BY <1>1, <1>2, <1>3 DEF ComFinish

LEMMA TickType ==
  ASSUME TypeOK, Tick
  PROVE  TypeOK'
<1>1. ASSUME NEW m \in Nat, NEW n \in 0..m
      PROVE  CountDown(n) \in 0..m
  BY DEF CountDown
<1>2. rebootLeft' \in [Ports -> 0..RebootDelay]
  BY <1>1, SizesAssumption DEF TypeOK, Tick
<1>3. alarmLeft' \in [Ports -> [AlarmKind -> 0..Day]]
  BY <1>1, SizesAssumption DEF TypeOK, Tick
<1>4. age' \in [Ports -> 0..RebootDelay]
  BY SizesAssumption DEF TypeOK, Tick
<1> QED
  BY <1>2, <1>3, <1>4 DEF TypeOK, Tick, shared, counters, config, events, tests, bounds

LEMMA RestartType ==
  ASSUME TypeOK, Restart
  PROVE  TypeOK'
<1>1. PICK c \in [Ports -> Configs] :
        /\ errorCode' = [i \in Ports |-> ConfigError(c[i])]
        /\ test' = [i \in Ports |-> ConfigTest(c[i])]
        /\ alarm' = [i \in Ports |-> c[i].alarm]
        /\ alarmLeft' = [i \in Ports |-> setTime(c[i], NoDeadline)]
  BY DEF Restart
<1>2. NoDeadline \in [AlarmKind -> 0..Day]
  BY SizesAssumption DEF NoDeadline
<1>3. \A i \in Ports : /\ ConfigError(c[i]) \in SUBSET ErrorFlags
                        /\ ConfigTest(c[i]) \in TestTypes
                        /\ c[i].alarm \in BOOLEAN
                        /\ setTime(c[i], NoDeadline) \in [AlarmKind -> 0..Day]
  BY <1>1, <1>2, ConfigTypes
<1>4. /\ errorCode' \in [Ports -> SUBSET ErrorFlags]
      /\ test' \in [Ports -> TestTypes]
      /\ alarm' \in [Ports -> BOOLEAN]
      /\ alarmLeft' \in [Ports -> [AlarmKind -> 0..Day]]
  BY <1>1, <1>3
<1>5. /\ state' \in [Ports -> ArState]
      /\ event' \in [Ports -> SUBSET ArEvent]
      /\ errorTestCount' \in [Ports -> 0..(CountMod - 1)]
      /\ resetCount' \in [Ports -> 0..MaxReset]
      /\ alarmStatus' \in [Ports -> SUBSET AlarmKind]
      /\ enabled' \in [Ports -> SUBSET AdminFlags]
  BY SizesAssumption DEF Restart, ArState
<1>6. /\ rebootState' \in [Ports -> RebootStates]
      /\ rebootEvent' \in [Ports -> SUBSET RebootEvents]
      /\ rebootLeft' \in [Ports -> 0..RebootDelay]
      /\ evPort' \in Ports /\ evPc' \in EvPcs
      /\ tsPort' \in 1..(NumPorts + 1)
      /\ worker' \in [Ports -> WorkerPcs]
      /\ com' \in [pc : {"idle", "accept", "refuse"}, port : Ports]
  BY SizesAssumption DEF Restart, RebootStates, EvPcs, WorkerPcs, Ports
<1>7. /\ poe' \in [Ports -> PoeRecords]
      /\ commands' \in 0..MaxCommands /\ restarts' \in 0..MaxRestarts
      /\ by' \in [Ports -> {"auto", "manual"}]
      /\ spent' \in [Ports -> Nat]
      /\ age' \in [Ports -> 0..RebootDelay]
      /\ orphan' \in [Ports -> {"no", "disabled", "restart"}]
  BY SizesAssumption DEF TypeOK, Restart
<1> QED
  BY <1>4, <1>5, <1>6, <1>7 DEF TypeOK

\* No step of any thread, of the clock or of procd breaks the types; that
\* resetCount stays within max_reset rests on the test in autoResetHandler.
LEMMA NextType ==
  ASSUME TypeOK, [Next]_vars
  PROVE  TypeOK'
<1>1. ASSUME NEW i \in Ports, EventsStep(i)
      PROVE  TypeOK'
  BY <1>1, EvIdleType, EvRegularType, EvRebootIdleType, EvRebootInitType, EvPowerDownType,
     EvPowerDownDoneType, EvPoeDownWaitType, EvPowerUpType, EvRebootDoneType, EvReloadType,
     EvAlarmOffType, EvAlarmWaitType, EvAlarmDownType, EvAlarmUpType, EvAlarmDoneType
  DEF EventsStep
<1>2. CASE UNCHANGED vars
  BY <1>2 DEF TypeOK, vars, shared, counters, config, schedule, reboot, events, tests, bounds,
              history
<1> QED
  BY <1>1, <1>2, TsPollType, TsJoinType, WorkerType, ComType, TickType, RestartType DEF Next

\* Type correctness of the daemon: every field of portInfoArr keeps to its
\* type, and resetCount never passes max_reset, whatever the threads do.
THEOREM TypeCorrect == Spec => []TypeOK
<1>1. Init => TypeOK
  BY InitType
<1>2. TypeOK /\ [Next]_vars => TypeOK'
  BY NextType
<1> QED
  BY <1>1, <1>2, PTL DEF Spec
-----------------------------------------------------------------------------
(***************************************************************************)
(* The reboot machine.  FlagsMatch and PlaceMatches tie the flags and the  *)
(* place of the events thread to the reboot state, OffTime ties the        *)
(* deadline to the time the port has been off.                             *)
(***************************************************************************)
FlagsMatch ==
  \A i \in Ports :
    /\ "START" \in rebootEvent[i] => rebootState[i] = "POE_DOWN"
    /\ "TIMER_STOP" \in rebootEvent[i] => rebootState[i] = "POE_UP"

PlaceMatches ==
  /\ evPc = "downDone" => /\ rebootState[evPort] = "POE_DOWN"
                          /\ "START" \notin rebootEvent[evPort]
  /\ evPc = "upDone" => /\ rebootState[evPort] = "POE_UP"
                        /\ "TIMER_STOP" \notin rebootEvent[evPort]
  /\ evPc = "reload" => rebootState[evPort] = "IDLE"

OffTime ==
  \A i \in Ports :
    /\ rebootState[i] = "POE_UP" => age[i] = RebootDelay
    /\ /\ rebootState[i] = "POE_DOWN"
       /\ "START" \notin rebootEvent[i]
       /\ ~(evPc = "downDone" /\ evPort = i)
       => age[i] + rebootLeft[i] >= RebootDelay

RebootInv == TypeOK /\ FlagsMatch /\ PlaceMatches /\ OffTime

\* The steps of the test, worker and com threads leave the reboot machine, the
\* events thread and the port's power alone.
OtherThreads ==
  TsJoin \/ \E i \in Ports : TsPoll(i) \/ WorkerStep(i) \/ ComReboot(i) \/ ComFinish(i)

LEMMA OtherThreadsQuiet ==
  ASSUME OtherThreads
  PROVE  UNCHANGED <<rebootState, rebootEvent, rebootLeft, evPort, evPc, poe, by, age, orphan>>
BY DEF OtherThreads, TsJoin, TsPoll, WorkerStep, WkDisable, WkLink, WkPing, WkSpeed, ComReboot,
       ComFinish, ComAccept, ComRefuse, reboot, events, history

\* The visits of the events thread that have nothing to do with a reboot.
QuietVisit(i) ==
  \/ EvIdle(i) \/ EvRegular(i) \/ EvReload(i)
  \/ EvAlarmOff(i) \/ EvAlarmWait(i) \/ EvAlarmDown(i) \/ EvAlarmUp(i) \/ EvAlarmDone(i)

QuietPlaces == {"visit", "alarm", "alarmDownDone", "alarmUpDone"}

LEMMA QuietVisits ==
  ASSUME NEW i \in Ports, QuietVisit(i)
  PROVE  /\ UNCHANGED <<rebootState, rebootEvent, rebootLeft, by, spent, age, orphan>>
         /\ evPc \in QuietPlaces \cup {"reload"} /\ evPc' \in QuietPlaces
BY DEF QuietVisit, EvIdle, EvRegular, EvReload, EvAlarmOff, EvAlarmWait, EvAlarmDown, EvAlarmUp,
       EvAlarmDone, Visit, EvGoto, NextVisit, QuietPlaces, reboot, history

\* The disjuncts of Next, grouped as the proofs below treat them.
LEMMA NextCases ==
  ASSUME Next
  PROVE  \/ OtherThreads \/ Tick \/ Restart
         \/ \E i \in Ports :
              \/ QuietVisit(i) \/ EvRebootIdle(i) \/ EvRebootInit(i) \/ EvPowerDown(i)
              \/ EvPowerDownDone(i) \/ EvPoeDownWait(i) \/ EvPowerUp(i) \/ EvRebootDone(i)
BY DEF Next, EventsStep, OtherThreads, QuietVisit

\* When a waiting reboot finds its timer expired the off-time has passed.
LEMMA DeadlinePassed ==
  ASSUME RebootInv, NEW i \in Ports, EvPoeDownWait(i), TimerDue(i)
  PROVE  age[i] = RebootDelay
<1>1. age[i] + rebootLeft[i] >= RebootDelay
  BY DEF RebootInv, OffTime, EvPoeDownWait, Visit
<1>2. age[i] \in 0..RebootDelay /\ rebootLeft[i] \in 0..RebootDelay
  BY DEF RebootInv, TypeOK
<1> QED
  BY <1>1, <1>2, SizesAssumption DEF TimerDue

LEMMA RebootInvStep ==
  ASSUME RebootInv, [Next]_vars
  PROVE  RebootInv'
<1> USE DEF RebootInv
<1>0. TypeOK'
  BY NextType
<1>1. CASE OtherThreads
  BY <1>0, <1>1, OtherThreadsQuiet DEF FlagsMatch, PlaceMatches, OffTime
<1>2. ASSUME NEW i \in Ports, QuietVisit(i)
      PROVE  RebootInv'
  BY <1>0, <1>2, QuietVisits DEF FlagsMatch, PlaceMatches, OffTime, QuietPlaces
<1>3. ASSUME NEW i \in Ports, EvRebootIdle(i)
      PROVE  RebootInv'
  BY <1>0, <1>3
  DEF TypeOK, FlagsMatch, PlaceMatches, OffTime, EvRebootIdle, TakesRequests, Visit, EvGoto
<1>4. ASSUME NEW i \in Ports, EvRebootInit(i)
      PROVE  RebootInv'
  BY <1>0, <1>4
  DEF TypeOK, FlagsMatch, PlaceMatches, OffTime, EvRebootInit, Visit, EvGoto, history
<1>5. ASSUME NEW i \in Ports, EvPowerDown(i)
      PROVE  RebootInv'
  BY <1>0, <1>5
  DEF TypeOK, FlagsMatch, PlaceMatches, OffTime, EvPowerDown, Visit, EvGoto
<1>6. ASSUME NEW i \in Ports, EvPowerDownDone(i)
      PROVE  RebootInv'
  BY <1>0, <1>6, SizesAssumption
  DEF TypeOK, FlagsMatch, PlaceMatches, OffTime, EvPowerDownDone, EvGoto, history
<1>7. ASSUME NEW i \in Ports, EvPoeDownWait(i)
      PROVE  RebootInv'
  <2>1. TimerDue(i) => age[i] = RebootDelay
    BY <1>7, DeadlinePassed
  <2>2. "START" \notin rebootEvent[i] /\ "TIMER_STOP" \notin rebootEvent[i]
    BY <1>7 DEF FlagsMatch, EvPoeDownWait
  <2>3. \/ /\ age[i] = RebootDelay
           /\ rebootEvent' = [rebootEvent EXCEPT ![i] = @ \cup {"TIMER_STOP"}]
           /\ rebootState' = [rebootState EXCEPT ![i] = "POE_UP"]
        \/ UNCHANGED <<rebootEvent, rebootState>>
    BY <1>7, <2>1, <2>2 DEF TypeOK, EvPoeDownWait
  <2> QED
    BY <1>0, <1>7, <2>2, <2>3
    DEF TypeOK, FlagsMatch, PlaceMatches, OffTime, EvPoeDownWait, Visit, EvGoto, history
<1>8. ASSUME NEW i \in Ports, EvPowerUp(i)
      PROVE  RebootInv'
  BY <1>0, <1>8
  DEF TypeOK, FlagsMatch, PlaceMatches, OffTime, EvPowerUp, Visit, EvGoto
<1>9. ASSUME NEW i \in Ports, EvRebootDone(i)
      PROVE  RebootInv'
  BY <1>0, <1>9
  DEF TypeOK, FlagsMatch, PlaceMatches, OffTime, EvRebootDone, EvGoto, history
<1>10. CASE Tick
  BY <1>0, <1>10, SizesAssumption
  DEF TypeOK, FlagsMatch, PlaceMatches, OffTime, Tick, CountDown, events
<1>11. CASE Restart
  BY <1>0, <1>11 DEF FlagsMatch, PlaceMatches, OffTime, Restart
<1>12. CASE UNCHANGED vars
  BY <1>0, <1>12
  DEF FlagsMatch, PlaceMatches, OffTime, vars, reboot, events, history
<1> QED
  BY <1>1, <1>2, <1>3, <1>4, <1>5, <1>6, <1>7, <1>8, <1>9, <1>10, <1>11, <1>12, NextCases

LEMMA RebootInvInit == Init => RebootInv
BY InitType DEF Init, RebootInv, FlagsMatch, PlaceMatches, OffTime

LEMMA RebootInvariant == Spec => []RebootInv
<1>1. RebootInv /\ [Next]_vars => RebootInv'
  BY RebootInvStep
<1> QED
  BY <1>1, RebootInvInit, PTL DEF Spec
-----------------------------------------------------------------------------
(***************************************************************************)
(* The daemon implements PowerCycle.                                       *)
(***************************************************************************)

\* The phase of a port changes only with its reboot state and flags, or when
\* the events thread decides the power-up.
LEMMA SamePhase ==
  ASSUME NEW i \in Ports, UNCHANGED <<rebootState[i], rebootEvent[i]>>,
         (evPc = "upDone" /\ evPort = i) <=> (evPc = "upDone" /\ evPort = i)'
  PROVE  PhaseOf(i)' = PhaseOf(i)
BY DEF PhaseOf

LEMMA RefinementInit == Init => Cycle!PInit
BY DEF Init, Cycle!PInit, PhaseOf

\* One step of the daemon is one step of PowerCycle or leaves it unchanged.
LEMMA RefinementStep ==
  ASSUME RebootInv, [Next]_vars
  PROVE  [Cycle!PNext]_Cycle!pvars
<1> DEFINE phase == [i \in Ports |-> PhaseOf(i)]
<1> USE DEF RebootInv
<1>1. CASE OtherThreads
  <2>1. phase' = phase
    BY <1>1, OtherThreadsQuiet, SamePhase
  <2> QED
    BY <1>1, <2>1, OtherThreadsQuiet DEF Cycle!pvars
<1>2. ASSUME NEW i \in Ports, QuietVisit(i)
      PROVE  [Cycle!PNext]_Cycle!pvars
  <2>1. phase' = phase /\ age' = age
    BY <1>2, QuietVisits, SamePhase DEF QuietPlaces
  <2>2. poe' = poe \/ \E b \in BOOLEAN : poe_Control(i, b, "schedule")
    BY <1>2 DEF QuietVisit, EvIdle, EvRegular, EvReload, EvAlarmOff, EvAlarmWait, EvAlarmDown,
                EvAlarmUp, EvAlarmDone
  <2> QED
    BY <2>1, <2>2
    DEF poe_Control, Cycle!pvars, Cycle!PNext, Cycle!Schedule, Cycle!Command
<1>3. ASSUME NEW i \in Ports, EvRebootIdle(i)
      PROVE  [Cycle!PNext]_Cycle!pvars
  <2>1. age' = age /\ poe' = poe
    BY <1>3 DEF EvRebootIdle
  <2>2. PhaseOf(i) = "none"
    BY <1>3 DEF EvRebootIdle, TakesRequests, PhaseOf
  <2>3. PhaseOf(i)' \in {"none", "prepared"}
    BY <1>3 DEF TypeOK, EvRebootIdle, PhaseOf
  <2>4. \A j \in Ports \ {i} : PhaseOf(j)' = PhaseOf(j)
    BY <1>3, SamePhase DEF TypeOK, EvRebootIdle, Visit, EvGoto
  <2>5. phase' = [phase EXCEPT ![i] = PhaseOf(i)']
    BY <2>4
  <2> QED
    BY <2>1, <2>2, <2>3, <2>5
    DEF Cycle!pvars, Cycle!PNext, Cycle!Prepare, Cycle!Enter
<1>4. ASSUME NEW i \in Ports, EvRebootInit(i)
      PROVE  [Cycle!PNext]_Cycle!pvars
  <2>1. age' = age /\ poe' = poe
    BY <1>4 DEF EvRebootInit, history
  <2>2. PhaseOf(i) = "prepared" /\ PhaseOf(i)' = "prepared"
    BY <1>4 DEF TypeOK, EvRebootInit, PhaseOf
  <2>3. \A j \in Ports \ {i} : PhaseOf(j)' = PhaseOf(j)
    BY <1>4, SamePhase DEF TypeOK, EvRebootInit, Visit, EvGoto
  <2> QED
    BY <2>1, <2>2, <2>3 DEF Cycle!pvars
<1>5. ASSUME NEW i \in Ports, EvPowerDown(i)
      PROVE  [Cycle!PNext]_Cycle!pvars
  <2>1. /\ age' = [age EXCEPT ![i] = 0]
        /\ poe' = [poe EXCEPT ![i] = [on |-> FALSE, by |-> "reboot"]]
    BY <1>5 DEF EvPowerDown, poe_Control
  <2>2. PhaseOf(i) = "prepared" /\ PhaseOf(i)' = "off"
    BY <1>5 DEF TypeOK, EvPowerDown, PhaseOf
  <2>3. \A j \in Ports \ {i} : PhaseOf(j)' = PhaseOf(j)
    BY <1>5, SamePhase DEF TypeOK, EvPowerDown, Visit, EvGoto
  <2>4. phase' = [phase EXCEPT ![i] = "off"]
    BY <2>2, <2>3
  <2> QED
    BY <2>1, <2>2, <2>4
    DEF Cycle!PNext, Cycle!SwitchOff, Cycle!Enter, Cycle!Command
<1>6. ASSUME NEW i \in Ports, EvPowerDownDone(i)
      PROVE  [Cycle!PNext]_Cycle!pvars
  <2>1. age' = age /\ poe' = poe
    BY <1>6 DEF EvPowerDownDone, history
  <2>2. \A j \in Ports : PhaseOf(j)' = PhaseOf(j)
    BY <1>6, SamePhase DEF EvPowerDownDone, EvGoto
  <2> QED
    BY <2>1, <2>2 DEF Cycle!pvars
<1>7. ASSUME NEW i \in Ports, EvPoeDownWait(i)
      PROVE  [Cycle!PNext]_Cycle!pvars
  <2>1. age' = age /\ poe' = poe
    BY <1>7 DEF EvPoeDownWait, history
  <2>2. PhaseOf(i) = "off"
    BY <1>7 DEF EvPoeDownWait, PhaseOf
  <2>3. \A j \in Ports \ {i} : PhaseOf(j)' = PhaseOf(j)
    BY <1>7, SamePhase DEF TypeOK, EvPoeDownWait, Visit, EvGoto
  <2>4. CASE TimerDue(i)
    <3>1. age[i] = RebootDelay
      BY <1>7, <2>4, DeadlinePassed
    <3>2. PhaseOf(i)' = "due"
      BY <1>7, <2>4 DEF TypeOK, EvPoeDownWait, EvGoto, PhaseOf
    <3>3. phase' = [phase EXCEPT ![i] = "due"]
      BY <2>3, <3>2
    <3> QED
      BY <2>1, <2>2, <3>1, <3>3 DEF Cycle!PNext, Cycle!TimeUp, Cycle!Enter
  <2>5. CASE ~TimerDue(i)
    <3>1. rebootEvent' = rebootEvent /\ rebootState' = rebootState
      BY <1>7, <2>5 DEF TypeOK, FlagsMatch, EvPoeDownWait
    <3>2. PhaseOf(i)' = PhaseOf(i)
      BY <1>7, <3>1, SamePhase DEF EvPoeDownWait, Visit, EvGoto
    <3> QED
      BY <2>1, <2>3, <3>2 DEF Cycle!pvars
  <2> QED
    BY <2>4, <2>5
<1>8. ASSUME NEW i \in Ports, EvPowerUp(i)
      PROVE  [Cycle!PNext]_Cycle!pvars
  <2>1. /\ age' = age
        /\ poe' = poe \/ poe' = [poe EXCEPT ![i] = [on |-> TRUE, by |-> "reboot"]]
    BY <1>8 DEF EvPowerUp, poe_Control
  <2>2. PhaseOf(i) = "due" /\ PhaseOf(i)' = "done"
    BY <1>8 DEF EvPowerUp, Visit, EvGoto, PhaseOf
  <2>3. \A j \in Ports \ {i} : PhaseOf(j)' = PhaseOf(j)
    BY <1>8, SamePhase DEF TypeOK, EvPowerUp, Visit, EvGoto
  <2>4. phase' = [phase EXCEPT ![i] = "done"]
    BY <2>2, <2>3
  <2> QED
    BY <2>1, <2>2, <2>4
    DEF Cycle!PNext, Cycle!SwitchOn, Cycle!Abandon, Cycle!Enter, Cycle!Command
<1>9. ASSUME NEW i \in Ports, EvRebootDone(i)
      PROVE  [Cycle!PNext]_Cycle!pvars
  <2>1. age' = age /\ poe' = poe
    BY <1>9 DEF EvRebootDone, history
  <2>2. PhaseOf(i) = "done" /\ PhaseOf(i)' = "none"
    BY <1>9 DEF TypeOK, PlaceMatches, EvRebootDone, PhaseOf
  <2>3. \A j \in Ports \ {i} : PhaseOf(j)' = PhaseOf(j)
    BY <1>9, SamePhase DEF TypeOK, EvRebootDone, EvGoto
  <2>4. phase' = [phase EXCEPT ![i] = "none"]
    BY <2>2, <2>3
  <2> QED
    BY <2>1, <2>2, <2>4 DEF Cycle!PNext, Cycle!End, Cycle!Enter
<1>10. CASE Tick
  <2>1. phase' = phase
    BY <1>10, SamePhase DEF Tick, events
  <2> QED
    BY <1>10, <2>1 DEF Tick, Cycle!PNext, Cycle!PTick
<1>11. CASE Restart
  <2>1. \A i \in Ports : PhaseOf(i)' = "none"
    BY <1>11 DEF Restart, PhaseOf
  <2> QED
    BY <1>11, <2>1 DEF Restart, Cycle!PNext, Cycle!PRestart
<1>12. CASE UNCHANGED vars
  BY <1>12 DEF vars, reboot, events, history, Cycle!pvars, PhaseOf
<1> QED
  BY <1>1, <1>2, <1>3, <1>4, <1>5, <1>6, <1>7, <1>8, <1>9, <1>10, <1>11, <1>12, NextCases

\* The daemon implements PowerCycle: every reboot of a port switches it off,
\* waits out the off-time and switches it on or finds it disabled, in this
\* order and once each, for any number of ports and whatever the other threads,
\* the schedule and procd do meanwhile.
THEOREM Refinement == Spec => ImplementsPowerCycle
<1>1. RebootInv /\ [Next]_vars => [Cycle!PNext]_Cycle!pvars
  BY RefinementStep
<1> QED
  BY <1>1, RefinementInit, RebootInvariant, PTL DEF Spec, ImplementsPowerCycle, Cycle!PSpec
-----------------------------------------------------------------------------
(***************************************************************************)
(* No power-up is forgotten.                                               *)
(***************************************************************************)

\* PowerAccountedFor, and the same for a reboot whose power-up is decided.
PowerInv ==
  /\ TypeOK
  /\ PowerAccountedFor
  /\ evPc = "upDone" /\ ~poe[evPort].on /\ poe[evPort].by = "reboot"
       => orphan[evPort] # "no"

LEMMA PowerInvStep ==
  ASSUME PowerInv, [Next]_vars
  PROVE  PowerInv'
<1> USE DEF PowerInv, PowerAccountedFor
<1>0. TypeOK'
  BY NextType
<1>1. CASE OtherThreads
  BY <1>0, <1>1, OtherThreadsQuiet
<1>2. ASSUME NEW i \in Ports, QuietVisit(i)
      PROVE  PowerInv'
  <2>1. poe' = poe \/ \E b \in BOOLEAN : poe_Control(i, b, "schedule")
    BY <1>2 DEF QuietVisit, EvIdle, EvRegular, EvReload, EvAlarmOff, EvAlarmWait, EvAlarmDown,
                EvAlarmUp, EvAlarmDone
  <2>2. \A j \in Ports : poe'[j] = poe[j] \/ poe'[j].by = "schedule"
    BY <2>1 DEF TypeOK, poe_Control
  <2> QED
    BY <1>0, <1>2, <2>2, QuietVisits DEF QuietPlaces
<1>3. ASSUME NEW i \in Ports, EvRebootIdle(i)
      PROVE  PowerInv'
  BY <1>0, <1>3 DEF TypeOK, EvRebootIdle, TakesRequests, EvGoto
<1>4. ASSUME NEW i \in Ports, EvRebootInit(i)
      PROVE  PowerInv'
  BY <1>0, <1>4 DEF TypeOK, EvRebootInit, EvGoto, history
<1>5. ASSUME NEW i \in Ports, EvPowerDown(i)
      PROVE  PowerInv'
  BY <1>0, <1>5 DEF TypeOK, EvPowerDown, EvGoto, poe_Control
<1>6. ASSUME NEW i \in Ports, EvPowerDownDone(i)
      PROVE  PowerInv'
  BY <1>0, <1>6 DEF EvPowerDownDone, EvGoto, history
<1>7. ASSUME NEW i \in Ports, EvPoeDownWait(i)
      PROVE  PowerInv'
  BY <1>0, <1>7 DEF TypeOK, EvPoeDownWait, EvGoto, history
<1>8. ASSUME NEW i \in Ports, EvPowerUp(i)
      PROVE  PowerInv'
  <2>1. \/ /\ poe' = [poe EXCEPT ![i] = [on |-> TRUE, by |-> "reboot"]]
           /\ orphan' = orphan
        \/ /\ poe' = poe
           /\ orphan' = [orphan EXCEPT ![i] = "disabled"]
    BY <1>8 DEF EvPowerUp, poe_Control
  <2> QED
    BY <1>0, <1>8, <2>1 DEF TypeOK, EvPowerUp, Visit, EvGoto
<1>9. ASSUME NEW i \in Ports, EvRebootDone(i)
      PROVE  PowerInv'
  BY <1>0, <1>9 DEF TypeOK, EvRebootDone, EvGoto, history
<1>10. CASE Tick
  BY <1>0, <1>10 DEF Tick, events
<1>11. CASE Restart
  BY <1>0, <1>11 DEF Restart
<1>12. CASE UNCHANGED vars
  BY <1>0, <1>12 DEF vars, reboot, events, history
<1> QED
  BY <1>1, <1>2, <1>3, <1>4, <1>5, <1>6, <1>7, <1>8, <1>9, <1>10, <1>11, <1>12, NextCases

\* A port that rebootHandler has switched off is never forgotten: its reboot is
\* under way, or it was found disabled when its power-up was due, or the daemon
\* was restarted.
THEOREM NoPowerUpForgotten == Spec => []PowerAccountedFor
<1>1. Init => PowerInv
  <2>1. Init => \A i \in Ports : poe[i].on
    BY DEF Init
  <2>2. Init => evPc = "visit"
    BY DEF Init
  <2> QED
    BY <2>1, <2>2, InitType DEF PowerInv, PowerAccountedFor
<1>2. PowerInv /\ [Next]_vars => PowerInv'
  BY PowerInvStep
<1>3. PowerInv => PowerAccountedFor
  BY DEF PowerInv
<1> QED
  BY <1>1, <1>2, <1>3, PTL DEF Spec
-----------------------------------------------------------------------------
(***************************************************************************)
(* The bound on automatic cycles.  resetCount lags behind the cycles spent *)
(* by one once the power-down of a counted reset has happened; whatever    *)
(* clears resetCount later (ERR_OK, a manual request, a reload) was raised *)
(* when spent was 0, so at most one power-down lies in between.            *)
(***************************************************************************)
BeforeOff(i)   == rebootState[i] = "INIT" \/ "START" \in rebootEvent[i]
AutoPending(i) == by[i] = "auto" /\ BeforeOff(i)

SpentMatches(i) ==
  /\ spent[i] <= resetCount[i] + 1
  /\ AutoPending(i) => spent[i] <= resetCount[i]
  /\ "OK" \in errorCode[i] => spent[i] <= 1
  /\ "OK" \in errorCode[i] /\ AutoPending(i) => spent[i] = 0
  /\ "MANUAL_RESTART" \in event[i] => spent[i] <= 1
  /\ "MANUAL_RESTART" \in event[i] /\ (rebootState[i] = "IDLE" \/ BeforeOff(i))
       => spent[i] = 0
  /\ evPc = "reload" /\ evPort = i => spent[i] <= 1

SpentInv == RebootInv /\ \A i \in Ports : SpentMatches(i)

\* A port keeps SpentMatches when no flag of it is raised and its counters stay.
LEMMA SpentFrame ==
  ASSUME NEW j \in Ports, SpentMatches(j),
         UNCHANGED <<spent[j], resetCount[j]>>,
         AutoPending(j)' => AutoPending(j),
         (rebootState[j] = "IDLE" \/ BeforeOff(j))' => (rebootState[j] = "IDLE" \/ BeforeOff(j)),
         "OK" \in errorCode[j]' => "OK" \in errorCode[j],
         "MANUAL_RESTART" \in event[j]' => "MANUAL_RESTART" \in event[j],
         (evPc = "reload" /\ evPort = j)' => (evPc = "reload" /\ evPort = j)
  PROVE  SpentMatches(j)'
BY DEF SpentMatches

\* It also keeps it when the account is cleared.
LEMMA SpentCleared ==
  ASSUME TypeOK', NEW j \in Ports, spent[j]' = 0
  PROVE  SpentMatches(j)'
<1>1. resetCount[j]' \in Nat
  BY SizesAssumption DEF TypeOK
<1> QED
  BY <1>1 DEF SpentMatches

LEMMA SpentOtherThreads ==
  ASSUME SpentInv, TypeOK', OtherThreads, NEW j \in Ports
  PROVE  SpentMatches(j)'
<1> USE DEF SpentInv, RebootInv
<1>1. UNCHANGED <<rebootState, rebootEvent, evPort, evPc, by>>
  BY OtherThreadsQuiet
<1>2. /\ AutoPending(j)' = AutoPending(j)
      /\ BeforeOff(j)' = BeforeOff(j)
  BY <1>1 DEF AutoPending, BeforeOff
<1> DEFINE Kept == \/ spent'[j] = 0
                   \/ /\ spent'[j] = spent[j]
                      /\ "OK" \in errorCode'[j] => "OK" \in errorCode[j]
                      /\ "MANUAL_RESTART" \in event'[j] => "MANUAL_RESTART" \in event[j]
<1>3. Kept
  <2>1. CASE TsJoin
    BY <2>1 DEF TsJoin, shared, history
  <2>2. ASSUME NEW i \in Ports, TsPoll(i)
        PROVE  Kept
    BY <2>2 DEF TypeOK, TsPoll, PollErrors, history
  <2>3. ASSUME NEW i \in Ports, WkDisable(i)
        PROVE  Kept
    BY <2>3 DEF TypeOK, WkDisable, history
  <2>4. ASSUME NEW i \in Ports, WkLink(i)
        PROVE  Kept
    BY <2>4 DEF TypeOK, WkLink, ClearSpent, RaiseTestOk
  <2>5. ASSUME NEW i \in Ports, WkPing(i)
        PROVE  Kept
    BY <2>5 DEF TypeOK, WkPing, ClearSpent, RaiseTestOk
  <2>6. ASSUME NEW i \in Ports, WkSpeed(i)
        PROVE  Kept
    BY <2>6 DEF TypeOK, WkSpeed, ClearSpent, RaiseTestOk
  <2>7. ASSUME NEW i \in Ports, ComReboot(i)
        PROVE  Kept
    BY <2>7 DEF ComReboot, shared, history
  <2>8. ASSUME NEW i \in Ports, ComAccept(i)
        PROVE  Kept
    BY <2>8 DEF TypeOK, ComAccept
  <2>9. ASSUME NEW i \in Ports, ComRefuse(i)
        PROVE  Kept
    BY <2>9 DEF TypeOK, ComRefuse, history
  <2> QED
    BY <2>1, <2>2, <2>3, <2>4, <2>5, <2>6, <2>7, <2>8, <2>9
    DEF OtherThreads, WorkerStep, ComFinish
<1>4. resetCount' = resetCount
  BY DEF OtherThreads, TsJoin, TsPoll, WorkerStep, WkDisable, WkLink, WkPing, WkSpeed,
         ComReboot, ComFinish, ComAccept, ComRefuse, counters
<1>5. CASE spent'[j] = 0
  BY <1>5, SpentCleared
<1> QED
  BY <1>1, <1>2, <1>3, <1>4, <1>5, SpentFrame

\* Clearing bits of one port's word raises none in any port's word.
LEMMA FlagsRemoved ==
  ASSUME NEW S, NEW f \in [Ports -> SUBSET S], NEW D, NEW i \in Ports, NEW j \in Ports
  PROVE  [f EXCEPT ![i] = @ \ D][j] \subseteq f[j]
OBVIOUS

LEMMA SpentQuietVisit ==
  ASSUME SpentInv, TypeOK', NEW i \in Ports, QuietVisit(i), NEW j \in Ports
  PROVE  SpentMatches(j)'
<1> USE DEF SpentInv, RebootInv
<1>1. /\ UNCHANGED <<rebootState, rebootEvent, by, spent>>
      /\ evPc \in QuietPlaces \cup {"reload"} /\ evPc' \in QuietPlaces
  BY QuietVisits
<1>2. /\ AutoPending(j)' = AutoPending(j)
      /\ BeforeOff(j)' = BeforeOff(j)
      /\ evPc' # "reload"
  BY <1>1 DEF AutoPending, BeforeOff, QuietPlaces
<1>3. CASE EvRegular(i)
  <2>1. /\ "OK" \in errorCode'[j] => "OK" \in errorCode[j]
        /\ "MANUAL_RESTART" \in event'[j] => "MANUAL_RESTART" \in event[j]
    BY <1>3 DEF TypeOK, EvRegular, ErrorsAfter
  <2>2. resetCount'[j] = resetCount[j] \/ ("OK" \in errorCode[j] /\ resetCount'[j] = 0)
    BY <1>3 DEF TypeOK, EvRegular, Recovered
  <2>3. CASE resetCount'[j] = resetCount[j]
    BY <1>1, <1>2, <2>1, <2>3, SpentFrame
  <2>4. CASE "OK" \in errorCode[j] /\ resetCount'[j] = 0
    BY <1>1, <1>2, <2>1, <2>4 DEF SpentMatches, TypeOK
  <2> QED
    BY <2>2, <2>3, <2>4
<1>4. CASE EvReload(i) /\ j = i
  <2>1. /\ spent[i] <= 1 /\ spent[i] \in Nat
        /\ rebootState[i] = "IDLE" /\ "START" \notin rebootEvent[i]
    BY <1>4 DEF EvReload, SpentMatches, PlaceMatches, FlagsMatch, TypeOK
  <2>2. ~AutoPending(i)' /\ spent'[i] = spent[i]
    BY <1>1, <2>1 DEF AutoPending, BeforeOff
  <2>3. resetCount'[i] = 0 /\ event'[i] = {}
    BY <1>4 DEF EvReload, TypeOK
  <2> QED
    BY <1>2, <1>4, <2>1, <2>2, <2>3 DEF SpentMatches
<1>5. CASE (QuietVisit(i) /\ ~EvRegular(i) /\ ~EvReload(i)) \/ (EvReload(i) /\ j # i)
  <2>1. /\ "OK" \in errorCode'[j] => "OK" \in errorCode[j]
        /\ "MANUAL_RESTART" \in event'[j] => "MANUAL_RESTART" \in event[j]
    <3>1. CASE EvIdle(i)
      <4>1. \/ /\ event' = [event EXCEPT ![i] = @ \ {"TEST_OK"}]
               /\ errorCode' = [errorCode EXCEPT ![i] = @ \ {"PORT_SHUTDOWN"}]
            \/ event' = event /\ errorCode' = errorCode
        BY <3>1 DEF EvIdle, shared
      <4>2. errorCode'[j] \subseteq errorCode[j] /\ event'[j] \subseteq event[j]
        BY <4>1, FlagsRemoved DEF TypeOK
      <4> QED
        BY <4>2
    <3>2. CASE EvReload(i) /\ j # i
      BY <3>2 DEF TypeOK, EvReload
    <3>3. CASE EvAlarmOff(i) \/ EvAlarmWait(i) \/ EvAlarmUp(i)
      BY <3>3 DEF EvAlarmOff, EvAlarmWait, EvAlarmUp, shared
    <3>4. CASE EvAlarmDown(i)
      BY <3>4 DEF TypeOK, EvAlarmDown
    <3>5. CASE EvAlarmDone(i)
      <4>1. \/ errorCode' = [errorCode EXCEPT ![i] = @ \ {"POE_DOWN"}]
            \/ errorCode' = errorCode
        BY <3>5 DEF EvAlarmDone
      <4>2. event' = event
        BY <3>5 DEF EvAlarmDone
      <4>3. errorCode'[j] \subseteq errorCode[j]
        BY <4>1, FlagsRemoved DEF TypeOK
      <4> QED
        BY <4>2, <4>3
    <3> QED
      BY <1>5, <3>1, <3>2, <3>3, <3>4, <3>5 DEF QuietVisit
  <2>2. resetCount'[j] = resetCount[j]
    <3>1. CASE EvReload(i) /\ j # i
      BY <3>1 DEF TypeOK, EvReload
    <3>2. CASE QuietVisit(i) /\ ~EvRegular(i) /\ ~EvReload(i)
      BY <3>2 DEF QuietVisit, EvIdle, EvAlarmOff, EvAlarmWait, EvAlarmDown, EvAlarmUp,
                  EvAlarmDone, counters
    <3> QED
      BY <1>5, <3>1, <3>2
  <2> QED
    BY <1>1, <1>2, <2>1, <2>2, SpentFrame
<1> QED
  BY <1>3, <1>4, <1>5

LEMMA SpentRebootIdle ==
  ASSUME SpentInv, TypeOK', NEW i \in Ports, EvRebootIdle(i), NEW j \in Ports
  PROVE  SpentMatches(j)'
<1> USE DEF SpentInv, RebootInv
<1>1. spent' = spent /\ evPc' = "alarm" /\ rebootEvent' = rebootEvent
  BY DEF EvRebootIdle, EvGoto
<1>2. CASE j # i
  <2>1. /\ UNCHANGED <<rebootState[j], by[j], resetCount[j], errorCode[j], event[j]>>
    BY <1>2 DEF TypeOK, EvRebootIdle
  <2> QED
    BY <1>1, <2>1, SpentFrame DEF AutoPending, BeforeOff
<1>3. CASE j = i
  <2> DEFINE auto   == "AUTO_RESTART" \in event[i] /\ ~GivesUp(i)
             manual == "MANUAL_RESTART" \in event[i] /\ PortEnabled(i)
  <2>1. /\ rebootState[i] = "IDLE" /\ "START" \notin rebootEvent[i]
        /\ spent[i] \in Nat /\ resetCount[i] \in Nat
    BY SizesAssumption DEF TypeOK, FlagsMatch, EvRebootIdle, TakesRequests
  <2>2. CASE manual
    <3>1. /\ by'[i] = "manual" /\ resetCount'[i] = 0
          /\ "OK" \notin errorCode'[i] /\ "MANUAL_RESTART" \notin event'[i]
      BY <2>2 DEF TypeOK, EvRebootIdle, ManualErrors
    <3>2. spent[i] = 0
      BY <2>1, <2>2 DEF SpentMatches
    <3> QED
      BY <1>1, <1>3, <3>1, <3>2 DEF SpentMatches, AutoPending
  <2>3. CASE ~manual /\ auto
    <3>1. /\ resetCount'[i] = resetCount[i] + 1
          /\ "OK" \notin errorCode'[i]
          /\ "MANUAL_RESTART" \in event'[i] => "MANUAL_RESTART" \in event[i]
      BY <2>3 DEF TypeOK, EvRebootIdle, AutoErrors
    <3> QED
      BY <1>1, <1>3, <2>1, <3>1 DEF SpentMatches, AutoPending
  <2>4. CASE ~manual /\ ~auto
    <3>1. /\ resetCount'[i] = resetCount[i] /\ rebootState'[i] = "IDLE"
          /\ "OK" \in errorCode'[i] => "OK" \in errorCode[i]
          /\ "MANUAL_RESTART" \in event'[i] => "MANUAL_RESTART" \in event[i]
      BY <2>4 DEF TypeOK, EvRebootIdle, AutoErrors
    <3> QED
      BY <1>1, <1>3, <2>1, <3>1, SpentFrame DEF AutoPending, BeforeOff
  <2> QED
    BY <2>2, <2>3, <2>4
<1> QED
  BY <1>2, <1>3

LEMMA SpentPowerDown ==
  ASSUME SpentInv, TypeOK', NEW i \in Ports, EvPowerDown(i), NEW j \in Ports
  PROVE  SpentMatches(j)'
<1> USE DEF SpentInv, RebootInv
<1>1. /\ evPc' = "downDone"
      /\ UNCHANGED <<rebootState, by, resetCount, errorCode, event>>
  BY DEF EvPowerDown, EvGoto, shared, counters
<1>2. CASE j # i
  <2>1. UNCHANGED <<rebootEvent[j], spent[j]>>
    BY <1>2 DEF TypeOK, EvPowerDown
  <2> QED
    BY <1>1, <2>1, SpentFrame DEF AutoPending, BeforeOff
<1>3. CASE j = i
  <2>1. /\ rebootState[i] = "POE_DOWN" /\ "START" \in rebootEvent[i]
        /\ "START" \notin rebootEvent'[i]
        /\ spent'[i] = IF by[i] = "auto" THEN spent[i] + 1 ELSE spent[i]
        /\ spent[i] \in Nat /\ resetCount[i] \in Nat
    BY SizesAssumption DEF TypeOK, EvPowerDown
  <2>2. BeforeOff(i) /\ ~BeforeOff(i)'
    BY <1>1, <2>1 DEF BeforeOff
  <2> QED
    BY <1>1, <1>3, <2>1, <2>2 DEF SpentMatches, AutoPending
<1> QED
  BY <1>2, <1>3

\* The remaining steps of a reboot neither count nor clear anything, but the
\* last one hands a pending manual request over to the reload.
LEMMA SpentRebootSteps ==
  ASSUME SpentInv, TypeOK', NEW i \in Ports, NEW j \in Ports,
         \/ EvRebootInit(i) \/ EvPowerDownDone(i) \/ EvPoeDownWait(i) \/ EvPowerUp(i)
         \/ EvRebootDone(i)
  PROVE  SpentMatches(j)'
<1> USE DEF SpentInv, RebootInv
<1>1. UNCHANGED <<by, spent, resetCount>>
  BY DEF EvRebootInit, EvPowerDownDone, EvPoeDownWait, EvPowerUp, EvRebootDone, counters, history
<1>2. CASE EvRebootInit(i)
  <2>1. UNCHANGED <<errorCode, event>> /\ evPc' = "alarm"
    BY <1>2 DEF EvRebootInit, EvGoto, shared
  <2>2. BeforeOff(j)' => BeforeOff(j)
    BY <1>2 DEF TypeOK, EvRebootInit, BeforeOff
  <2>3. rebootState'[j] = "IDLE" => rebootState[j] = "IDLE"
    BY <1>2 DEF TypeOK, EvRebootInit
  <2> QED
    BY <1>1, <2>1, <2>2, <2>3, SpentFrame DEF AutoPending
<1>3. CASE EvPowerDownDone(i)
  <2>1. UNCHANGED <<errorCode, event, rebootState, rebootEvent>> /\ evPc' = "alarm"
    BY <1>3 DEF EvPowerDownDone, EvGoto, shared
  <2> QED
    BY <1>1, <2>1, SpentFrame DEF AutoPending, BeforeOff
<1>4. CASE EvPoeDownWait(i)
  <2>1. UNCHANGED <<errorCode, event>> /\ evPc' = "alarm"
    BY <1>4 DEF EvPoeDownWait, EvGoto, shared
  <2>2. BeforeOff(j)' => BeforeOff(j)
    BY <1>4 DEF TypeOK, EvPoeDownWait, BeforeOff
  <2>3. rebootState'[j] = "IDLE" => rebootState[j] = "IDLE"
    BY <1>4 DEF TypeOK, EvPoeDownWait
  <2> QED
    BY <1>1, <2>1, <2>2, <2>3, SpentFrame DEF AutoPending
<1>5. CASE EvPowerUp(i)
  <2>1. UNCHANGED <<errorCode, event, rebootState>> /\ evPc' = "upDone"
    BY <1>5 DEF EvPowerUp, EvGoto, shared
  <2>2. BeforeOff(j)' => BeforeOff(j)
    BY <1>5, <2>1 DEF TypeOK, EvPowerUp, BeforeOff
  <2> QED
    BY <1>1, <2>1, <2>2, SpentFrame DEF AutoPending
<1>6. CASE EvRebootDone(i) /\ j # i
  <2>1. /\ UNCHANGED <<rebootState[j], rebootEvent[j], errorCode[j], event[j], evPort>>
        /\ evPort = i
    BY <1>6 DEF TypeOK, EvRebootDone, EvGoto
  <2> QED
    BY <1>1, <1>6, <2>1, SpentFrame DEF AutoPending, BeforeOff
<1>7. CASE EvRebootDone(i) /\ j = i
  <2>1. /\ rebootState'[i] = "IDLE" /\ rebootEvent' = rebootEvent
        /\ "OK" \in errorCode'[i] => "OK" \in errorCode[i]
        /\ "MANUAL_RESTART" \notin event'[i]
        /\ evPc' = "reload" => "MANUAL_RESTART" \in event[i]
    BY <1>7 DEF TypeOK, EvRebootDone, EvGoto
  <2>2. "START" \notin rebootEvent[i]
    BY <1>7 DEF FlagsMatch, PlaceMatches, EvRebootDone
  <2>3. ~BeforeOff(i)'
    BY <2>1, <2>2 DEF BeforeOff
  <2> QED
    BY <1>1, <1>7, <2>1, <2>3 DEF SpentMatches, AutoPending
<1> QED
  BY <1>2, <1>3, <1>4, <1>5, <1>6, <1>7

LEMMA SpentInvStep ==
  ASSUME SpentInv, [Next]_vars
  PROVE  SpentInv'
<1>1. RebootInv' /\ TypeOK'
  BY RebootInvStep DEF SpentInv, RebootInv
<1> SUFFICES ASSUME NEW j \in Ports
             PROVE  SpentMatches(j)'
  BY <1>1 DEF SpentInv
<1>2. CASE Tick
  <2>1. UNCHANGED <<spent, resetCount, by, rebootState, rebootEvent, errorCode, event, evPc,
                    evPort>>
    BY <1>2 DEF Tick, shared, counters, events
  <2> QED
    BY <2>1, SpentFrame DEF SpentInv, AutoPending, BeforeOff
<1>3. CASE Restart
  BY <1>1, <1>3, SpentCleared DEF Restart
<1>4. CASE UNCHANGED vars
  <2>1. UNCHANGED <<spent, resetCount, by, rebootState, rebootEvent, errorCode, event, evPc,
                    evPort>>
    BY <1>4 DEF vars, shared, counters, reboot, events, history
  <2> QED
    BY <2>1, SpentFrame DEF SpentInv, AutoPending, BeforeOff
<1> QED
  BY <1>1, <1>2, <1>3, <1>4, NextCases, SpentOtherThreads, SpentQuietVisit, SpentRebootIdle,
     SpentPowerDown, SpentRebootSteps

\* max_reset bounds the automatic power cycles of every port: between two
\* events that excuse a new attempt (ERR_OK, an accepted command) there are at
\* most max_reset + 1, for every max_reset, test_num and number of ports.
THEOREM CyclesBounded == Spec => []AutoCyclesBounded
<1>1. Init => SpentInv
  <2>1. Init => \A j \in Ports : /\ spent[j] = 0 /\ resetCount[j] = 0
    BY DEF Init
  <2> QED
    BY <2>1, RebootInvInit DEF SpentInv, SpentMatches
<1>2. SpentInv /\ [Next]_vars => SpentInv'
  BY SpentInvStep
<1>3. SpentInv => AutoCyclesBounded
  BY SizesAssumption DEF SpentInv, RebootInv, TypeOK, SpentMatches, AutoCyclesBounded
<1> QED
  BY <1>1, <1>2, <1>3, PTL DEF Spec
=============================================================================
