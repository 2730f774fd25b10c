---------------------------- MODULE DeviceMonitor ----------------------------
(***************************************************************************)
(* The device monitor daemon, tf_device_monitor: it answers the search     *)
(* requests of the management program and applies the settings it sends,   *)
(* over UDP broadcasts, by running shell commands.                         *)
(*                                                                         *)
(* The daemon is one thread, client_handler called for ever; a call is an  *)
(* action here, except that each popen of a setting is one of its own.     *)
(* These commands are neither awaited nor closed: each is a process that   *)
(* runs when it likes, and leaves a descriptor open.  syslog holds another *)
(* from its first message to the next closelog.  A setting is the number   *)
(* of the request it came with; a reply is a broadcast to the port the     *)
(* daemon itself listens on.                                               *)
(***************************************************************************)
EXTENDS Naturals, Sequences, FiniteSets

CONSTANTS
  Batches,      \* the lists of commands that settings requests carry
  Descriptors,  \* file descriptors the daemon may have open
  CallbackNum,  \* CLIENT_FILLMSG_NUM_OF_CALLBACKS
  CmdMax,       \* CMD_MAX
  MaxRequests,  \* bound: datagrams of the management program
  MaxRecvErrors, MaxMallocErrors \* bounds: failures of recvfrom and malloc

Commands == {"DEFAULT_ALL", "REBOOT_ALL", "IPADDRESS", "NETMASK", "GATEWAY",
             "SYSTEM_NAME", "SYSTEM_LOCATION", "SNMP_STATE"}

\* What a request may hold in the place of a command: a name that is not in the
\* table, and a name of the table with nothing behind its "=".
Entries == Commands \cup {"UNKNOWN", "NOVALUE"}

ASSUME DeviceMonitorAssumption ==
  /\ Batches \subseteq Seq(Entries) \ {<<>>}
  /\ {Descriptors, CallbackNum, CmdMax} \subseteq Nat \ {0}
  /\ {MaxRequests, MaxRecvErrors, MaxMallocErrors} \subseteq Nat

Keys == {"proto", "ipaddr", "netmask", "gateway", "description", "location", "enabled"}
Package == [proto |-> "network", ipaddr |-> "network", netmask |-> "network",
            gateway |-> "network", description |-> "system", location |-> "system",
            enabled |-> "snmpd"]
Packages == {"network", "system", "snmpd"}

VARIABLES
  \* clientInfo and the send callbacks
  state, event, msgType, count,
  sendCb,       \* eventSendMsg_CallbackArray: the types with a callback
  \* buffers
  buf,          \* the datagram in buffer
  fresh,        \* bufferLen > 0: the last recvfrom succeeded
  settMine,     \* does settingsMsg hold the MAC address of this device
  named,        \* is configParam filled in
  \* settings_handler
  todo, apply, result,
  steps,        \* what the command under way has still to start
  logOpen,      \* does syslog hold a descriptor, while there are steps
  free,         \* descriptors left, that of syslog not taken out
  \* the processes, uci and the network
  jobs, njobs, delta, config, net,
  \* the environment
  received, recvErrors, mallocErrors, echoes,
  \* history
  asked, replies, \* requests received and answered
  missed,         \* a command was not started for want of descriptors
  spoilt,         \* requests that got no reply for that, or OK though one was missed
  raced,          \* a process has ended before one that was started earlier
  genuine,        \* the settings requests this device should take
  last            \* the value last set for a key

client == <<state, event, msgType, count, sendCb>>
buffers == <<buf, fresh, settMine, named>>
handler == <<todo, apply, result, steps, logOpen>>
system == <<jobs, njobs, delta, config, net>>
world == <<received, recvErrors, mallocErrors, echoes>>
history == <<asked, replies, missed, spoilt, raced, genuine, last>>
vars == <<client, buffers, handler, free, system, world, history>>
-----------------------------------------------------------------------------
(***************************************************************************)
(* Processes.                                                              *)
(***************************************************************************)
\* A process to start, and what becomes of syslog's descriptor before it: a
\* message has it opened, closelog has it closed, or neither.
Opened(op, arg) == [op |-> op, arg |-> arg, log |-> "open"]
Kept(op, arg)   == [op |-> op, arg |-> arg, log |-> "kept"]
Closed(op, arg) == [op |-> op, arg |-> arg, log |-> "closed"]

CommitFirst(k) == <<Opened("commit", Package[k]), Kept("set", k)>>  \* mutant: swapped
SetAndCommit(k) == <<Opened("set", k), Kept("commit", Package[k])>>

\* What the run functions start, in order.  A gateway is set or deleted.
Starts ==
  [DEFAULT_ALL     |-> <<Opened("echo", "-")>>,
   REBOOT_ALL      |-> <<Opened("echo", "-")>>,
   IPADDRESS       |-> <<Opened("show", "proto")>>,
   NETMASK         |-> <<Opened("set", "netmask")>>,
   GATEWAY         |-> SetAndCommit("gateway"),
   SYSTEM_NAME     |-> SetAndCommit("description"),
   SYSTEM_LOCATION |-> SetAndCommit("location"),
   SNMP_STATE      |-> SetAndCommit("enabled") \o <<Closed("restart", "snmpd")>>,
   SYS_RELOAD      |-> <<Opened("restart", "system")>>,
   NET_RELOAD      |-> <<Closed("restart", "network")>>]

\* runSetIp, for the line that "uci show network.lan.proto" prints.
Shown == <<Kept("set", "proto"), Kept("set", "ipaddr")>>

\* The reloads a command asks for: applySystem and applyNetwork.
Applies(cmd) ==
  IF cmd \in {"SYSTEM_NAME", "SYSTEM_LOCATION"} THEN {"system"}
  ELSE IF cmd \in {"NETMASK", "GATEWAY", "SNMP_STATE"} THEN {"network"} ELSE {}

\* popen takes two descriptors and gives one back at once.
Unlimited(log) == TRUE  \* mutant: every popen succeeds
CanPopen(log) == free >= IF log THEN 3 ELSE 2

Die == state' = "dead" /\ UNCHANGED <<event, msgType, count, sendCb>>
-----------------------------------------------------------------------------
(***************************************************************************)
(* client_handler.                                                         *)
(***************************************************************************)
\* CLIENT_SATE_INIT
client_init ==
  /\ state = "INIT"
  /\ state' = "WAIT"
  /\ free' = free - 1
  /\ UNCHANGED <<event, msgType, count, sendCb, buffers, handler, system, world, history>>

\* client_waitCommand: the event a datagram raises.
AcksAnswered(kind) ==  \* mutant: the acknowledgement is taken for the request
  CASE kind \in {"find", "ack"} -> {"FIND"}
    [] kind = "settings" -> {"SETTINGS"}
    [] kind = "update" -> {"UPDATE"}
    [] OTHER -> {}
client_waitCommand(kind) ==
  CASE kind = "find" -> {"FIND"}
    [] kind = "settings" -> {"SETTINGS"}
    [] kind = "update" -> {"UPDATE"}
    [] OTHER -> {}

Dispatch(kind) ==
  LET e == event \cup client_waitCommand(kind)
  IN /\ event' = e \ {"FIND", "SETTINGS"}
     /\ IF "SETTINGS" \in e
        THEN state' = "SETTINGS" /\ msgType' = "settings" /\ count' = 0
        ELSE IF "FIND" \in e
        THEN state' = "FILL_MSG" /\ msgType' = "search" /\ count' = 0
        ELSE UNCHANGED <<state, msgType, count>>

\* A datagram that is no request of settings, of this daemon or unset.
Plain(kind) == [kind |-> kind, mine |-> FALSE, hash |-> FALSE, cmds |-> <<>>, id |-> 0]

\* A request of the management program, or any other datagram it sends.  What
\* is lost, repeated or reordered on the way is a matter of what arrives here.
Receive ==
  /\ state = "WAIT" /\ received < MaxRequests
  /\ received' = received + 1
  /\ \E kind \in {"find", "settings", "update", "other"}, mine \in BOOLEAN,
        hash \in BOOLEAN, cmds \in Batches \cup {<<>>} :
        /\ kind = "settings" => cmds # <<>>
        /\ kind # "settings" => ~mine /\ ~hash /\ cmds = <<>>
        /\ buf' = [kind |-> kind, mine |-> mine, hash |-> hash, cmds |-> cmds, id |-> received + 1]
        /\ asked' = asked + (IF kind \in {"find", "settings"} THEN 1 ELSE 0)
        /\ genuine' = IF hash /\ (mine \/ ~named) THEN genuine \cup {received + 1} ELSE genuine
        /\ Dispatch(kind)
  /\ fresh' = TRUE
  /\ UNCHANGED <<sendCb, settMine, named, handler, free, system, recvErrors, mallocErrors, echoes,
                 replies, missed, spoilt, raced, last>>

\* A reply of this daemon, which hears its own broadcasts.
ReceiveAck ==
  /\ state = "WAIT" /\ echoes > 0
  /\ echoes' = echoes - 1
  /\ buf' = Plain("ack")
  /\ Dispatch("ack")
  /\ fresh' = TRUE
  /\ UNCHANGED <<sendCb, settMine, named, handler, free, system, received, recvErrors, mallocErrors,
                 history>>

\* recvfrom fails: bufferLen, which is unsigned, ends as 0, and the command is
\* what the buffer still holds.
RecvFails ==
  /\ state = "WAIT" /\ recvErrors < MaxRecvErrors
  /\ recvErrors' = recvErrors + 1
  /\ Dispatch(buf.kind)
  /\ fresh' = FALSE
  /\ UNCHANGED <<sendCb, buf, settMine, named, handler, free, system, received, mallocErrors, echoes,
                 history>>

\* client_emitEvent_fillmsg.  Each call logs before it opens its first pipe, and
\* the callbacks read pipes they do not check.  The loop counts to CMD_MAX, past
\* the end of its array: what it takes there for a callback is skipped if it is
\* zero, and a crash if it is not.
MsgReadyLate == count > CmdMax  \* mutant: off by one
MsgReady == count >= CmdMax

NoCrash == TRUE     \* mutant: a pipe that was not opened is skipped
PipesOpen == CanPopen(TRUE)

FillMsg ==
  /\ state = "FILL_MSG" /\ count < CmdMax
  /\ \/ /\ count < CallbackNum => PipesOpen
        /\ count' = count + 1
        /\ named' = (named \/ count = 0)  \* getDeviceInfo
        /\ UNCHANGED <<state, event, msgType, sendCb>>
     \/ /\ count < CallbackNum => ~PipesOpen
        /\ Die /\ UNCHANGED named
  /\ UNCHANGED <<buf, fresh, settMine, handler, free, system, world, history>>

FillDone ==
  /\ state = "FILL_MSG" /\ count >= CmdMax /\ MsgReady
  /\ state' = "SEND"
  /\ sendCb' = sendCb \cup {msgType}
  /\ UNCHANGED <<event, msgType, count, buffers, handler, free, system, world, history>>

\* CLIENT_STATE_SETTINGS: client_settings.  The checks read pipes; getBuffer
\* copies nothing when the last recvfrom failed, and the hash of settingsMsg
\* was wiped after its last use.  Without a search before it the daemon does
\* not know its device name: what it takes for its MAC address is then read
\* from an uninitialised buffer, and agrees with the request's or does not.
AnyMac(guess) == TRUE  \* mutant: the address is not compared
checkMacAddress(guess) ==
  IF ~named THEN guess ELSE IF fresh THEN buf.mine ELSE settMine
checkMD5Sum == fresh /\ buf.hash
MayBeMine == \E guess \in BOOLEAN : checkMacAddress(guess)

ReadSettings == settMine' = IF fresh THEN buf.mine ELSE settMine

SettingsCrash ==
  /\ state = "SETTINGS" /\ ~PipesOpen
  /\ Die
  /\ UNCHANGED <<buffers, handler, free, system, world, history>>

NotForThisDevice ==
  /\ state = "SETTINGS" /\ PipesOpen /\ \E guess \in BOOLEAN : ~checkMacAddress(guess)
  /\ ReadSettings
  /\ state' = "WAIT"
  /\ UNCHANGED <<event, msgType, count, sendCb, buf, fresh, named, handler, free, system, world, history>>

Refuse ==
  /\ state = "SETTINGS" /\ PipesOpen /\ MayBeMine /\ ~checkMD5Sum
  /\ ReadSettings
  /\ result' = "ERR_AUTHENTICATION"
  /\ sendCb' = sendCb \cup {msgType}
  /\ state' = "SEND"
  /\ UNCHANGED <<event, msgType, count, buf, fresh, named, todo, apply, steps, logOpen, free, system,
                 world, history>>

\* getDynamicMapCmd_ptr has no memory: the state stays, and the next call of
\* client_handler takes the same request from the buffer.
MallocFails ==
  /\ state = "SETTINGS" /\ PipesOpen /\ MayBeMine /\ checkMD5Sum
  /\ mallocErrors < MaxMallocErrors
  /\ mallocErrors' = mallocErrors + 1
  /\ ReadSettings
  /\ UNCHANGED <<client, buf, fresh, named, handler, free, system, received, recvErrors, echoes,
                 history>>

\* getSettingsCmdArray, with the reset of the apply flags.  A name without a
\* value has strncpy read from NULL.
Accept ==
  /\ state = "SETTINGS" /\ PipesOpen /\ MayBeMine /\ checkMD5Sum
  /\ ReadSettings
  /\ IF \E i \in DOMAIN buf.cmds : buf.cmds[i] = "NOVALUE"
     THEN Die /\ UNCHANGED <<todo, apply>>
     ELSE /\ todo' = buf.cmds /\ apply' = {}
          /\ state' = "RUN"
          /\ UNCHANGED <<event, msgType, count, sendCb>>
  /\ UNCHANGED <<buf, fresh, named, result, steps, logOpen, free, system, world, history>>

\* settings_handler takes the next command.  Of a name that is not in the table
\* the entry of the map is uninitialised: any command is run, one of those that
\* only the daemon itself uses too, or none, or what is called is no function.
Runs(entry) == IF entry = "UNKNOWN" THEN DOMAIN Starts ELSE {entry}

RunCommand ==
  /\ state = "RUN" /\ steps = <<>> /\ todo # <<>>
  /\ todo' = Tail(todo)
  /\ \E cmd \in Runs(Head(todo)) : steps' = Starts[cmd] /\ apply' = apply \cup Applies(cmd)
  /\ UNCHANGED <<client, buffers, result, logOpen, free, system, world, history>>

RunUnknown ==
  /\ state = "RUN" /\ steps = <<>> /\ todo # <<>> /\ Head(todo) = "UNKNOWN"
  /\ todo' = Tail(todo)
  /\ Die \/ UNCHANGED client
  /\ UNCHANGED <<buffers, apply, result, steps, logOpen, free, system, world, history>>

\* openPipe without closePipe.  When it fails its error message ends with
\* closelog, so that the next one may find a descriptor more.  Of the processes
\* echo and the restarts of other services than the network do nothing here.
Popens == state \in {"RUN", "APPLY", "RELOAD"} /\ steps # <<>>
LogOpen(s) == s.log = "open" \/ (s.log = "kept" /\ logOpen)

openPipe ==
  /\ Popens /\ Head(steps).op # "show"
  /\ LET s == Head(steps)
     IN IF CanPopen(LogOpen(s))
        THEN /\ free' = free - 1 /\ logOpen' = LogOpen(s)
             /\ njobs' = njobs + 1
             /\ jobs' = IF s.op \in {"set", "commit"} \/ s.arg = "network"
                        THEN jobs \cup {[n |-> njobs + 1, op |-> s.op, arg |-> s.arg, val |-> buf.id]}
                        ELSE jobs
             /\ last' = [k \in Keys |-> IF s.op = "set" /\ s.arg = k THEN buf.id ELSE last[k]]
             /\ UNCHANGED missed
        ELSE /\ logOpen' = FALSE /\ missed' = TRUE
             /\ UNCHANGED <<free, jobs, njobs, last>>
  /\ steps' = Tail(steps)
  /\ UNCHANGED <<client, buffers, todo, apply, result, delta, config, net, world,
                 asked, replies, spoilt, raced, genuine>>

\* runSetIp reads its pipe to the end without a check that it is open.  If
\* nothing is printed nothing is set.
runSetIp ==
  /\ Popens /\ Head(steps).op = "show"
  /\ IF CanPopen(LogOpen(Head(steps)))
     THEN /\ free' = free - 1 /\ logOpen' = LogOpen(Head(steps))
          /\ \/ steps' = Shown /\ apply' = apply \cup {"network"}
             \/ steps' = Tail(steps) /\ UNCHANGED apply
          /\ UNCHANGED client
     ELSE Die /\ UNCHANGED <<free, logOpen, steps, apply>>
  /\ UNCHANGED <<buffers, todo, result, system, world, history>>

\* The end of settings_handler reloads, and asks for another reload later.
ApplySettings ==
  /\ state = "RUN" /\ steps = <<>> /\ todo = <<>>
  /\ state' = "APPLY"
  /\ steps' = (IF "system" \in apply THEN Starts.SYS_RELOAD ELSE <<>>)
              \o (IF "network" \in apply THEN Starts.NET_RELOAD ELSE <<>>)
  /\ UNCHANGED <<event, msgType, count, sendCb, buffers, todo, apply, result, logOpen, free,
                 system, world, history>>

SettingsDone ==
  /\ state = "APPLY" /\ steps = <<>>
  /\ result' = "OK"
  /\ event' = event \cup {IF s = "system" THEN "SYS_RELOAD" ELSE "NET_RELOAD" : s \in apply}
  /\ sendCb' = sendCb \cup {msgType}
  /\ state' = "SEND"
  /\ UNCHANGED <<msgType, count, buffers, todo, apply, steps, logOpen, free, system, world, history>>

\* client_unRegisterEvent_sendmsg
CallbackKept == sendCb  \* mutant: the callback is not taken out
client_unRegisterEvent_sendmsg == sendCb \ {msgType}

\* net_sendMsg logs before it opens its socket: no reply without a descriptor
\* for each, nor without a network; in that case the socket is not closed.
net_sendMsg ==
  IF free < 2
  THEN spoilt' = spoilt + 1 /\ UNCHANGED <<free, echoes, replies>>
  ELSE IF ~net
  THEN free' = free - 1 /\ UNCHANGED <<echoes, replies, spoilt>>
  ELSE /\ echoes' = echoes + 1 /\ replies' = replies + 1
       /\ spoilt' = spoilt + (IF msgType = "settings" /\ result = "OK" /\ missed THEN 1 ELSE 0)
       /\ UNCHANGED free

\* CLIENT_STATE_SEND: the callback copies the reply into the buffer.
Send ==
  /\ state = "SEND"
  /\ state' = "RELOAD"
  /\ IF msgType \in sendCb
     THEN net_sendMsg /\ buf' = Plain("ack")
     ELSE UNCHANGED <<free, echoes, replies, spoilt, buf>>
  /\ sendCb' = client_unRegisterEvent_sendmsg
  /\ UNCHANGED <<event, msgType, count, fresh, settMine, named, handler, system,
                 received, recvErrors, mallocErrors, asked, missed, raced, genuine, last>>

\* CLIENT_STATE_RELOAD.  Nothing is logged before the restarts here.
Due == IF "SYS_RELOAD" \in event THEN {"SYS_RELOAD"} ELSE event \cap {"NET_RELOAD"}

Reload ==
  /\ state = "RELOAD" /\ steps = <<>> /\ Due # {}
  /\ event' = event \ Due
  /\ steps' = <<Closed("restart", IF "SYS_RELOAD" \in Due THEN "system" ELSE "network")>>
  /\ UNCHANGED <<state, msgType, count, sendCb, buffers, todo, apply, result, logOpen, free,
                 system, world, history>>

ReloadDone ==
  /\ state = "RELOAD" /\ steps = <<>> /\ Due = {}
  /\ state' = "WAIT"
  /\ UNCHANGED <<event, msgType, count, sendCb, buffers, handler, free, system, world, history>>

Handle == client_init \/ FillMsg \/ FillDone \/ SettingsCrash \/ NotForThisDevice \/ Refuse
          \/ Accept \/ RunCommand \/ RunUnknown \/ openPipe \/ runSetIp \/ ApplySettings
          \/ SettingsDone \/ Send \/ Reload \/ ReloadDone
-----------------------------------------------------------------------------
(***************************************************************************)
(* The processes and the network.  uci locks its files: a command of it is *)
(* one step.                                                               *)
(***************************************************************************)
End(j) ==
  /\ jobs' = jobs \ {j}
  /\ raced' = (raced \/ \E i \in jobs : i.n < j.n)
  /\ UNCHANGED <<client, buffers, handler, free, njobs, world,
                 asked, replies, missed, spoilt, genuine, last>>

UciSet(j) ==
  /\ j.op = "set" /\ End(j)
  /\ delta' = [delta EXCEPT ![j.arg] = j.val]
  /\ UNCHANGED <<config, net>>

UciCommit(j) ==
  /\ j.op = "commit" /\ End(j)
  /\ config' = [k \in Keys |-> IF Package[k] = j.arg /\ delta[k] # 0 THEN delta[k] ELSE config[k]]
  /\ delta' = [k \in Keys |-> IF Package[k] = j.arg THEN 0 ELSE delta[k]]
  /\ UNCHANGED net

NetworkRestart(j) ==
  /\ j.op = "restart" /\ End(j)
  /\ net' = FALSE
  /\ UNCHANGED <<delta, config>>

NetUp ==
  /\ ~net
  /\ net' = TRUE
  /\ UNCHANGED <<client, buffers, handler, free, jobs, njobs, delta, config, world, history>>

RunJob == \E j \in jobs : UciSet(j) \/ UciCommit(j) \/ NetworkRestart(j)

Nothing == [k \in Keys |-> 0]

Init ==
  /\ state = "INIT" /\ event = {} /\ msgType = "idle" /\ count = 0 /\ sendCb = {}
  /\ buf = Plain("other")
  /\ fresh = FALSE /\ settMine = FALSE /\ named = FALSE
  /\ todo = <<>> /\ apply = {} /\ result = "OK"
  /\ steps = <<>> /\ logOpen = FALSE
  /\ free = Descriptors
  /\ jobs = {} /\ njobs = 0 /\ delta = Nothing /\ config = Nothing /\ net = TRUE
  /\ received = 0 /\ recvErrors = 0 /\ mallocErrors = 0 /\ echoes = 0
  /\ asked = 0 /\ replies = 0 /\ missed = FALSE /\ spoilt = 0 /\ raced = FALSE
  /\ genuine = {} /\ last = Nothing

Next == Handle \/ Receive \/ ReceiveAck \/ RecvFails \/ MallocFails \/ RunJob \/ NetUp

Spec == Init /\ [][Next]_vars

\* The daemon's loop goes on; it is not assumed that anything arrives, or that
\* the processes ever run.
FairSpec == Spec /\ WF_vars(Handle)
-----------------------------------------------------------------------------
Datagrams == [kind : {"find", "settings", "update", "other", "ack"}, mine : BOOLEAN,
              hash : BOOLEAN, cmds : Batches \cup {<<>>}, id : Nat]
Jobs == [n : Nat, op : {"set"}, arg : Keys, val : Nat]
        \cup [n : Nat, op : {"commit", "restart"}, arg : Packages, val : Nat]
Logs == {"open", "kept", "closed"}
Steps == [op : {"set", "show"}, arg : Keys, log : Logs] \cup [op : {"echo"}, arg : {"-"}, log : Logs]
         \cup [op : {"commit", "restart"}, arg : Packages, log : Logs]

\* Type invariant.
TypeOK ==
  /\ state \in {"INIT", "WAIT", "FILL_MSG", "SETTINGS", "RUN", "APPLY", "SEND", "RELOAD", "dead"}
  /\ event \subseteq {"FIND", "SETTINGS", "UPDATE", "SYS_RELOAD", "NET_RELOAD"}
  /\ msgType \in {"idle", "search", "settings"} /\ sendCb \subseteq {"idle", "search", "settings"}
  /\ count \in 0..CmdMax
  /\ buf \in Datagrams
  /\ fresh \in BOOLEAN /\ settMine \in BOOLEAN /\ named \in BOOLEAN
  /\ todo \in Seq(Entries) /\ apply \subseteq {"system", "network"}
  /\ result \in {"OK", "ERR_AUTHENTICATION"}
  /\ steps \in Seq(Steps) /\ logOpen \in BOOLEAN
  /\ free \in 0..Descriptors /\ (state = "INIT" => free > 0)
  /\ jobs \subseteq Jobs /\ njobs \in Nat
  /\ \A j \in jobs : j.n <= njobs
  /\ delta \in [Keys -> Nat] /\ config \in [Keys -> Nat] /\ last \in [Keys -> Nat]
  /\ net \in BOOLEAN /\ missed \in BOOLEAN /\ raced \in BOOLEAN
  /\ genuine \subseteq Nat
  /\ {received, recvErrors, mallocErrors, echoes, asked, replies, spoilt} \subseteq Nat

\* When the daemon waits or works on a request, nothing of an earlier one is
\* left: no reload is due, so that a search never restarts the network, and no
\* send callback is registered, so that client_registerEvent_sendmsg never finds
\* its place taken and a reply is never that of another request.
NothingLeftOver ==
  state \in {"WAIT", "FILL_MSG", "SETTINGS", "RUN", "APPLY"} => sendCb = {} /\ event \subseteq {"UPDATE"}

\* A request is answered at most once, and nothing but a request is: not the
\* replies, which the daemon hears itself, nor a stale buffer.
RepliesAreAnswers ==
  replies + (IF state \in {"FILL_MSG", "SETTINGS", "RUN", "APPLY", "SEND"} THEN 1 ELSE 0) <= asked

\* The descriptors of the commands are never closed.  When they run out a
\* request may be answered with OK though popen failed for a command of it, or
\* not be answered for want of a socket, but that happens once: the next request
\* is the daemon's last.  (A name that is not in the table, or an address that
\* is not set as there is no old one, is not counted.)
OneSpoiltReply == spoilt <= 1

\* No setting comes into the configuration but with a request that carried the
\* hash and, once a search has told the daemon its name, this device's address.
OnlyGenuine ==
  LET ids == genuine \cup {0}
  IN /\ \A j \in jobs : j.op = "set" => j.val \in ids
     /\ \A k \in Keys : delta[k] \in ids /\ config[k] \in ids

\* When the processes have ended in the order they were started and none was
\* left out, a setting of the system or of snmpd is committed, and one of the
\* network is at least waiting for a commit.
PersistedInOrder ==
  jobs = {} /\ steps = <<>> /\ ~raced /\ ~missed =>
    \A k \in Keys :
      \/ config[k] = last[k] /\ delta[k] = 0
      \/ Package[k] = "network" /\ delta[k] = last[k]

\* The daemon comes back to wait for the next request, or it has crashed.
BackToWait == state # "WAIT" ~> state \in {"WAIT", "dead"}
=============================================================================
