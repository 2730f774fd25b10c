------------------------- MODULE DeviceMonitorProofs -------------------------
(***************************************************************************)
(* Proofs about the device monitor.                                        *)
(***************************************************************************)
EXTENDS DeviceMonitor, TLAPS

LEMMA ConstantFacts ==
  /\ Descriptors \in Nat /\ Descriptors >= 1
  /\ CallbackNum \in Nat /\ CallbackNum >= 1
  /\ CmdMax \in Nat /\ CmdMax >= 1
  /\ {MaxRequests, MaxRecvErrors, MaxMallocErrors} \subseteq Nat
  /\ \A b \in Batches : b \in Seq(Entries)
BY DeviceMonitorAssumption

-----------------------------------------------------------------------------
(***************************************************************************)
(* What the commands start.  A list sets no key of the system or of snmpd  *)
(* without a commit after it, and "uci show" stands alone.                 *)
(***************************************************************************)
IsCommit(s, p) == s.op = "commit" /\ s.arg = p

Commits(js) ==
  \A i \in 1..Len(js) : js[i].op = "set" =>
     \/ Package[js[i].arg] = "network"
     \/ \E c \in (i + 1)..Len(js) : IsCommit(js[c], Package[js[i].arg])

ShowAlone(js) == \A i \in 1..Len(js) : js[i].op = "show" => Len(js) = 1

GoodList(js) == js \in Seq(Steps) /\ Commits(js) /\ ShowAlone(js)

Restarts(js) == js \in Seq(Steps) /\ \A i \in 1..Len(js) : js[i].op = "restart"

LEMMA EmptyList == GoodList(<<>>) /\ Restarts(<<>>)
BY DEF GoodList, Restarts, Commits, ShowAlone

LEMMA RestartsAreGood == ASSUME NEW js, Restarts(js) PROVE GoodList(js)
BY DEF GoodList, Restarts, Commits, ShowAlone

LEMMA OneRestart ==
  ASSUME NEW p \in Packages
  PROVE  Restarts(<<Opened("restart", p)>>) /\ Restarts(<<Closed("restart", p)>>)
BY DEF Restarts, Steps, Logs, Opened, Closed

LEMMA OneStep ==
  /\ GoodList(<<Opened("echo", "-")>>)
  /\ GoodList(<<Opened("show", "proto")>>)
  /\ GoodList(<<Opened("set", "netmask")>>)
BY DEF GoodList, Steps, Logs, Commits, ShowAlone, Opened, Keys, Package

LEMMA TwoSteps == ASSUME NEW k \in Keys PROVE GoodList(SetAndCommit(k)) /\ Len(SetAndCommit(k)) = 2
<1>1. Package[k] \in Packages
  BY DEF Package, Packages, Keys
<1> DEFINE a == Opened("set", k)
           b == Kept("commit", Package[k])
<1>2. a \in Steps /\ b \in Steps /\ a.op = "set" /\ a.arg = k /\ IsCommit(b, Package[k])
  BY <1>1 DEF Opened, Kept, Steps, Logs, IsCommit
<1>3. SetAndCommit(k) = <<a, b>>
  BY DEF SetAndCommit
<1> HIDE DEF a, b
<1>4. GoodList(<<a, b>>)
  <2>1. <<a, b>> \in Seq(Steps) /\ Len(<<a, b>>) = 2 /\ <<a, b>>[1] = a /\ <<a, b>>[2] = b
    BY <1>2
  <2> DEFINE js == <<a, b>>
  <2> HIDE DEF js
  <2>2. js \in Seq(Steps) /\ Len(js) = 2 /\ js[1] = a /\ js[2] = b
    BY <2>1 DEF js
  <2>3. Commits(js)
    <3> SUFFICES ASSUME NEW i \in 1..Len(js), js[i].op = "set"
                 PROVE  \E c \in (i + 1)..Len(js) : IsCommit(js[c], Package[js[i].arg])
      BY DEF Commits
    <3>1. i = 1
      BY <1>2, <2>2 DEF IsCommit
    <3>2. 2 \in (i + 1)..Len(js)
      BY <2>2, <3>1
    <3>3. QED
      BY <1>2, <2>2, <3>1, <3>2
  <2>4. ShowAlone(js)
    BY <1>2, <2>2 DEF ShowAlone, IsCommit
  <2>5. GoodList(js)
    BY <2>2, <2>3, <2>4 DEF GoodList
  <2>6. QED
    BY <2>5 DEF js
<1>5. QED
  BY <1>3, <1>4

LEMMA Concat ==
  ASSUME NEW x \in Seq(Steps), NEW y \in Seq(Steps)
  PROVE  /\ x \o y \in Seq(Steps) /\ Len(x \o y) = Len(x) + Len(y)
         /\ \A i \in 1..Len(x \o y) : (x \o y)[i] = IF i <= Len(x) THEN x[i] ELSE y[i - Len(x)]
OBVIOUS

LEMMA ThreeSteps ==
  ASSUME NEW js, GoodList(js), Len(js) = 2, NEW r \in Steps, r.op = "restart",
         ~\E i \in 1..2 : js[i].op = "show"
  PROVE  GoodList(js \o <<r>>)
<1> DEFINE one == <<r>>
           all == js \o one
<1>1. js \in Seq(Steps) /\ one \in Seq(Steps) /\ Len(one) = 1 /\ one[1] = r
  BY DEF GoodList
<1> HIDE DEF one
<1>2. /\ all \in Seq(Steps) /\ Len(all) = 3 /\ all[3] = r
      /\ all[1] = js[1] /\ all[2] = js[2]
  <2>1. /\ all \in Seq(Steps) /\ Len(all) = Len(js) + Len(one)
        /\ \A i \in 1..Len(all) : all[i] = IF i <= Len(js) THEN js[i] ELSE one[i - Len(js)]
    BY <1>1, Concat
  <2> HIDE DEF all
  <2>2. Len(all) = 3
    BY <1>1, <2>1
  <2>3. 1 \in 1..Len(all) /\ 2 \in 1..Len(all) /\ 3 \in 1..Len(all)
    BY <2>2
  <2>4. all[1] = js[1] /\ all[2] = js[2] /\ all[3] = one[3 - 2]
    BY <2>1, <2>3
  <2>5. QED
    BY <1>1, <2>1, <2>2, <2>4
<1> HIDE DEF all
<1>3. Commits(all)
  <2> SUFFICES ASSUME NEW i \in 1..Len(all), all[i].op = "set", Package[all[i].arg] # "network"
               PROVE  \E c \in (i + 1)..Len(all) : IsCommit(all[c], Package[all[i].arg])
    BY DEF Commits
  <2>1. i \in 1..2 /\ all[i] = js[i]
    BY <1>1, <1>2
  <2>2. PICK c \in (i + 1)..Len(js) : IsCommit(js[c], Package[js[i].arg])
    BY <2>1 DEF GoodList, Commits
  <2>3. c \in (i + 1)..Len(all) /\ all[c] = js[c]
    BY <1>2, <2>1, <2>2
  <2>4. QED
    BY <2>1, <2>2, <2>3
<1>4. ShowAlone(all)
  BY <1>1, <1>2 DEF ShowAlone
<1>5. QED
  BY <1>2, <1>3, <1>4 DEF GoodList, all, one

LEMMA StartsFacts ==
  ASSUME NEW cmd \in DOMAIN Starts
  PROVE  GoodList(Starts[cmd])
<1>1. {"proto", "ipaddr", "netmask", "gateway", "description", "location", "enabled"} \subseteq Keys
      /\ {"network", "system", "snmpd"} \subseteq Packages
  BY DEF Keys, Packages
<1>2. CASE cmd \in {"DEFAULT_ALL", "REBOOT_ALL", "IPADDRESS", "NETMASK"}
  BY <1>2, OneStep DEF Starts
<1>3. CASE cmd = "GATEWAY"
  BY <1>1, <1>3, TwoSteps DEF Starts
<1>4. CASE cmd = "SYSTEM_NAME"
  BY <1>1, <1>4, TwoSteps DEF Starts
<1>5. CASE cmd = "SYSTEM_LOCATION"
  BY <1>1, <1>5, TwoSteps DEF Starts
<1>6. CASE cmd = "SNMP_STATE"
  <2> DEFINE js == SetAndCommit("enabled")
  <2>1. Starts[cmd] = js \o <<Closed("restart", "snmpd")>>
    BY <1>6 DEF Starts
  <2>2. GoodList(js) /\ Len(js) = 2
    BY <1>1, TwoSteps
  <2>3. ~\E i \in 1..2 : js[i].op = "show"
    BY DEF SetAndCommit, Opened, Kept
  <2>4. Closed("restart", "snmpd") \in Steps /\ Closed("restart", "snmpd").op = "restart"
    BY <1>1 DEF Closed, Steps, Logs
  <2> HIDE DEF js
  <2>5. QED
    BY <2>1, <2>2, <2>3, <2>4, ThreeSteps
<1>7. CASE cmd \in {"SYS_RELOAD", "NET_RELOAD"}
  <2>1. Restarts(<<Opened("restart", "system")>>) /\ Restarts(<<Closed("restart", "network")>>)
    BY <1>1, OneRestart
  <2>2. Restarts(Starts[cmd])
    BY <1>7, <2>1 DEF Starts
  <2>3. QED
    BY <2>2, RestartsAreGood
<1>8. QED
  BY <1>2, <1>3, <1>4, <1>5, <1>6, <1>7 DEF Starts

LEMMA ShownIsGood == GoodList(Shown)
<1> DEFINE a == Kept("set", "proto")
           b == Kept("set", "ipaddr")
<1>1. a \in Steps /\ b \in Steps /\ a.op = "set" /\ b.op = "set"
      /\ Package[a.arg] = "network" /\ Package[b.arg] = "network"
  BY DEF Kept, Steps, Logs, Keys, Package
<1>2. Shown = <<a, b>>
  BY DEF Shown
<1> HIDE DEF a, b
<1>3. Shown \in Seq(Steps) /\ Len(Shown) = 2 /\ Shown[1] = a /\ Shown[2] = b
  BY <1>1, <1>2
<1>4. QED
  BY <1>1, <1>3 DEF GoodList, Commits, ShowAlone

LEMMA ApplyRestarts ==
  Restarts((IF "system" \in apply THEN Starts.SYS_RELOAD ELSE <<>>)
           \o (IF "network" \in apply THEN Starts.NET_RELOAD ELSE <<>>))
<1> DEFINE a == IF "system" \in apply THEN Starts.SYS_RELOAD ELSE <<>>
           b == IF "network" \in apply THEN Starts.NET_RELOAD ELSE <<>>
<1>1. Restarts(<<Opened("restart", "system")>>) /\ Restarts(<<Closed("restart", "network")>>)
  BY OneRestart DEF Packages
<1>2. Restarts(a) /\ Restarts(b)
  BY <1>1, EmptyList DEF Starts
<1> HIDE DEF a, b
<1>3. ASSUME NEW x, NEW y, Restarts(x), Restarts(y) PROVE Restarts(x \o y)
  <2>1. x \in Seq(Steps) /\ y \in Seq(Steps)
    BY <1>3 DEF Restarts
  <2>2. /\ x \o y \in Seq(Steps) /\ Len(x \o y) = Len(x) + Len(y)
        /\ \A i \in 1..Len(x \o y) : (x \o y)[i] = IF i <= Len(x) THEN x[i] ELSE y[i - Len(x)]
    BY <2>1, Concat
  <2>3. Len(x) \in Nat /\ Len(y) \in Nat
    BY <2>1
  <2>4. ASSUME NEW i \in 1..Len(x \o y) PROVE (x \o y)[i].op = "restart"
    <3>1. CASE i <= Len(x)
      BY <2>2, <2>3, <3>1, <1>3 DEF Restarts
    <3>2. CASE ~(i <= Len(x))
      <4>1. i - Len(x) \in 1..Len(y)
        BY <2>2, <2>3, <3>2
      <4>2. QED
        BY <2>2, <3>2, <4>1, <1>3 DEF Restarts
    <3>3. QED
      BY <3>1, <3>2
  <2>5. QED
    BY <2>2, <2>4 DEF Restarts
<1>4. Restarts(a \o b)
  BY <1>2, <1>3
<1>5. QED
  BY <1>4 DEF a, b

LEMMA TailFacts ==
  ASSUME NEW js \in Seq(Steps), js # <<>>
  PROVE  /\ Len(js) \in Nat /\ Len(js) >= 1 /\ Head(js) = js[1] /\ Head(js) \in Steps
         /\ Tail(js) \in Seq(Steps) /\ Len(Tail(js)) = Len(js) - 1
         /\ \A i \in 1..Len(Tail(js)) : i + 1 \in 1..Len(js) /\ Tail(js)[i] = js[i + 1]
         /\ \A i \in 2..Len(js) : i - 1 \in 1..Len(Tail(js)) /\ Tail(js)[i - 1] = js[i]
OBVIOUS

LEMMA TailIsGood ==
  ASSUME NEW js, GoodList(js), js # <<>>, Head(js).op # "show"
  PROVE  GoodList(Tail(js))
<1> DEFINE t == Tail(js)
<1>1. js \in Seq(Steps)
  BY DEF GoodList
<1>2. /\ Len(js) \in Nat /\ Len(js) >= 1 /\ Head(js) = js[1]
      /\ t \in Seq(Steps) /\ Len(t) = Len(js) - 1
      /\ \A i \in 1..Len(t) : i + 1 \in 1..Len(js) /\ t[i] = js[i + 1]
      /\ \A i \in 2..Len(js) : i - 1 \in 1..Len(t) /\ t[i - 1] = js[i]
  BY <1>1, TailFacts
<1> HIDE DEF t
<1>3. Commits(t)
  <2> SUFFICES ASSUME NEW i \in 1..Len(t), t[i].op = "set", Package[t[i].arg] # "network"
               PROVE  \E c \in (i + 1)..Len(t) : IsCommit(t[c], Package[t[i].arg])
    BY DEF Commits
  <2>1. i + 1 \in 1..Len(js) /\ t[i] = js[i + 1] /\ i \in Nat
    BY <1>2
  <2>2. PICK c \in (i + 1 + 1)..Len(js) : IsCommit(js[c], Package[js[i + 1].arg])
    BY <2>1 DEF GoodList, Commits
  <2>3. c \in 2..Len(js) /\ c - 1 \in (i + 1)..Len(t)
    BY <1>2, <2>1, <2>2
  <2>4. t[c - 1] = js[c]
    BY <1>2, <2>3
  <2>5. QED
    BY <2>1, <2>2, <2>3, <2>4
<1>4. ShowAlone(t)
  <2> SUFFICES ASSUME NEW i \in 1..Len(t), t[i].op = "show" PROVE FALSE
    BY DEF ShowAlone
  <2>1. i + 1 \in 1..Len(js) /\ js[i + 1].op = "show"
    BY <1>2
  <2>2. Len(js) = 1
    BY <2>1 DEF GoodList, ShowAlone
  <2>3. QED
    BY <1>2, <2>2
<1>5. QED
  BY <1>2, <1>3, <1>4 DEF GoodList, t

LEMMA TailRestarts ==
  ASSUME NEW js, Restarts(js), js # <<>>
  PROVE  Restarts(Tail(js)) /\ Head(js).op = "restart"
<1>1. js \in Seq(Steps)
  BY DEF Restarts
<1>2. /\ Len(js) \in Nat /\ Len(js) >= 1 /\ Head(js) = js[1] /\ Tail(js) \in Seq(Steps)
      /\ \A i \in 1..Len(Tail(js)) : i + 1 \in 1..Len(js) /\ Tail(js)[i] = js[i + 1]
  BY <1>1, TailFacts
<1>3. QED
  BY <1>2 DEF Restarts

LEMMA ShowFacts ==
  ASSUME NEW js, GoodList(js), js # <<>>, Head(js).op = "show"
  PROVE  Tail(js) = <<>> /\ Len(js) = 1 /\ js[1].op = "show"
<1>1. js \in Seq(Steps)
  BY DEF GoodList
<1>2. Len(js) \in Nat /\ Len(js) >= 1 /\ Head(js) = js[1] /\ Tail(js) \in Seq(Steps)
      /\ Len(Tail(js)) = Len(js) - 1
  BY <1>1, TailFacts
<1>3. Len(js) = 1
  <2>1. 1 \in 1..Len(js) /\ js[1].op = "show"
    BY <1>2
  <2>2. QED
    BY <2>1 DEF GoodList, ShowAlone
<1>4. Len(Tail(js)) = 0
  BY <1>2, <1>3
<1>5. ASSUME NEW t \in Seq(Steps), Len(t) = 0 PROVE t = <<>>
  BY <1>5
<1>6. Tail(js) = <<>>
  BY <1>2, <1>4, <1>5
<1>7. QED
  BY <1>2, <1>3, <1>6

-----------------------------------------------------------------------------
(***************************************************************************)
(* Types.                                                                  *)
(***************************************************************************)
LEMMA InitType == Init => TypeOK
<1> SUFFICES ASSUME Init PROVE TypeOK
  OBVIOUS
<1>1. buf \in Datagrams
  BY DEF Init, Datagrams, Plain
<1>2. /\ 0 \in 0..CmdMax /\ Descriptors \in 0..Descriptors /\ Descriptors > 0
      /\ <<>> \in Seq(Entries) /\ <<>> \in Seq(Steps) /\ Nothing \in [Keys -> Nat]
  BY ConstantFacts DEF Nothing
<1>3. /\ count \in 0..CmdMax /\ free \in 0..Descriptors /\ free > 0
      /\ {received, recvErrors, mallocErrors, echoes, asked, replies, spoilt} \subseteq Nat
      /\ todo \in Seq(Entries) /\ steps \in Seq(Steps) /\ njobs \in Nat
      /\ delta \in [Keys -> Nat] /\ config \in [Keys -> Nat] /\ last \in [Keys -> Nat]
  BY <1>2 DEF Init
<1>4. QED
  BY <1>1, <1>3 DEF Init, TypeOK

LEMMA DispatchTypes ==
  ASSUME TypeOK, NEW kind, Dispatch(kind)
  PROVE  /\ event' \subseteq {"FIND", "SETTINGS", "UPDATE", "SYS_RELOAD", "NET_RELOAD"}
         /\ state' \in {"SETTINGS", "FILL_MSG", state}
         /\ msgType' \in {"idle", "search", "settings"} /\ count' \in 0..CmdMax
<1>1. client_waitCommand(kind) \subseteq {"FIND", "SETTINGS", "UPDATE"}
  BY DEF client_waitCommand
<1>2. event' \subseteq {"FIND", "SETTINGS", "UPDATE", "SYS_RELOAD", "NET_RELOAD"}
  BY <1>1 DEF Dispatch, TypeOK
<1>3. QED
  BY <1>2, ConstantFacts DEF Dispatch, TypeOK

\* A datagram that is received, as Receive chooses it.
LEMMA ReceiveFacts ==
  ASSUME TypeOK, Receive
  PROVE  \E kind \in {"find", "settings", "update", "other"}, mine \in BOOLEAN, hash \in BOOLEAN,
            cmds \in Batches \cup {<<>>} :
           /\ buf' = [kind |-> kind, mine |-> mine, hash |-> hash, cmds |-> cmds, id |-> received + 1]
           /\ asked' = asked + (IF kind \in {"find", "settings"} THEN 1 ELSE 0)
           /\ genuine' = IF hash /\ (mine \/ ~named) THEN genuine \cup {received + 1} ELSE genuine
           /\ Dispatch(kind)
BY DEF Receive

LEMMA ReceiveTypes == ASSUME TypeOK, Receive \/ ReceiveAck \/ RecvFails PROVE TypeOK'
<1> USE DEF handler, system, history, world, buffers, client
<1>1. CASE Receive
  <2>1. PICK kind \in {"find", "settings", "update", "other"}, mine \in BOOLEAN, hash \in BOOLEAN,
             cmds \in Batches \cup {<<>>} :
             /\ buf' = [kind |-> kind, mine |-> mine, hash |-> hash, cmds |-> cmds, id |-> received + 1]
             /\ asked' = asked + (IF kind \in {"find", "settings"} THEN 1 ELSE 0)
             /\ genuine' = IF hash /\ (mine \/ ~named) THEN genuine \cup {received + 1} ELSE genuine
             /\ Dispatch(kind)
    BY <1>1, ReceiveFacts
  <2>2. received \in Nat /\ asked \in Nat
    BY DEF TypeOK
  <2>3. buf' \in Datagrams /\ asked' \in Nat /\ genuine' \subseteq Nat /\ received' \in Nat
    BY <1>1, <2>1, <2>2 DEF Datagrams, Receive, TypeOK
  <2>4. state' \in {"SETTINGS", "FILL_MSG", "WAIT"}
    BY <1>1, <2>1, DispatchTypes DEF Receive
  <2>5. QED
    BY <1>1, <2>1, <2>3, <2>4, DispatchTypes DEF Receive, TypeOK
<1>2. CASE ReceiveAck
  <2>1. buf' \in Datagrams
    BY <1>2 DEF ReceiveAck, TypeOK, Datagrams, Plain
  <2>2. state' \in {"SETTINGS", "FILL_MSG", "WAIT"}
    BY <1>2, DispatchTypes DEF ReceiveAck
  <2>3. echoes' \in Nat
    BY <1>2 DEF ReceiveAck, TypeOK
  <2>4. QED
    BY <1>2, <2>1, <2>2, <2>3, DispatchTypes DEF ReceiveAck, TypeOK
<1>3. CASE RecvFails
  <2>1. state' \in {"SETTINGS", "FILL_MSG", "WAIT"}
    BY <1>3, DispatchTypes DEF RecvFails
  <2>2. recvErrors' \in Nat
    BY <1>3 DEF RecvFails, TypeOK
  <2>3. QED
    BY <1>3, <2>1, <2>2, DispatchTypes DEF RecvFails, TypeOK
<1>4. QED
  BY <1>1, <1>2, <1>3

LEMMA FillTypes == ASSUME TypeOK, client_init \/ FillMsg \/ FillDone PROVE TypeOK'
<1> USE ConstantFacts DEF handler, system, history, world, buffers, client, Die
<1>1. CASE client_init
  <2>1. free' \in 0..Descriptors /\ state' = "WAIT"
    BY <1>1 DEF client_init, TypeOK
  <2>2. QED
    BY <1>1, <2>1 DEF client_init, TypeOK
<1>2. CASE FillMsg
  <2>1. count' \in 0..CmdMax
    BY <1>2 DEF FillMsg, TypeOK
  <2>2. named' \in BOOLEAN
    BY <1>2 DEF FillMsg, TypeOK
  <2>3. state' \in {"FILL_MSG", "dead"} /\ UNCHANGED <<event, msgType, sendCb>>
    BY <1>2 DEF FillMsg
  <2>4. QED
    BY <1>2, <2>1, <2>2, <2>3 DEF FillMsg, TypeOK
<1>3. CASE FillDone
  BY <1>3 DEF FillDone, TypeOK
<1>4. QED
  BY <1>1, <1>2, <1>3

LEMMA SettingsTypes ==
  ASSUME TypeOK, SettingsCrash \/ NotForThisDevice \/ Refuse \/ MallocFails \/ Accept
  PROVE  TypeOK'
<1> USE DEF handler, system, history, world, buffers, client, Die
<1>1. buf \in Datagrams /\ buf.mine \in BOOLEAN /\ buf.cmds \in Seq(Entries)
  <2>1. buf \in Datagrams
    BY DEF TypeOK
  <2>2. buf.mine \in BOOLEAN /\ buf.cmds \in Batches \cup {<<>>}
    BY <2>1 DEF Datagrams
  <2>3. <<>> \in Seq(Entries)
    OBVIOUS
  <2>4. QED
    BY <2>1, <2>2, <2>3, ConstantFacts
<1>2. ReadSettings => settMine' \in BOOLEAN
  BY <1>1 DEF ReadSettings, TypeOK
<1>3. CASE SettingsCrash
  BY <1>3 DEF SettingsCrash, TypeOK
<1>4. CASE NotForThisDevice
  BY <1>2, <1>4 DEF NotForThisDevice, TypeOK
<1>5. CASE Refuse
  BY <1>2, <1>5 DEF Refuse, TypeOK
<1>6. CASE MallocFails
  <2>1. mallocErrors' \in Nat
    BY <1>6 DEF MallocFails, TypeOK
  <2>2. QED
    BY <1>2, <1>6, <2>1 DEF MallocFails, TypeOK
<1>7. CASE Accept
  <2>1. todo' \in Seq(Entries) /\ apply' \subseteq {"system", "network"}
    BY <1>1, <1>7 DEF Accept, TypeOK
  <2>2. state' \in {"RUN", "dead"} /\ UNCHANGED <<event, msgType, count, sendCb>>
    BY <1>7 DEF Accept
  <2>3. QED
    BY <1>2, <1>7, <2>1, <2>2 DEF Accept, TypeOK
<1>8. QED
  BY <1>3, <1>4, <1>5, <1>6, <1>7

LEMMA RunsFacts ==
  ASSUME NEW entry \in Entries \ {"NOVALUE"}
  PROVE  Runs(entry) \subseteq DOMAIN Starts
BY DEF Runs, Entries, Commands, Starts

\* What the process that is started next does to the types.
LEMMA PipeTypes ==
  ASSUME TypeOK, openPipe
  PROVE  /\ free' \in 0..Descriptors /\ jobs' \subseteq Jobs /\ njobs' \in Nat
         /\ \A j \in jobs' : j.n <= njobs'
         /\ missed' \in BOOLEAN /\ last' \in [Keys -> Nat]
         /\ steps' \in Seq(Steps) /\ logOpen' \in BOOLEAN
<1> DEFINE s == Head(steps)
           new == [n |-> njobs + 1, op |-> s.op, arg |-> s.arg, val |-> buf.id]
<1>1. /\ free \in Nat /\ njobs \in Nat /\ buf.id \in Nat /\ free <= Descriptors
      /\ jobs \subseteq Jobs /\ last \in [Keys -> Nat] /\ missed \in BOOLEAN /\ logOpen \in BOOLEAN
      /\ \A j \in jobs : j.n <= njobs
  BY ConstantFacts DEF TypeOK, Datagrams
<1>2. s \in Steps /\ steps' \in Seq(Steps) /\ s.op # "show"
  BY TailFacts DEF openPipe, Popens, TypeOK
<1>3. CASE CanPopen(LogOpen(s))
  <2>1. /\ free' = free - 1 /\ free >= 2 /\ logOpen' = LogOpen(s) /\ njobs' = njobs + 1
        /\ jobs' = IF s.op \in {"set", "commit"} \/ s.arg = "network" THEN jobs \cup {new} ELSE jobs
        /\ last' = [k \in Keys |-> IF s.op = "set" /\ s.arg = k THEN buf.id ELSE last[k]]
        /\ missed' = missed
    BY <1>1, <1>3 DEF openPipe, CanPopen
  <2>2. s.op \in {"set", "commit"} \/ s.arg = "network" => new \in Jobs /\ new.n = njobs + 1
    <3>1. CASE s.op = "set"
      BY <3>1, <1>1, <1>2 DEF Steps, Jobs
    <3>2. CASE s.op # "set"
      <4>1. s.op = "echo" => s.arg # "network"
        BY <1>2 DEF Steps
      <4>2. s.op # "echo" => s.op \in {"commit", "restart"} /\ s.arg \in Packages
        BY <1>2, <3>2 DEF Steps
      <4>3. QED
        BY <4>1, <4>2, <3>2, <1>1 DEF Jobs
    <3>3. QED
      BY <3>1, <3>2
  <2> HIDE DEF s, new
  <2>3. free' \in 0..Descriptors /\ njobs' \in Nat /\ last' \in [Keys -> Nat] /\ missed' \in BOOLEAN
    BY <1>1, <2>1, ConstantFacts
  <2>4. logOpen' \in BOOLEAN
    BY <1>1, <2>1 DEF LogOpen
  <2>5. jobs' \subseteq Jobs
    BY <1>1, <2>1, <2>2
  <2>6. \A j \in jobs' : j.n <= njobs'
    <3> SUFFICES ASSUME NEW j \in jobs' PROVE j.n <= njobs'
      OBVIOUS
    <3>1. CASE j \in jobs
      <4>1. j.n \in Nat /\ j.n <= njobs
        BY <1>1, <3>1 DEF Jobs
      <4>2. QED
        BY <1>1, <2>1, <4>1
    <3>2. CASE j \notin jobs
      BY <1>1, <2>1, <2>2, <3>2
    <3>3. QED
      BY <3>1, <3>2
  <2>7. QED
    BY <1>2, <2>3, <2>4, <2>5, <2>6
<1>4. CASE ~CanPopen(LogOpen(s))
  <2>1. logOpen' = FALSE /\ missed' = TRUE /\ UNCHANGED <<free, jobs, njobs, last>>
    BY <1>4 DEF openPipe
  <2>2. free' \in 0..Descriptors
    BY <1>1, <2>1, ConstantFacts
  <2>3. QED
    BY <1>1, <1>2, <2>1, <2>2
<1>5. QED
  BY <1>3, <1>4

\* A list with a name that has no value is not run.
NoNovalue == "NOVALUE" \notin {todo[i] : i \in DOMAIN todo}

LEMMA HeadFacts ==
  ASSUME TypeOK, NoNovalue, todo # <<>>
  PROVE  Head(todo) \in Entries \ {"NOVALUE"} /\ Tail(todo) \in Seq(Entries)
<1>1. todo \in Seq(Entries)
  BY DEF TypeOK
<1>2. 1 \in DOMAIN todo /\ Head(todo) = todo[1] /\ Head(todo) \in Entries /\ Tail(todo) \in Seq(Entries)
  BY <1>1
<1>3. QED
  BY <1>2 DEF NoNovalue

LEMMA RunTypes ==
  ASSUME TypeOK, NoNovalue,
         RunCommand \/ RunUnknown \/ openPipe \/ runSetIp \/ ApplySettings
  PROVE  TypeOK'
<1> USE DEF handler, system, history, world, buffers, client, Die
<1>0. todo # <<>> => Head(todo) \in Entries \ {"NOVALUE"} /\ Tail(todo) \in Seq(Entries)
  BY HeadFacts
<1>1. CASE RunCommand
  <2>1. PICK cmd \in Runs(Head(todo)) : steps' = Starts[cmd] /\ apply' = apply \cup Applies(cmd)
    BY <1>1 DEF RunCommand
  <2>2. cmd \in DOMAIN Starts /\ todo' \in Seq(Entries)
    BY <1>0, <1>1, <2>1, RunsFacts DEF RunCommand
  <2>3. steps' \in Seq(Steps)
    BY <2>1, <2>2, StartsFacts DEF GoodList
  <2>4. apply' \subseteq {"system", "network"}
    BY <2>1 DEF Applies, TypeOK
  <2>5. QED
    BY <1>1, <2>2, <2>3, <2>4 DEF RunCommand, TypeOK
<1>2. CASE RunUnknown
  <2>1. todo' \in Seq(Entries) /\ state' \in {"RUN", "dead"} /\ UNCHANGED <<event, msgType, count, sendCb>>
    BY <1>0, <1>2 DEF RunUnknown
  <2>2. QED
    BY <1>2, <2>1 DEF RunUnknown, TypeOK
<1>3. CASE openPipe
  <2>1. /\ free' \in 0..Descriptors /\ jobs' \subseteq Jobs /\ njobs' \in Nat
        /\ \A j \in jobs' : j.n <= njobs'
        /\ missed' \in BOOLEAN /\ last' \in [Keys -> Nat]
        /\ steps' \in Seq(Steps) /\ logOpen' \in BOOLEAN
    BY <1>3, PipeTypes
  <2>2. UNCHANGED <<client, buffers, todo, apply, result, delta, config, net, world,
                    asked, replies, spoilt, raced, genuine>> /\ state # "INIT"
    BY <1>3 DEF openPipe, Popens
  <2>3. QED
    BY <2>1, <2>2 DEF TypeOK
<1>4. CASE runSetIp
  <2>1. steps \in Seq(Steps) /\ steps # <<>> /\ free \in Nat /\ logOpen \in BOOLEAN
    BY <1>4, ConstantFacts DEF runSetIp, Popens, TypeOK
  <2>2. steps' \in Seq(Steps) /\ logOpen' \in BOOLEAN
    BY <1>4, <2>1, TailFacts, ShownIsGood DEF runSetIp, LogOpen, GoodList
  <2>3. free' \in 0..Descriptors
    <3>1. free' = free \/ (free >= 2 /\ free' = free - 1)
      BY <1>4, <2>1 DEF runSetIp, CanPopen
    <3>2. QED
      BY <2>1, <3>1, ConstantFacts DEF TypeOK
  <2>4. apply' \subseteq {"system", "network"}
    BY <1>4 DEF runSetIp, TypeOK
  <2>5. state' \in {state, "dead"} /\ state # "INIT" /\ UNCHANGED <<event, msgType, count, sendCb>>
    BY <1>4 DEF runSetIp, Popens
  <2>6. QED
    BY <1>4, <2>2, <2>3, <2>4, <2>5 DEF runSetIp, TypeOK
<1>5. CASE ApplySettings
  <2>1. steps' \in Seq(Steps)
    BY <1>5, ApplyRestarts DEF ApplySettings, Restarts
  <2>2. QED
    BY <1>5, <2>1 DEF ApplySettings, TypeOK
<1>6. QED
  BY <1>1, <1>2, <1>3, <1>4, <1>5

LEMMA DoneTypes == ASSUME TypeOK, SettingsDone \/ Reload \/ ReloadDone PROVE TypeOK'
<1> USE DEF handler, system, history, world, buffers, client
<1>1. CASE SettingsDone
  <2>1. event' \subseteq {"FIND", "SETTINGS", "UPDATE", "SYS_RELOAD", "NET_RELOAD"}
    BY <1>1 DEF SettingsDone, TypeOK
  <2>2. QED
    BY <1>1, <2>1 DEF SettingsDone, TypeOK
<1>2. CASE Reload
  <2>1. steps' \in Seq(Steps)
    BY <1>2, OneRestart DEF Reload, Restarts, Packages
  <2>2. QED
    BY <1>2, <2>1 DEF Reload, TypeOK
<1>3. CASE ReloadDone
  BY <1>3 DEF ReloadDone, TypeOK
<1>4. QED
  BY <1>1, <1>2, <1>3

LEMMA SendTypes == ASSUME TypeOK, Send PROVE TypeOK'
<1> USE DEF handler, system, history, world, buffers, client
<1>1. buf' \in Datagrams
  <2>1. buf' = buf \/ buf' = Plain("ack")
    BY DEF Send
  <2>2. Plain("ack") \in Datagrams
    BY DEF Plain, Datagrams
  <2>3. QED
    BY <2>1, <2>2 DEF TypeOK
<1>2. sendCb' \subseteq {"idle", "search", "settings"}
  BY DEF Send, TypeOK, client_unRegisterEvent_sendmsg
<1>3. free' \in 0..Descriptors /\ echoes' \in Nat /\ replies' \in Nat /\ spoilt' \in Nat
  <2>1. free \in 0..Descriptors /\ echoes \in Nat /\ replies \in Nat /\ spoilt \in Nat
    BY DEF TypeOK
  <2>2. CASE msgType \in sendCb
    BY <2>1, <2>2, ConstantFacts DEF Send, net_sendMsg
  <2>3. CASE msgType \notin sendCb
    BY <2>1, <2>3 DEF Send
  <2>4. QED
    BY <2>2, <2>3
<1>4. QED
  BY <1>1, <1>2, <1>3 DEF Send, TypeOK

LEMMA JobTypes == ASSUME TypeOK, RunJob \/ NetUp PROVE TypeOK'
<1> USE DEF handler, system, history, world, buffers, client
<1>1. CASE NetUp
  BY <1>1 DEF NetUp, TypeOK
<1>2. CASE RunJob
  <2>1. PICK j \in jobs : UciSet(j) \/ UciCommit(j) \/ NetworkRestart(j)
    BY <1>2 DEF RunJob
  <2>2. j.val \in Nat /\ End(j)
    BY <2>1 DEF TypeOK, Jobs, UciSet, UciCommit, NetworkRestart
  <2>3. jobs' \subseteq Jobs /\ (\A i \in jobs' : i.n <= njobs')
    BY <2>2 DEF End, TypeOK
  <2>4. raced' \in BOOLEAN
    BY <2>2 DEF End
  <2>5. delta' \in [Keys -> Nat] /\ config' \in [Keys -> Nat] /\ net' \in BOOLEAN
    <3>1. CASE UciSet(j)
      BY <2>2, <3>1 DEF UciSet, TypeOK
    <3>2. CASE UciCommit(j)
      BY <2>2, <3>2 DEF UciCommit, TypeOK
    <3>3. CASE NetworkRestart(j)
      BY <2>2, <3>3 DEF NetworkRestart, TypeOK
    <3>4. QED
      BY <2>1, <3>1, <3>2, <3>3
  <2>6. QED
    BY <2>2, <2>3, <2>4, <2>5 DEF End, TypeOK
<1>3. QED
  BY <1>1, <1>2

LEMMA NovalueStep == TypeOK /\ NoNovalue /\ [Next]_vars => NoNovalue'
<1> SUFFICES ASSUME TypeOK, NoNovalue, [Next]_vars PROVE NoNovalue'
  OBVIOUS
<1> USE DEF handler, system, history, world, buffers, client, Die
<1>1. CASE Accept
  BY <1>1 DEF Accept, NoNovalue
<1>2. CASE RunCommand \/ RunUnknown
  <2>1. todo \in Seq(Entries) /\ todo # <<>> /\ todo' = Tail(todo)
    BY <1>2 DEF RunCommand, RunUnknown, TypeOK
  <2>2. \A i \in DOMAIN Tail(todo) : i + 1 \in DOMAIN todo /\ Tail(todo)[i] = todo[i + 1]
    BY <2>1
  <2>3. QED
    BY <2>1, <2>2 DEF NoNovalue
<1>3. CASE UNCHANGED todo
  BY <1>3 DEF NoNovalue
<1>4. CASE client_init \/ FillMsg \/ FillDone \/ SettingsCrash \/ NotForThisDevice \/ Refuse \/ MallocFails
  BY <1>3, <1>4 DEF client_init, FillMsg, FillDone, SettingsCrash, NotForThisDevice, Refuse, MallocFails
<1>5. CASE openPipe \/ runSetIp \/ ApplySettings \/ SettingsDone \/ Send \/ Reload \/ ReloadDone
  BY <1>3, <1>5 DEF openPipe, runSetIp, ApplySettings, SettingsDone, Send, Reload, ReloadDone
<1>6. CASE Receive \/ ReceiveAck \/ RecvFails
  BY <1>3, <1>6 DEF Receive, ReceiveAck, RecvFails
<1>7. CASE RunJob \/ NetUp
  BY <1>3, <1>7 DEF RunJob, NetUp, UciSet, UciCommit, NetworkRestart, End
<1>8. CASE UNCHANGED vars
  BY <1>3, <1>8 DEF vars
<1>9. QED
  BY <1>1, <1>2, <1>4, <1>5, <1>6, <1>7, <1>8 DEF Next, Handle

LEMMA TypeStep == TypeOK /\ NoNovalue /\ [Next]_vars => TypeOK'
<1> SUFFICES ASSUME TypeOK, NoNovalue, [Next]_vars PROVE TypeOK'
  OBVIOUS
<1>1. CASE UNCHANGED vars
  BY <1>1 DEF vars, handler, system, history, world, buffers, client, TypeOK
<1>2. CASE RunCommand \/ RunUnknown \/ openPipe \/ runSetIp \/ ApplySettings
  BY <1>2, RunTypes
<1>3. QED
  BY <1>1, <1>2, ReceiveTypes, FillTypes, SettingsTypes, DoneTypes, SendTypes, JobTypes
     DEF Next, Handle

\* Type correctness of the daemon, for any number of descriptors and requests
\* and any lists of commands: in particular it never uses a descriptor it has
\* not got.
THEOREM MonitorTypeCorrect == Spec => []TypeOK
<1>1. Init => NoNovalue
  BY DEF Init, NoNovalue
<1>2. QED
  BY <1>1, InitType, TypeStep, NovalueStep, PTL DEF Spec

-----------------------------------------------------------------------------
(***************************************************************************)
(* Callbacks and events.                                                   *)
(***************************************************************************)
CleanInv ==
  /\ event \cap {"FIND", "SETTINGS"} = {}
  /\ state \notin {"SEND", "dead"} => sendCb = {}
  /\ state = "SEND" => sendCb = {msgType}
  /\ state \notin {"SEND", "RELOAD", "dead"} => event \subseteq {"UPDATE"}

LEMMA DispatchFacts ==
  ASSUME CleanInv, state = "WAIT", NEW kind, Dispatch(kind)
  PROVE  /\ event' \subseteq {"UPDATE"}
         /\ state' \in {"WAIT", "FILL_MSG", "SETTINGS"}
         /\ state' # "WAIT" => kind \in {"find", "settings"} /\ count' = 0
  BY DEF CleanInv, Dispatch, client_waitCommand

LEMMA CleanStep == TypeOK /\ CleanInv /\ [Next]_vars => CleanInv'
<1> SUFFICES ASSUME TypeOK, CleanInv, [Next]_vars PROVE CleanInv'
  OBVIOUS
<1> USE DEF handler, system, history, world, buffers, client
<1>1. CASE Receive
  <2>1. PICK kind : Dispatch(kind)
    BY <1>1 DEF Receive
  <2>2. QED
    BY <1>1, <2>1, DispatchFacts DEF Receive, CleanInv
<1>2. CASE ReceiveAck
  BY <1>2, DispatchFacts DEF ReceiveAck, CleanInv
<1>3. CASE RecvFails
  BY <1>3, DispatchFacts DEF RecvFails, CleanInv
<1>4. CASE client_init \/ FillMsg \/ FillDone
  BY <1>4 DEF client_init, FillMsg, FillDone, Die, CleanInv
<1>5. CASE SettingsCrash \/ NotForThisDevice \/ Refuse \/ MallocFails \/ Accept
  BY <1>5 DEF SettingsCrash, NotForThisDevice, Refuse, MallocFails, Accept, Die, CleanInv
<1>6. CASE RunCommand \/ RunUnknown \/ openPipe \/ runSetIp \/ ApplySettings
  BY <1>6 DEF RunCommand, RunUnknown, openPipe, runSetIp, ApplySettings, Die, CleanInv
<1>7. CASE SettingsDone
  BY <1>7 DEF SettingsDone, CleanInv
<1>8. CASE Send
  BY <1>8 DEF Send, client_unRegisterEvent_sendmsg, CleanInv
<1>9. CASE Reload \/ ReloadDone
  BY <1>9 DEF Reload, ReloadDone, Due, CleanInv, TypeOK
<1>10. CASE RunJob \/ NetUp
  BY <1>10 DEF RunJob, NetUp, UciSet, UciCommit, NetworkRestart, End, CleanInv
<1>11. CASE UNCHANGED vars
  BY <1>11 DEF vars, CleanInv
<1>12. QED
  BY <1>1, <1>2, <1>3, <1>4, <1>5, <1>6, <1>7, <1>8, <1>9, <1>10, <1>11 DEF Next, Handle

\* No request leaves a reload or a send callback to the next, whatever the lists
\* of commands and however many descriptors are left.
THEOREM RequestsAreSeparate == Spec => []NothingLeftOver
<1>1. Init => CleanInv
  BY DEF Init, CleanInv
<1>2. CleanInv => NothingLeftOver
  BY DEF CleanInv, NothingLeftOver
<1>3. QED
  BY <1>1, <1>2, CleanStep, MonitorTypeCorrect, PTL DEF Spec

-----------------------------------------------------------------------------
(***************************************************************************)
(* Requests and replies.  The request in the buffer is not answered yet: a *)
(* reply is written over it.                                               *)
(***************************************************************************)
Open == IF buf.kind \in {"find", "settings"} THEN 1 ELSE 0

AnswerInv ==
  /\ state \in {"FILL_MSG", "SETTINGS", "RUN", "APPLY", "SEND"} => buf.kind \in {"find", "settings"}
  /\ replies + Open <= asked

LEMMA AnswerStep == TypeOK /\ CleanInv /\ AnswerInv /\ [Next]_vars => AnswerInv'
<1> SUFFICES ASSUME TypeOK, CleanInv, AnswerInv, [Next]_vars PROVE AnswerInv'
  OBVIOUS
<1> USE DEF handler, system, history, world, buffers, client
<1>t. replies \in Nat /\ asked \in Nat /\ Open \in {0, 1} /\ buf \in Datagrams
  BY DEF TypeOK, Open
<1>1. CASE Receive
  <2>1. PICK kind \in {"find", "settings", "update", "other"} :
          /\ buf'.kind = kind
          /\ asked' = asked + (IF kind \in {"find", "settings"} THEN 1 ELSE 0)
          /\ Dispatch(kind)
    <3>1. PICK kind \in {"find", "settings", "update", "other"}, mine \in BOOLEAN, hash \in BOOLEAN,
               cmds \in Batches \cup {<<>>} :
               /\ buf' = [kind |-> kind, mine |-> mine, hash |-> hash, cmds |-> cmds, id |-> received + 1]
               /\ asked' = asked + (IF kind \in {"find", "settings"} THEN 1 ELSE 0)
               /\ Dispatch(kind)
      BY <1>1, ReceiveFacts
    <3>2. buf'.kind = kind
      BY <3>1
    <3>3. QED
      BY <3>1, <3>2
  <2>2. state' # "WAIT" => kind \in {"find", "settings"}
    BY <1>1, <2>1, DispatchFacts DEF Receive
  <2>3. Open' = (IF kind \in {"find", "settings"} THEN 1 ELSE 0) /\ replies' = replies
    BY <1>1, <2>1 DEF Open, Receive
  <2>4. replies' + Open' <= asked'
    BY <1>t, <2>1, <2>3 DEF AnswerInv
  <2>5. QED
    BY <2>1, <2>2, <2>4 DEF AnswerInv
<1>2. CASE ReceiveAck
  <2>1. buf'.kind = "ack" /\ state' = "WAIT" /\ UNCHANGED <<replies, asked>>
    BY <1>2, <1>t, DispatchFacts DEF ReceiveAck, Plain
  <2>2. Open' = 0
    BY <2>1 DEF Open
  <2>3. QED
    BY <2>1, <2>2, <1>t DEF AnswerInv
<1>3. CASE RecvFails
  <2>1. UNCHANGED <<buf, replies, asked>> /\ (state' # "WAIT" => buf.kind \in {"find", "settings"})
    BY <1>3, DispatchFacts DEF RecvFails
  <2>2. QED
    BY <2>1 DEF AnswerInv, Open
<1>4. CASE Send
  <2>1. msgType \in sendCb /\ buf.kind \in {"find", "settings"} /\ state' = "RELOAD"
    BY <1>4 DEF Send, CleanInv, AnswerInv
  <2>2. buf'.kind = "ack" /\ asked' = asked /\ (replies' = replies \/ replies' = replies + 1)
    BY <1>4, <1>t, <2>1 DEF Send, net_sendMsg, Plain
  <2>3. Open = 1 /\ Open' = 0
    BY <2>1, <2>2 DEF Open
  <2>4. replies' + Open' <= asked'
    BY <1>t, <2>2, <2>3 DEF AnswerInv
  <2>5. QED
    BY <2>1, <2>4 DEF AnswerInv
<1>5. ASSUME UNCHANGED <<buf, replies, asked>>,
             state' \in {state, "INIT", "WAIT", "RELOAD", "dead"}
             \/ state \in {"FILL_MSG", "SETTINGS", "RUN", "APPLY", "SEND"}
      PROVE  AnswerInv'
  BY <1>5 DEF AnswerInv, Open
<1>6. CASE client_init \/ FillMsg \/ FillDone
  BY <1>5, <1>6 DEF client_init, FillMsg, FillDone, Die
<1>7. CASE SettingsCrash \/ NotForThisDevice \/ Refuse \/ MallocFails \/ Accept
  BY <1>5, <1>7 DEF SettingsCrash, NotForThisDevice, Refuse, MallocFails, Accept, Die
<1>8. CASE RunCommand \/ RunUnknown \/ openPipe \/ runSetIp \/ ApplySettings
  BY <1>5, <1>8 DEF RunCommand, RunUnknown, openPipe, runSetIp, ApplySettings, Die
<1>12. CASE SettingsDone \/ Reload \/ ReloadDone
  BY <1>5, <1>12 DEF SettingsDone, Reload, ReloadDone
<1>9. CASE RunJob \/ NetUp
  BY <1>5, <1>9 DEF RunJob, NetUp, UciSet, UciCommit, NetworkRestart, End
<1>10. CASE UNCHANGED vars
  BY <1>5, <1>10 DEF vars
<1>11. QED
  BY <1>1, <1>2, <1>3, <1>4, <1>6, <1>7, <1>8, <1>9, <1>10, <1>12 DEF Next, Handle

\* No more than one reply for each request, though the daemon hears its own
\* replies, requests are repeated and a failed read leaves an old one behind.
THEOREM NoReplyStorm == Spec => []RepliesAreAnswers
<1>1. Init => CleanInv /\ AnswerInv
  BY DEF Init, CleanInv, AnswerInv, Open, Plain
<1>2. TypeOK /\ AnswerInv => RepliesAreAnswers
  <2> SUFFICES ASSUME TypeOK, AnswerInv PROVE RepliesAreAnswers
    OBVIOUS
  <2>1. replies \in Nat /\ asked \in Nat
    BY DEF TypeOK
  <2>2. CASE buf.kind \in {"find", "settings"}
    BY <2>1, <2>2 DEF AnswerInv, Open, RepliesAreAnswers
  <2>3. CASE buf.kind \notin {"find", "settings"}
    BY <2>1, <2>3 DEF AnswerInv, Open, RepliesAreAnswers
  <2>4. QED
    BY <2>2, <2>3
<1>3. QED
  BY <1>1, <1>2, AnswerStep, CleanStep, MonitorTypeCorrect, PTL DEF Spec

-----------------------------------------------------------------------------
(***************************************************************************)
(* Descriptors.  Once a command was not started, or a reply not sent, at   *)
(* most two descriptors are left, and every check of a request takes three *)
(* with that of syslog.                                                    *)
(***************************************************************************)
Working == {"RUN", "APPLY", "SEND"}

FdInv ==
  /\ missed => free <= 2
  /\ spoilt <= 1
  /\ spoilt > 0 => free <= 2 /\ state \notin Working
  /\ state = "FILL_MSG" /\ count > 0 => free >= 3

LEMMA FdStep == TypeOK /\ CleanInv /\ FdInv /\ [Next]_vars => FdInv'
<1> SUFFICES ASSUME TypeOK, CleanInv, FdInv, [Next]_vars PROVE FdInv'
  OBVIOUS
<1> USE DEF handler, system, history, world, buffers, client
<1>t. free \in Nat /\ spoilt \in Nat /\ count \in Nat
  BY ConstantFacts DEF TypeOK
<1>0. ASSUME UNCHANGED <<free, missed, spoilt>>,
             state' \in {"WAIT", "SETTINGS", "RELOAD", "dead"} \/ (state' = "FILL_MSG" /\ count' = 0)
             \/ (state' = state /\ count' = count) \/ (state' \in {"FILL_MSG"} \cup Working /\ free >= 3)
             \/ (state' \in Working /\ state \in Working)
      PROVE  FdInv'
  BY <1>0, <1>t DEF FdInv, Working
<1>1. CASE Receive
  <2>1. PICK kind : Dispatch(kind)
    BY <1>1 DEF Receive
  <2>2. QED
    BY <1>0, <1>1, <2>1, DispatchFacts DEF Receive
<1>2. CASE ReceiveAck
  BY <1>0, <1>2, DispatchFacts DEF ReceiveAck
<1>3. CASE RecvFails
  BY <1>0, <1>3, DispatchFacts DEF RecvFails
<1>4. CASE client_init
  <2>1. free' = free - 1 /\ UNCHANGED <<missed, spoilt>> /\ state' = "WAIT"
    BY <1>4 DEF client_init
  <2>2. free >= 1
    BY <1>4, <1>t DEF client_init, TypeOK
  <2>3. QED
    BY <1>t, <2>1, <2>2 DEF FdInv, Working
<1>5. CASE FillMsg
  <2>1. CASE state' = "dead"
    BY <1>0, <1>5, <2>1 DEF FillMsg
  <2>2. CASE state' # "dead"
    <3>1. state' = "FILL_MSG" /\ (count < CallbackNum => PipesOpen) /\ state = "FILL_MSG"
          /\ UNCHANGED <<free, missed, spoilt>>
      BY <1>5, <2>2 DEF FillMsg, Die
    <3>2. free >= 3
      BY <1>t, <3>1, ConstantFacts DEF PipesOpen, CanPopen, FdInv
    <3>3. QED
      BY <1>0, <3>1, <3>2
  <2>3. QED
    BY <2>1, <2>2
<1>6. CASE FillDone
  <2>1. free >= 3
    BY <1>6, <1>t, ConstantFacts DEF FillDone, FdInv
  <2>2. QED
    BY <1>0, <1>6, <2>1 DEF FillDone, Working
<1>7. CASE SettingsCrash \/ NotForThisDevice \/ MallocFails
  BY <1>0, <1>7 DEF SettingsCrash, NotForThisDevice, MallocFails, Die
<1>8. CASE Refuse \/ Accept
  <2>1. free >= 3 /\ state' \in Working \cup {"dead"} /\ UNCHANGED <<free, missed, spoilt>>
    BY <1>8 DEF Refuse, Accept, PipesOpen, CanPopen, Die, Working
  <2>2. QED
    BY <1>0, <2>1
<1>9. CASE RunCommand \/ RunUnknown \/ ApplySettings \/ SettingsDone
  BY <1>0, <1>9 DEF RunCommand, RunUnknown, ApplySettings, SettingsDone, Die, Working
<1>10. CASE openPipe
  <2>1. /\ UNCHANGED <<state, count, spoilt>>
        /\ state # "FILL_MSG"
        /\ \/ free >= 2 /\ free' = free - 1 /\ missed' = missed
           \/ free <= 2 /\ free' = free /\ missed' = TRUE
    BY <1>10, <1>t DEF openPipe, Popens, CanPopen
  <2>2. QED
    BY <1>t, <2>1 DEF FdInv, Working
<1>11. CASE runSetIp
  <2>1. /\ UNCHANGED <<spoilt, missed>> /\ state' \in {state, "dead"} /\ state # "FILL_MSG"
        /\ free' = free \/ (free >= 2 /\ free' = free - 1)
    BY <1>11, <1>t DEF runSetIp, Popens, CanPopen, Die
  <2>2. QED
    BY <1>t, <2>1 DEF FdInv, Working
<1>12. CASE Send
  <2>1. spoilt = 0 /\ state' = "RELOAD" /\ missed' = missed
    BY <1>12, <1>t DEF Send, FdInv, Working
  <2>2. \/ free <= 1 /\ spoilt' = 1 /\ free' = free
        \/ free >= 2 /\ spoilt' = 0 /\ free' = free - 1
        \/ spoilt' = 0 /\ free' = free
        \/ spoilt' = 1 /\ free' = free /\ missed
    <3>1. CASE msgType \in sendCb
      BY <1>12, <1>t, <2>1, <3>1 DEF Send, net_sendMsg
    <3>2. CASE msgType \notin sendCb
      BY <1>12, <2>1, <3>2 DEF Send
    <3>3. QED
      BY <3>1, <3>2
  <2>3. QED
    BY <1>t, <2>1, <2>2 DEF FdInv, Working
<1>13. CASE Reload \/ ReloadDone
  BY <1>0, <1>13 DEF Reload, ReloadDone
<1>14. CASE RunJob \/ NetUp
  BY <1>0, <1>14 DEF RunJob, NetUp, UciSet, UciCommit, NetworkRestart, End
<1>15. CASE UNCHANGED vars
  BY <1>0, <1>15 DEF vars
<1>16. QED
  BY <1>1, <1>2, <1>3, <1>4, <1>5, <1>6, <1>7, <1>8, <1>9, <1>10, <1>11, <1>12, <1>13, <1>14, <1>15
     DEF Next, Handle

\* For any limit of descriptors and any lists of commands, at most one request is
\* left without a reply for want of a descriptor or told that it is done though
\* a command of it could not be started.
THEOREM OneSpoiltReplyEver == Spec => []OneSpoiltReply
<1>1. Init => CleanInv /\ FdInv
  BY DEF Init, CleanInv, FdInv
<1>2. FdInv => OneSpoiltReply
  BY DEF FdInv, OneSpoiltReply
<1>3. QED
  BY <1>1, <1>2, FdStep, CleanStep, MonitorTypeCorrect, PTL DEF Spec

-----------------------------------------------------------------------------
(***************************************************************************)
(* What is under way.  Only the commands of a request set anything: what   *)
(* is started after them restarts services.                                *)
(***************************************************************************)
StepInv ==
  /\ GoodList(steps)
  /\ state \notin {"RUN", "APPLY", "RELOAD", "dead"} => steps = <<>>
  /\ state \in {"APPLY", "RELOAD"} => Restarts(steps)

LEMMA StepStep == TypeOK /\ CleanInv /\ NoNovalue /\ StepInv /\ [Next]_vars => StepInv'
<1> SUFFICES ASSUME TypeOK, CleanInv, NoNovalue, StepInv, [Next]_vars PROVE StepInv'
  OBVIOUS
<1> USE DEF handler, system, history, world, buffers, client, Die
<1>0. ASSUME UNCHANGED steps, steps = <<>> \/ state' \in {state, "dead"} PROVE StepInv'
  BY <1>0, EmptyList DEF StepInv
<1>1. CASE Receive \/ ReceiveAck \/ RecvFails
  BY <1>0, <1>1 DEF Receive, ReceiveAck, RecvFails, StepInv
<1>2. CASE client_init \/ FillMsg \/ FillDone
  BY <1>0, <1>2 DEF client_init, FillMsg, FillDone, StepInv
<1>3. CASE SettingsCrash \/ NotForThisDevice \/ Refuse \/ MallocFails \/ Accept
  BY <1>0, <1>3 DEF SettingsCrash, NotForThisDevice, Refuse, MallocFails, Accept, StepInv
<1>4. CASE RunCommand
  <2>1. PICK cmd \in Runs(Head(todo)) : steps' = Starts[cmd]
    BY <1>4 DEF RunCommand
  <2>2. Head(todo) \in Entries \ {"NOVALUE"}
    BY <1>4, HeadFacts DEF RunCommand
  <2>3. GoodList(steps')
    BY <2>1, <2>2, RunsFacts, StartsFacts
  <2>4. QED
    BY <1>4, <2>3 DEF RunCommand, StepInv
<1>5. CASE RunUnknown
  BY <1>0, <1>5 DEF RunUnknown
<1>6. CASE openPipe
  <2>1. /\ steps # <<>> /\ Head(steps).op # "show" /\ steps' = Tail(steps)
        /\ UNCHANGED state /\ state \in {"RUN", "APPLY", "RELOAD"}
    BY <1>6 DEF openPipe, Popens
  <2>2. GoodList(steps')
    BY <2>1, TailIsGood DEF StepInv
  <2>3. state \in {"APPLY", "RELOAD"} => Restarts(steps')
    BY <2>1, TailRestarts DEF StepInv
  <2>4. QED
    BY <2>1, <2>2, <2>3 DEF StepInv
<1>7. CASE runSetIp
  <2>1. steps # <<>> /\ Head(steps).op = "show" /\ state \in {"RUN", "APPLY", "RELOAD"}
        /\ state' \in {state, "dead"} /\ (steps' = Shown \/ steps' = Tail(steps) \/ steps' = steps)
    BY <1>7 DEF runSetIp, Popens
  <2>2. state = "RUN"
    BY <2>1, TailRestarts DEF StepInv
  <2>3. Tail(steps) = <<>>
    BY <2>1, ShowFacts DEF StepInv
  <2>4. GoodList(steps')
    BY <2>1, <2>3, ShownIsGood, EmptyList DEF StepInv
  <2>5. QED
    BY <2>1, <2>2, <2>4 DEF StepInv
<1>8. CASE ApplySettings
  <2>1. Restarts(steps') /\ state' = "APPLY"
    BY <1>8, ApplyRestarts DEF ApplySettings
  <2>2. QED
    BY <2>1, RestartsAreGood DEF StepInv
<1>9. CASE SettingsDone \/ Send \/ ReloadDone
  BY <1>0, <1>9 DEF SettingsDone, Send, ReloadDone, StepInv
<1>10. CASE Reload
  <2>1. Restarts(steps') /\ state' = "RELOAD"
    BY <1>10, OneRestart DEF Reload, Packages
  <2>2. QED
    BY <2>1, RestartsAreGood DEF StepInv
<1>11. CASE RunJob \/ NetUp
  BY <1>0, <1>11 DEF RunJob, NetUp, UciSet, UciCommit, NetworkRestart, End
<1>12. CASE UNCHANGED vars
  BY <1>0, <1>12 DEF vars
<1>13. QED
  BY <1>1, <1>2, <1>3, <1>4, <1>5, <1>6, <1>7, <1>8, <1>9, <1>10, <1>11, <1>12 DEF Next, Handle

\* The daemon's state and the lists it works on, for every behaviour.
LEMMA StepsAreGood == Spec => [](TypeOK /\ CleanInv /\ NoNovalue /\ StepInv)
<1>1. Init => CleanInv /\ NoNovalue /\ StepInv
  BY EmptyList DEF Init, CleanInv, NoNovalue, StepInv
<1>2. QED
  BY <1>1, CleanStep, NovalueStep, StepStep, MonitorTypeCorrect, PTL DEF Spec

\* A process that sets something is started for the request in the buffer.
LEMMA SetsInRun ==
  ASSUME StepInv, openPipe, Head(steps).op = "set"
  PROVE  state = "RUN"
<1>1. steps # <<>> /\ state \in {"RUN", "APPLY", "RELOAD"}
  BY DEF openPipe, Popens
<1>2. QED
  BY <1>1, TailRestarts DEF StepInv

LEMMA NewJob ==
  ASSUME TypeOK, openPipe
  PROVE  LET s == Head(steps)
             new == [n |-> njobs + 1, op |-> s.op, arg |-> s.arg, val |-> buf.id]
         IN /\ s \in Steps /\ UNCHANGED <<buf, state, delta, config, genuine, raced, named>>
            /\ \/ /\ jobs' = IF s.op \in {"set", "commit"} \/ s.arg = "network"
                              THEN jobs \cup {new} ELSE jobs
                  /\ last' = [k \in Keys |-> IF s.op = "set" /\ s.arg = k THEN buf.id ELSE last[k]]
                  /\ missed' = missed
               \/ missed' = TRUE /\ jobs' = jobs
<1>1. Head(steps) \in Steps
  BY TailFacts DEF openPipe, Popens, TypeOK
<1>2. QED
  BY <1>1 DEF openPipe, client, buffers

-----------------------------------------------------------------------------
(***************************************************************************)
(* Where settings come from.                                               *)
(***************************************************************************)
GenuineInv ==
  /\ OnlyGenuine
  /\ buf.hash /\ (buf.mine \/ ~named) => buf.id \in genuine
  /\ state = "RUN" => buf.id \in genuine

LEMMA GenuineStep == TypeOK /\ CleanInv /\ StepInv /\ GenuineInv /\ [Next]_vars => GenuineInv'
<1> SUFFICES ASSUME TypeOK, CleanInv, StepInv, GenuineInv, [Next]_vars PROVE GenuineInv'
  OBVIOUS
<1> USE DEF handler, system, history, world, buffers, client
<1>0. ASSUME UNCHANGED <<jobs, delta, config, genuine, buf>>, named => named',
             state' = "RUN" => state = "RUN"
      PROVE  GenuineInv'
  BY <1>0 DEF GenuineInv, OnlyGenuine
<1>a. ASSUME UNCHANGED <<jobs, delta, config, genuine>>, buf' = Plain("ack"), state' # "RUN"
      PROVE  GenuineInv'
  <2>1. ~buf'.hash
    BY <1>a DEF Plain
  <2>2. QED
    BY <1>a, <2>1 DEF GenuineInv, OnlyGenuine
<1>1. CASE Receive
  <2>1. PICK kind \in {"find", "settings", "update", "other"}, mine \in BOOLEAN, hash \in BOOLEAN,
             cmds \in Batches \cup {<<>>} :
             /\ buf' = [kind |-> kind, mine |-> mine, hash |-> hash, cmds |-> cmds, id |-> received + 1]
             /\ genuine' = IF hash /\ (mine \/ ~named) THEN genuine \cup {received + 1} ELSE genuine
             /\ Dispatch(kind)
    BY <1>1, ReceiveFacts
  <2>2. state' # "RUN" /\ genuine \subseteq genuine'
    BY <1>1, <2>1, DispatchFacts DEF Receive
  <2>3. UNCHANGED <<jobs, delta, config, named>>
    BY <1>1 DEF Receive
  <2>4. buf'.hash /\ (buf'.mine \/ ~named') => buf'.id \in genuine'
    BY <2>1, <2>3
  <2>5. QED
    BY <2>2, <2>3, <2>4 DEF GenuineInv, OnlyGenuine
<1>2. CASE ReceiveAck
  BY <1>a, <1>2, DispatchFacts DEF ReceiveAck
<1>3. CASE RecvFails
  BY <1>0, <1>3, DispatchFacts DEF RecvFails
<1>4. CASE client_init \/ FillMsg \/ FillDone
  BY <1>0, <1>4 DEF client_init, FillMsg, FillDone, Die
<1>5. CASE SettingsCrash \/ NotForThisDevice \/ Refuse \/ MallocFails
  BY <1>0, <1>5 DEF SettingsCrash, NotForThisDevice, Refuse, MallocFails, Die
<1>6. CASE Accept
  <2>1. fresh /\ buf.hash /\ (buf.mine \/ ~named)
    BY <1>6 DEF Accept, MayBeMine, checkMacAddress, checkMD5Sum
  <2>2. UNCHANGED <<jobs, delta, config, genuine, buf, named>>
    BY <1>6 DEF Accept
  <2>3. QED
    BY <2>1, <2>2 DEF GenuineInv, OnlyGenuine
<1>7. CASE RunCommand \/ RunUnknown \/ runSetIp \/ ApplySettings
  BY <1>0, <1>7 DEF RunCommand, RunUnknown, runSetIp, ApplySettings, Die
<1>8. CASE openPipe
  <2> DEFINE s == Head(steps)
             new == [n |-> njobs + 1, op |-> s.op, arg |-> s.arg, val |-> buf.id]
  <2>1. UNCHANGED <<buf, state, delta, config, genuine, named>> /\ jobs' \subseteq jobs \cup {new}
    BY <1>8, NewJob
  <2>2. new.op = "set" => new.val \in genuine
    BY <1>8, SetsInRun DEF GenuineInv
  <2> HIDE DEF new, s
  <2>3. QED
    BY <2>1, <2>2 DEF GenuineInv, OnlyGenuine
<1>9. CASE SettingsDone \/ Reload \/ ReloadDone
  BY <1>0, <1>9 DEF SettingsDone, Reload, ReloadDone
<1>10. CASE Send
  <2>1. state' = "RELOAD" /\ UNCHANGED <<jobs, delta, config, genuine, named>>
        /\ (buf' = buf \/ buf' = Plain("ack"))
    BY <1>10 DEF Send
  <2>2. QED
    BY <1>0, <1>a, <2>1
<1>11. CASE RunJob
  <2>1. PICK j \in jobs : UciSet(j) \/ UciCommit(j) \/ NetworkRestart(j)
    BY <1>11 DEF RunJob
  <2>2. UNCHANGED <<buf, state, genuine, named>> /\ jobs' \subseteq jobs
    BY <2>1 DEF UciSet, UciCommit, NetworkRestart, End
  <2>3. \A k \in Keys : /\ delta'[k] \in genuine \cup {0}
                       /\ config'[k] \in genuine \cup {0}
    <3>1. CASE UciSet(j)
      BY <3>1 DEF UciSet, GenuineInv, OnlyGenuine, TypeOK
    <3>2. CASE UciCommit(j)
      BY <3>2 DEF UciCommit, GenuineInv, OnlyGenuine, TypeOK
    <3>3. CASE NetworkRestart(j)
      BY <3>3 DEF NetworkRestart, GenuineInv, OnlyGenuine
    <3>4. QED
      BY <2>1, <3>1, <3>2, <3>3
  <2>4. QED
    BY <2>2, <2>3 DEF GenuineInv, OnlyGenuine
<1>12. CASE NetUp
  BY <1>0, <1>12 DEF NetUp
<1>13. CASE UNCHANGED vars
  BY <1>0, <1>13 DEF vars
<1>14. QED
  BY <1>1, <1>2, <1>3, <1>4, <1>5, <1>6, <1>7, <1>8, <1>9, <1>10, <1>11, <1>12, <1>13
     DEF Next, Handle

\* Whatever is left in the buffers after a failed read, and in whatever order
\* the commands run: a setting is that of a request with the hash and, once the
\* daemon knows its own, with this device's address.
THEOREM SettingsAreGenuine == Spec => []OnlyGenuine
<1>1. Init => GenuineInv
  BY DEF Init, GenuineInv, OnlyGenuine, Nothing, Plain
<1>2. GenuineInv => OnlyGenuine
  BY DEF GenuineInv
<1>3. QED
  BY <1>1, <1>2, GenuineStep, StepsAreGood, PTL DEF Spec

-----------------------------------------------------------------------------
(***************************************************************************)
(* What is committed when the processes end in the order they were started *)
(* in.  A set that has not run yet is the last of its key, or another one  *)
(* started after it is; and it has its commit behind it, running or still  *)
(* to be started, which only keys of the network may lack.                 *)
(***************************************************************************)
SetsOf(k) == {j \in jobs : j.op = "set" /\ j.arg = k}
Pending(k) == \E i \in 1..Len(steps) : IsCommit(steps[i], Package[k])
CommitDue(k, n) ==
  \/ Package[k] = "network"
  \/ Pending(k)
  \/ \E c \in jobs : IsCommit(c, Package[k]) /\ c.n > n

\* Nothing is set to 0, the value that stands for nothing.
Numbered ==
  /\ buf.hash \/ state = "RUN" => buf.id >= 1
  /\ \A j \in jobs : j.op = "set" => j.val >= 1

Settled(k) ==
  \/ config[k] = last[k] /\ delta[k] = 0
  \/ delta[k] = last[k] /\ delta[k] # 0 /\ CommitDue(k, 0)
LastSet(k, j) == j.val = last[k] /\ CommitDue(k, j.n)

SettleInv ==
  ~raced /\ ~missed =>
    \A k \in Keys :
      /\ SetsOf(k) = {} => Settled(k)
      /\ \A j \in SetsOf(k) : (\A i \in SetsOf(k) : i.n <= j.n) => LastSet(k, j)

LEMMA OpenPipeSettles ==
  ASSUME TypeOK, StepInv, Numbered, SettleInv, openPipe
  PROVE  SettleInv' /\ Numbered'
<1> DEFINE s == Head(steps)
           new == [n |-> njobs + 1, op |-> s.op, arg |-> s.arg, val |-> buf.id]
<1>1. /\ njobs \in Nat /\ buf.id \in Nat /\ last \in [Keys -> Nat]
      /\ \A j \in jobs : j.n \in Nat /\ j.n <= njobs
  BY DEF TypeOK, Datagrams, Jobs
<1>2. /\ s \in Steps /\ UNCHANGED <<buf, state, delta, config, raced>>
      /\ \/ /\ jobs' = IF s.op \in {"set", "commit"} \/ s.arg = "network"
                       THEN jobs \cup {new} ELSE jobs
            /\ last' = [key \in Keys |-> IF s.op = "set" /\ s.arg = key THEN buf.id ELSE last[key]]
            /\ missed' = missed
         \/ missed' = TRUE /\ jobs' = jobs
  BY NewJob
<1>3. s.op = "set" => buf.id >= 1 /\ s.arg \in Keys
  BY <1>2, SetsInRun DEF Numbered, Steps
<1>4. new.n = njobs + 1 /\ new.op = s.op /\ new.arg = s.arg /\ new.val = buf.id
  OBVIOUS
<1>5. steps \in Seq(Steps) /\ steps # <<>> /\ Commits(steps) /\ steps' = Tail(steps)
  BY DEF StepInv, GoodList, openPipe, Popens
<1>6. /\ Len(steps) \in Nat /\ Len(steps) >= 1 /\ s = steps[1]
      /\ \A i \in 2..Len(steps) : i - 1 \in 1..Len(steps') /\ steps'[i - 1] = steps[i]
  BY <1>5, TailFacts
<1> HIDE DEF new, s
<1>7. Numbered'
  BY <1>2, <1>3, <1>4 DEF Numbered
<1>8. SettleInv'
  <2> SUFFICES ASSUME ~raced', ~missed', NEW k \in Keys
               PROVE  /\ SetsOf(k)' = {} => Settled(k)'
                      /\ \A j \in SetsOf(k)' : (\A i \in SetsOf(k)' : i.n <= j.n) => LastSet(k, j)'
    BY DEF SettleInv
  <2>1. /\ SetsOf(k) = {} => Settled(k)
        /\ \A j \in SetsOf(k) : (\A i \in SetsOf(k) : i.n <= j.n) => LastSet(k, j)
    <3>1. ~missed /\ ~raced
      BY <1>2
    <3>2. QED
      BY <3>1 DEF SettleInv
  <2>2. /\ jobs' = IF s.op \in {"set", "commit"} \/ s.arg = "network" THEN jobs \cup {new} ELSE jobs
        /\ last' = [key \in Keys |-> IF s.op = "set" /\ s.arg = key THEN buf.id ELSE last[key]]
    BY <1>2
  <2>3. CASE s.op = "set" /\ s.arg = k
    <3>1. last'[k] = buf.id /\ new \in SetsOf(k)'
      BY <1>4, <2>2, <2>3 DEF SetsOf
    <3>2. Package[k] = "network" \/ Pending(k)'
      <4> SUFFICES ASSUME Package[k] # "network" PROVE Pending(k)'
        OBVIOUS
      <4>1. 1 \in 1..Len(steps)
        BY <1>6
      <4>2. PICK c \in (1 + 1)..Len(steps) : IsCommit(steps[c], Package[steps[1].arg])
        BY <4>1, <1>5, <1>6, <2>3 DEF Commits
      <4>3. c - 1 \in 1..Len(steps') /\ IsCommit(steps'[c - 1], Package[k])
        BY <4>2, <1>6, <2>3
      <4>4. QED
        BY <4>3 DEF Pending
    <3>3. ASSUME NEW j \in SetsOf(k)', \A i \in SetsOf(k)' : i.n <= j.n
          PROVE  LastSet(k, j)'
      <4>1. j \in jobs' /\ new.n <= j.n
        BY <3>1, <3>3 DEF SetsOf
      <4>2. j = new
        BY <4>1, <1>1, <1>4, <2>2
      <4>3. QED
        BY <4>2, <3>1, <3>2, <1>4 DEF LastSet, CommitDue
    <3>4. QED
      BY <3>1, <3>3
  <2>4. CASE ~(s.op = "set" /\ s.arg = k)
    <3>1. last'[k] = last[k]
      BY <2>2, <2>4
    <3>2. SetsOf(k)' = SetsOf(k)
      BY <1>4, <2>2, <2>4 DEF SetsOf
    <3>3. ASSUME NEW n \in Nat, n <= njobs, CommitDue(k, n) PROVE CommitDue(k, n)'
      <4>1. CASE Package[k] = "network"
        BY <4>1 DEF CommitDue
      <4>2. CASE Pending(k)
        <5>1. PICK i \in 1..Len(steps) : IsCommit(steps[i], Package[k])
          BY <4>2 DEF Pending
        <5>2. CASE i = 1
          <6>1. new \in jobs' /\ IsCommit(new, Package[k])
            BY <5>1, <5>2, <1>4, <1>6, <2>2 DEF IsCommit
          <6>2. new.n > n
            BY <1>1, <1>4, <3>3
          <6>3. QED
            BY <6>1, <6>2 DEF CommitDue
        <5>3. CASE i # 1
          <6>1. i \in 2..Len(steps)
            BY <1>6, <5>3
          <6>2. i - 1 \in 1..Len(steps') /\ IsCommit(steps'[i - 1], Package[k])
            BY <6>1, <5>1, <1>6
          <6>3. QED
            BY <6>2 DEF CommitDue, Pending
        <5>4. QED
          BY <5>2, <5>3
      <4>3. CASE \E c \in jobs : IsCommit(c, Package[k]) /\ c.n > n
        BY <4>3, <2>2 DEF CommitDue
      <4>4. QED
        BY <3>3, <4>1, <4>2, <4>3 DEF CommitDue
    <3>4. SetsOf(k)' = {} => Settled(k)'
      <4>1. CommitDue(k, 0) => CommitDue(k, 0)'
        BY <3>3, <1>1
      <4>2. QED
        BY <4>1, <2>1, <3>1, <3>2, <1>2 DEF Settled
    <3>5. ASSUME NEW j \in SetsOf(k)', \A i \in SetsOf(k)' : i.n <= j.n
          PROVE  LastSet(k, j)'
      <4>1. LastSet(k, j) /\ j.n \in Nat /\ j.n <= njobs
        BY <2>1, <3>2, <3>5, <1>1 DEF SetsOf
      <4>2. CommitDue(k, j.n)'
        BY <4>1, <3>3 DEF LastSet
      <4>3. QED
        BY <4>1, <4>2, <3>1 DEF LastSet
    <3>6. QED
      BY <3>4, <3>5
  <2>5. QED
    BY <2>3, <2>4
<1>9. QED
  BY <1>7, <1>8

\* The process that ends is the first of those that run, or they have raced.
LEMMA JobSettles ==
  ASSUME TypeOK, Numbered, SettleInv, RunJob
  PROVE  SettleInv'
<1> SUFFICES ASSUME ~raced', ~missed', NEW k \in Keys
             PROVE  /\ SetsOf(k)' = {} => Settled(k)'
                    /\ \A i \in SetsOf(k)' : (\A m \in SetsOf(k)' : m.n <= i.n) => LastSet(k, i)'
  BY DEF SettleInv
<1>1. PICK j \in jobs : UciSet(j) \/ UciCommit(j) \/ NetworkRestart(j)
  BY DEF RunJob
<1>2. /\ jobs' = jobs \ {j} /\ ~raced /\ ~missed /\ last' = last /\ steps' = steps
      /\ \A i \in jobs : ~(i.n < j.n)
  <2>1. End(j)
    BY <1>1 DEF UciSet, UciCommit, NetworkRestart
  <2>2. jobs' = jobs \ {j} /\ last' = last /\ raced' = (raced \/ \E i \in jobs : i.n < j.n)
        /\ missed' = missed /\ steps' = steps
    BY <2>1 DEF End, handler
  <2>3. ~raced /\ ~missed /\ ~\E i \in jobs : i.n < j.n
    BY <2>2, Zenon
  <2>4. QED
    BY <2>2, <2>3, Zenon
<1>3. /\ \A i \in jobs : i \in Jobs /\ i.n \in Nat
      /\ delta \in [Keys -> Nat] /\ config \in [Keys -> Nat] /\ last \in [Keys -> Nat]
      /\ j.op = "set" => j.arg \in Keys
  BY DEF TypeOK, Jobs
<1>4. /\ SetsOf(k) = {} => Settled(k)
      /\ \A i \in SetsOf(k) : (\A m \in SetsOf(k) : m.n <= i.n) => LastSet(k, i)
  BY <1>2 DEF SettleInv
<1>5. Pending(k)' = Pending(k)
  BY <1>2 DEF Pending
<1>6. CASE UciSet(j)
  <2>1. /\ j.op = "set" /\ j.val >= 1 /\ delta' = [delta EXCEPT ![j.arg] = j.val] /\ config' = config
    BY <1>6 DEF UciSet, Numbered
  <2>2. \A n : CommitDue(k, n) => CommitDue(k, n)'
    BY <1>2, <1>5, <2>1 DEF CommitDue, IsCommit
  <2>3. CASE j.arg = k
    <3>1. SetsOf(k)' = SetsOf(k) \ {j} /\ j \in SetsOf(k)
      BY <1>2, <2>1, <2>3 DEF SetsOf
    <3>2. ASSUME SetsOf(k)' = {} PROVE Settled(k)'
      <4>1. SetsOf(k) = {j} /\ j.n \in Nat
        BY <3>1, <3>2, <1>3
      <4>2. LastSet(k, j)
        BY <4>1, <1>4
      <4>3. delta'[k] = j.val /\ j.val # 0 /\ j.val = last'[k] /\ CommitDue(k, j.n)'
        BY <4>2, <2>1, <2>2, <2>3, <1>2, <1>3 DEF LastSet
      <4>4. CommitDue(k, 0)'
        BY <4>1, <4>3, <1>2, <1>3 DEF CommitDue
      <4>5. QED
        BY <4>3, <4>4 DEF Settled
    <3>3. ASSUME NEW i \in SetsOf(k)', \A m \in SetsOf(k)' : m.n <= i.n
          PROVE  LastSet(k, i)'
      <4>1. i \in SetsOf(k) /\ i \in jobs /\ j.n <= i.n
        BY <3>1, <3>3, <1>2, <1>3 DEF SetsOf
      <4>2. LastSet(k, i)
        BY <3>1, <3>3, <4>1, <1>4
      <4>3. QED
        BY <4>2, <2>2, <1>2 DEF LastSet
    <3>4. QED
      BY <3>2, <3>3
  <2>4. CASE j.arg # k
    <3>1. SetsOf(k)' = SetsOf(k) /\ delta'[k] = delta[k]
      BY <1>2, <1>3, <2>1, <2>4 DEF SetsOf
    <3>2. QED
      BY <3>1, <2>1, <2>2, <1>2, <1>4 DEF Settled, LastSet
  <2>5. QED
    BY <2>3, <2>4
<1>7. CASE UciCommit(j)
  <2>1. /\ j.op = "commit"
        /\ config' = [key \in Keys |-> IF Package[key] = j.arg /\ delta[key] # 0
                                       THEN delta[key] ELSE config[key]]
        /\ delta' = [key \in Keys |-> IF Package[key] = j.arg THEN 0 ELSE delta[key]]
    BY <1>7 DEF UciCommit
  <2>2. SetsOf(k)' = SetsOf(k)
    BY <1>2, <2>1 DEF SetsOf
  <2>3. ASSUME NEW i \in SetsOf(k), CommitDue(k, i.n) PROVE CommitDue(k, i.n)'
    <3>1. i \in jobs /\ i.n \in Nat /\ ~(i.n < j.n) /\ j.n \in Nat
      BY <1>2, <1>3 DEF SetsOf
    <3>2. CASE Package[k] = "network" \/ Pending(k)
      BY <1>5, <3>2 DEF CommitDue
    <3>3. CASE ~(Package[k] = "network" \/ Pending(k))
      <4>1. PICK c \in jobs : IsCommit(c, Package[k]) /\ c.n > i.n
        BY <3>3, <2>3 DEF CommitDue
      <4>2. c # j
        BY <4>1, <3>1
      <4>3. QED
        BY <4>1, <4>2, <1>2 DEF CommitDue
    <3>4. QED
      BY <3>2, <3>3
  <2>4. ASSUME NEW i \in SetsOf(k)', \A m \in SetsOf(k)' : m.n <= i.n
        PROVE  LastSet(k, i)'
    <3>1. i \in SetsOf(k) /\ LastSet(k, i)
      BY <1>4, <2>2, <2>4
    <3>2. CommitDue(k, i.n)'
      BY <2>3, <3>1 DEF LastSet
    <3>3. QED
      BY <1>2, <3>1, <3>2 DEF LastSet
  <2>5. ASSUME SetsOf(k)' = {} PROVE Settled(k)'
    <3>1. Settled(k)
      BY <2>2, <2>5, <1>4
    <3>2. CASE Package[k] = j.arg
      <4>1. delta'[k] = 0 /\ config'[k] = IF delta[k] # 0 THEN delta[k] ELSE config[k]
        BY <2>1, <3>2
      <4>2. QED
        BY <3>1, <4>1, <1>2 DEF Settled
    <3>3. CASE Package[k] # j.arg
      <4>1. delta'[k] = delta[k] /\ config'[k] = config[k] /\ (CommitDue(k, 0) => CommitDue(k, 0)')
        BY <2>1, <3>3, <1>2, <1>5 DEF CommitDue, IsCommit
      <4>2. QED
        BY <3>1, <4>1, <1>2 DEF Settled
    <3>4. QED
      BY <3>2, <3>3
  <2>6. QED
    BY <2>4, <2>5
<1>8. CASE NetworkRestart(j)
  <2>1. SetsOf(k)' = SetsOf(k) /\ (\A n : CommitDue(k, n) => CommitDue(k, n)')
        /\ UNCHANGED <<delta, config>>
    BY <1>2, <1>8, <1>5 DEF NetworkRestart, SetsOf, CommitDue, IsCommit
  <2>2. SetsOf(k)' = {} => Settled(k)'
    BY <2>1, <1>2, <1>4 DEF Settled
  <2>3. \A i : LastSet(k, i) => LastSet(k, i)'
    BY <2>1, <1>2 DEF LastSet
  <2>4. QED
    BY <2>1, <2>2, <2>3, <1>4
<1>9. QED
  BY <1>1, <1>6, <1>7, <1>8

LEMMA SettleStep ==
  TypeOK /\ CleanInv /\ StepInv /\ Numbered /\ SettleInv /\ [Next]_vars => Numbered' /\ SettleInv'
<1> SUFFICES ASSUME TypeOK, CleanInv, StepInv, Numbered, SettleInv, [Next]_vars
             PROVE  Numbered' /\ SettleInv'
  OBVIOUS
<1> USE DEF handler, system, history, world, buffers, client
<1>0. ASSUME UNCHANGED <<jobs, delta, config, last, raced, missed>>,
             \A k \in Keys : Pending(k) => Pending(k)'
      PROVE  SettleInv'
  <2>1. ASSUME NEW k \in Keys, NEW n, CommitDue(k, n) PROVE CommitDue(k, n)'
    BY <1>0, <2>1 DEF CommitDue
  <2>2. ASSUME NEW k \in Keys PROVE /\ SetsOf(k)' = SetsOf(k)
                                    /\ Settled(k) => Settled(k)'
                                    /\ \A j : LastSet(k, j) => LastSet(k, j)'
    BY <1>0, <2>1 DEF SetsOf, Settled, LastSet
  <2>3. QED
    BY <1>0, <2>2 DEF SettleInv
<1>1. ASSUME UNCHANGED <<jobs, delta, config, last, raced, missed, buf>>, steps = <<>> \/ steps' = steps,
             state' = "RUN" => state = "RUN"
      PROVE  Numbered' /\ SettleInv'
  BY <1>0, <1>1 DEF Numbered, Pending
<1>2. CASE Receive
  <2>1. PICK kind \in {"find", "settings", "update", "other"}, mine \in BOOLEAN, hash \in BOOLEAN,
             cmds \in Batches \cup {<<>>} :
             buf' = [kind |-> kind, mine |-> mine, hash |-> hash, cmds |-> cmds, id |-> received + 1]
    BY <1>2, ReceiveFacts
  <2>2. received \in Nat /\ buf'.id = received + 1
    BY <2>1 DEF TypeOK
  <2>3. UNCHANGED <<jobs, delta, config, last, raced, missed, steps>>
    BY <1>2 DEF Receive
  <2>4. QED
    BY <1>0, <2>2, <2>3 DEF Numbered, Pending
<1>3. CASE ReceiveAck
  <2>1. state' # "RUN" /\ ~buf'.hash
    BY <1>3, DispatchFacts DEF ReceiveAck, Plain
  <2>2. UNCHANGED <<jobs, delta, config, last, raced, missed, steps>>
    BY <1>3 DEF ReceiveAck
  <2>3. QED
    BY <1>0, <2>1, <2>2 DEF Numbered, Pending
<1>4. CASE RecvFails
  BY <1>1, <1>4, DispatchFacts DEF RecvFails
<1>5. CASE client_init \/ FillMsg \/ FillDone
  BY <1>1, <1>5 DEF client_init, FillMsg, FillDone, Die
<1>6. CASE SettingsCrash \/ NotForThisDevice \/ Refuse \/ MallocFails
  BY <1>1, <1>6 DEF SettingsCrash, NotForThisDevice, Refuse, MallocFails, Die
<1>7. CASE Accept
  <2>1. buf.hash /\ UNCHANGED <<jobs, delta, config, last, raced, missed, buf, steps>>
    BY <1>7 DEF Accept, checkMD5Sum
  <2>2. QED
    BY <1>0, <2>1 DEF Numbered, Pending
<1>8. CASE RunCommand \/ RunUnknown \/ ApplySettings \/ SettingsDone
  BY <1>1, <1>8 DEF RunCommand, RunUnknown, ApplySettings, SettingsDone, Die
<1>9. CASE openPipe
  BY <1>9, OpenPipeSettles
<1>10. CASE runSetIp
  <2>1. UNCHANGED <<jobs, delta, config, last, raced, missed, buf>> /\ state' \in {state, "dead"}
    BY <1>10 DEF runSetIp, Die
  <2>2. Len(steps) = 1 /\ steps[1].op = "show"
    BY <1>10, ShowFacts DEF runSetIp, Popens, StepInv
  <2>3. ~\E k \in Keys : Pending(k)
    BY <2>2 DEF Pending, IsCommit
  <2>4. QED
    BY <1>0, <2>1, <2>3 DEF Numbered
<1>11. CASE Send
  <2>1. UNCHANGED <<jobs, delta, config, last, raced, missed, steps>> /\ state' = "RELOAD"
        /\ (buf' = buf \/ buf' = Plain("ack"))
    BY <1>11 DEF Send
  <2>2. buf' = buf \/ ~buf'.hash
    BY <2>1 DEF Plain
  <2>3. QED
    BY <1>0, <2>1, <2>2 DEF Numbered, Pending
<1>12. CASE Reload \/ ReloadDone
  BY <1>1, <1>12 DEF Reload, ReloadDone
<1>13. CASE RunJob
  <2>1. UNCHANGED <<buf, state>> /\ jobs' \subseteq jobs
    BY <1>13 DEF RunJob, UciSet, UciCommit, NetworkRestart, End
  <2>2. QED
    BY <1>13, <2>1, JobSettles DEF Numbered
<1>14. CASE NetUp
  BY <1>1, <1>14 DEF NetUp
<1>15. CASE UNCHANGED vars
  BY <1>1, <1>15 DEF vars
<1>16. QED
  BY <1>2, <1>3, <1>4, <1>5, <1>6, <1>7, <1>8, <1>9, <1>10, <1>11, <1>12, <1>13, <1>14, <1>15
     DEF Next, Handle

\* The commands of any number of requests, of any lists, started one after the
\* other without waiting: if they happen to end in that order and none was left
\* out, what was set last is committed, or waits in the network's changes.
THEOREM SettingsPersist == Spec => []PersistedInOrder
<1>1. Init => Numbered /\ SettleInv
  BY DEF Init, Numbered, SettleInv, SetsOf, Settled, Nothing, Plain
<1>2. SettleInv => PersistedInOrder
  <2> SUFFICES ASSUME SettleInv, jobs = {}, steps = <<>>, ~raced, ~missed, NEW k \in Keys
               PROVE  \/ config[k] = last[k] /\ delta[k] = 0
                      \/ Package[k] = "network" /\ delta[k] = last[k]
    BY DEF PersistedInOrder
  <2>1. Settled(k)
    BY DEF SettleInv, SetsOf
  <2>2. ~Pending(k)
    BY DEF Pending
  <2>3. QED
    BY <2>1, <2>2 DEF Settled, CommitDue
<1>3. QED
  BY <1>1, <1>2, SettleStep, StepsAreGood, PTL DEF Spec
=============================================================================
