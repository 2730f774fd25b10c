--------------------------- MODULE PoeQueueProofs ---------------------------
(***************************************************************************)
(* Proofs about PoeQueue for every number of ports, every retry limit,     *)
(* every width of the sequence number and any number of faults, calls and  *)
(* restarts.                                                               *)
(***************************************************************************)
EXTENDS PoeQueue, FiniteSetTheorems, SequenceTheorems, TLAPS

-----------------------------------------------------------------------------
(***************************************************************************)
(* What is queued, sent and read.                                          *)
(***************************************************************************)

\* Giving commands their sequence numbers makes queued commands of them.
LEMMA StampedType ==
  ASSUME NEW batch \in Seq(Commands), NEW seq \in Nat
  PROVE  /\ Stamped(batch, seq) \in Seq(QueuedCommands)
         /\ Len(Stamped(batch, seq)) = Len(batch)
<1>1. ASSUME NEW k \in 1..Len(batch)
      PROVE  [id |-> batch[k].id, port |-> batch[k].port, on |-> batch[k].on,
              seq |-> (seq + k) % SeqMod, num_retries |-> 0] \in QueuedCommands
  <2>1. batch[k] \in Commands
    BY <1>1
  <2>2. (seq + k) % SeqMod \in 0..(SeqMod - 1)
    BY <1>1, PoeSizesAssumption
  <2>3. 0 \in 0..MaxRetries
    BY PoeSizesAssumption
  <2> QED
    BY <2>1, <2>2, <2>3 DEF Commands, QueuedCommands
<1>2. Len(batch) \in Nat
  OBVIOUS
<1> QED
  BY <1>1, <1>2 DEF Stamped

\* The number of groups in poet_setup.
LEMMA GroupsType ==
  ASSUME NEW en \in [Ports -> BOOLEAN]
  PROVE  Groups(en) \in Nat
<1> DEFINE on == {p \in Ports : en[p]}
<1>1. IsFiniteSet(Ports)
  BY FS_Interval, PoeSizesAssumption DEF Ports
<1>2. on \in SUBSET Ports
  OBVIOUS
<1>3. IsFiniteSet(on)
  BY <1>1, <1>2, FS_Subset
<1>4. Cardinality(on) \in Nat
  BY <1>3, FS_CardinalityType
<1> QED
  BY <1>4 DEF Groups

LEMMA PlainType == \A id \in CommandIds, p \in Nat : OfPort(id, p) \in Commands /\ Plain(id) \in Commands
BY DEF OfPort, Plain, Commands

\* The commands of poe_port_setup; there is at least one.
LEMMA SetupType ==
  ASSUME NEW en \in [Ports -> BOOLEAN]
  PROVE  /\ poe_port_setup(en) \in Seq(Commands) /\ Len(poe_port_setup(en)) > 0
         /\ poe_initial_setup(en) \in Seq(Commands) /\ Len(poe_initial_setup(en)) > 0
<1> DEFINE n == 3 * Groups(en)
           ids == <<"priority", "classification", "limit_type">>
           switches == [k \in 1..PortCount |-> Switch(k - 1, en[k - 1])]
           first == <<Plain("status"), Plain("mgmt_mode"), Plain("port_mapping"),
                      Plain("power_budget")>>
<1>1. n \in Nat
  BY GroupsType
<1>2. \A k \in 1..n : ids[((k - 1) % 3) + 1] \in CommandIds
  <2>1. \A k \in 1..n : ((k - 1) % 3) + 1 \in 1..3
    BY <1>1
  <2>2. \A j \in 1..3 : ids[j] \in CommandIds
    BY DEF CommandIds
  <2> QED
    BY <2>1, <2>2
<1>3. poet_setup(en) \in Seq(Commands)
  BY <1>1, <1>2, PlainType DEF poet_setup
<1>4. switches \in Seq(Commands) /\ Len(switches) = PortCount
  <2>1. \A k \in 1..PortCount : Switch(k - 1, en[k - 1]) \in Commands
    BY PoeSizesAssumption DEF Switch, Commands, CommandIds, Ports
  <2> QED
    BY <2>1, PoeSizesAssumption
<1>5. poe_port_setup(en) \in Seq(Commands) /\ Len(poe_port_setup(en)) > 0
  BY <1>3, <1>4, PoeSizesAssumption DEF poe_port_setup
<1>6. first \in Seq(Commands) /\ Len(first) = 4
  BY PlainType DEF CommandIds
<1>7. poe_initial_setup(en) \in Seq(Commands) /\ Len(poe_initial_setup(en)) > 0
  BY <1>5, <1>6 DEF poe_initial_setup
<1> QED
  BY <1>5, <1>7

\* The commands of a poll.
LEMMA PollType == PollBatch \in Seq(Commands) /\ Len(PollBatch) > 0
<1> DEFINE g == (PortCount + 3) \div 4
           groups == [j \in 1..g |-> OfPort("4_port_status", j - 1)]
           ids == <<"port_config", "ext_config", "port_power_stats">>
           each == [k \in 1..(3 * PortCount) |->
                      OfPort(ids[((k - 1) % 3) + 1], (k - 1) \div 3)]
<1>1. g \in Nat
  BY PoeSizesAssumption
<1>2. groups \in Seq(Commands)
  BY <1>1, PlainType DEF CommandIds
<1>3. \A k \in 1..(3 * PortCount) :
        ids[((k - 1) % 3) + 1] \in CommandIds /\ (k - 1) \div 3 \in Nat
  <2>1. \A k \in 1..(3 * PortCount) : ((k - 1) % 3) + 1 \in 1..3 /\ (k - 1) \div 3 \in Nat
    BY PoeSizesAssumption
  <2>2. \A j \in 1..3 : ids[j] \in CommandIds
    BY DEF CommandIds
  <2> QED
    BY <2>1, <2>2
<1>4. each \in Seq(Commands)
  BY <1>3, PlainType, PoeSizesAssumption
<1>5. <<Plain("power_stats")>> \in Seq(Commands) /\ Len(<<Plain("power_stats")>>) = 1
  BY PlainType DEF CommandIds
<1>6. PollBatch = <<Plain("power_stats")>> \o groups \o each
  BY DEF PollBatch
<1> HIDE DEF groups, each
<1> QED
  BY <1>2, <1>4, <1>5, <1>6

\* A frame taken from the list for sending, and what poe_cmd_next sends.
LEMMA NextSends ==
  ASSUME NEW sent \in Seq(SentFrames), NEW list \in Seq(QueuedCommands), NEW busy \in BOOLEAN
  PROVE  /\ poe_cmd_next(sent, list, busy) \in Seq(SentFrames)
         /\ Len(poe_cmd_next(sent, list, busy)) =
              Len(sent) + (IF list # <<>> /\ ~busy THEN 1 ELSE 0)
<1>1. CASE list = <<>>
  BY <1>1 DEF poe_cmd_next
<1>2. CASE list # <<>>
  <2>1. Head(list) \in QueuedCommands
    BY <1>2
  <2>2. Frame(Head(list)) \in SentFrames
    BY <2>1 DEF Frame, QueuedCommands, SentFrames, Lives
  <2> QED
    BY <1>2, <2>2 DEF poe_cmd_next, poe_cmd_send
<1> QED
  BY <1>1, <1>2

\* Marking frames changes neither their number nor their type.
LEMMA OutdatedType ==
  /\ \A s \in Seq(Halves) : Outdated(s) \in Seq(Halves) /\ Len(Outdated(s)) = Len(s)
  /\ \A s \in Seq(SentFrames) : Outdated(s) \in Seq(SentFrames) /\ Len(Outdated(s)) = Len(s)
<1>1. ASSUME NEW h \in Halves
      PROVE  [h EXCEPT !.life = IF @ = "live" THEN "stale" ELSE @] \in Halves
  BY DEF Halves, Lives
<1>2. ASSUME NEW f \in SentFrames
      PROVE  [f EXCEPT !.life = IF @ = "live" THEN "stale" ELSE @] \in SentFrames
  BY DEF SentFrames, Lives
<1> QED
  BY <1>1, <1>2 DEF Outdated

LEMMA FormerType ==
  /\ \A s \in Seq(Halves) : Former(s) \in Seq(Halves) /\ Len(Former(s)) = Len(s)
  /\ \A s \in Seq(SentFrames) : Former(s) \in Seq(SentFrames) /\ Len(Former(s)) = Len(s)
<1>1. ASSUME NEW h \in Halves
      PROVE  [h EXCEPT !.life = "former"] \in Halves
  BY DEF Halves, Lives
<1>2. ASSUME NEW f \in SentFrames
      PROVE  [f EXCEPT !.life = "former"] \in SentFrames
  BY DEF SentFrames, Lives
<1> QED
  BY <1>1, <1>2 DEF Former

\* A part of a sequence, from place m on.
LEMMA SubSeqType ==
  ASSUME NEW S, NEW s \in Seq(S), NEW m \in 1..(Len(s) + 1), NEW n \in (m - 1)..Len(s)
  PROVE  SubSeq(s, m, n) \in Seq(S) /\ Len(SubSeq(s, m, n)) = n + 1 - m
<1>1. \A i \in m..n : s[i] \in S
  OBVIOUS
<1> QED
  BY <1>1, SubSeqProperties

\* The buffer after a read of k halves.
LEMMA BufferType ==
  ASSUME rx \in Seq(Halves), line \in Seq(Halves), NEW k \in 1..Len(line)
  PROVE  Buffer(k) \in Seq(Halves) /\ Len(Buffer(k)) = Len(rx) + k
<1>1. SubSeq(line, 1, k) \in Seq(Halves) /\ Len(SubSeq(line, 1, k)) = k
  BY SubSeqType
<1> QED
  BY <1>1 DEF Buffer

\* poe_stream_msg_cb takes one frame from what has come in and sends the next
\* command, if there is one and no pause is running.
LEMMA ConsumeLines ==
  ASSUME rx \in Seq(Halves), line \in Seq(Halves), toMcu \in Seq(SentFrames),
         cmd_pending' \in Seq(QueuedCommands), mcu_error_timeout' \in BOOLEAN,
         NEW k \in 1..Len(line), NEW leaves \in BOOLEAN, Consume(k, leaves)
  PROVE  /\ rx' \in Seq(Halves) /\ line' \in Seq(Halves) /\ toMcu' \in Seq(SentFrames)
         /\ Len(rx') + Len(line') + 2 = Len(rx) + Len(line)
         /\ Len(toMcu') = Len(toMcu) + (IF Awaiting' THEN 1 ELSE 0)
<1> DEFINE buf == Buffer(k)
           rest == SubSeq(buf, 3, Len(buf))
           late == SubSeq(line, k + 1, Len(line))
           sent == IF leaves THEN Outdated(toMcu) ELSE toMcu
<1>1. buf \in Seq(Halves) /\ Len(buf) = Len(rx) + k /\ Len(buf) >= 2
  BY BufferType DEF Consume, FrameComplete
<1>2. rest \in Seq(Halves) /\ Len(rest) + 2 = Len(buf)
  <2>1. 3 \in 1..(Len(buf) + 1) /\ Len(buf) \in (3 - 1)..Len(buf)
    BY <1>1
  <2> HIDE DEF buf
  <2> QED
    BY <1>1, <2>1, SubSeqType
<1>3. late \in Seq(Halves) /\ Len(late) = Len(line) - k
  <2>1. k + 1 \in 1..(Len(line) + 1) /\ Len(line) \in (k + 1 - 1)..Len(line)
    OBVIOUS
  <2> QED
    BY <2>1, SubSeqType
<1>4. /\ rx' = IF leaves THEN Outdated(rest) ELSE rest
      /\ line' = IF leaves THEN Outdated(late) ELSE late
      /\ toMcu' = poe_cmd_next(sent, cmd_pending', mcu_error_timeout')
  BY DEF Consume
<1>5. sent \in Seq(SentFrames) /\ Len(sent) = Len(toMcu)
  BY OutdatedType
<1>6. /\ toMcu' \in Seq(SentFrames)
      /\ Len(toMcu') = Len(sent) + (IF cmd_pending' # <<>> /\ ~mcu_error_timeout' THEN 1 ELSE 0)
  <2> HIDE DEF sent
  <2> QED
    BY <1>4, <1>5, NextSends
<1>7. /\ rx' \in Seq(Halves) /\ Len(rx') = Len(rest)
      /\ line' \in Seq(Halves) /\ Len(line') = Len(late)
  <2> HIDE DEF rest, late
  <2> QED
    BY <1>2, <1>3, <1>4, OutdatedType
<1> HIDE DEF buf, rest, late, sent
<1>8. Len(rx') + Len(line') + 2 = Len(rx) + Len(line)
  <2>1. PICK r \in Nat, t \in Nat, x \in Nat, l \in Nat :
          /\ r = Len(rest) /\ t = Len(late) /\ x = Len(rx) /\ l = Len(line)
    BY <1>2, <1>3
  <2>2. r + 2 = x + k /\ t = l - k /\ k \in Nat
    BY <1>1, <1>2, <1>3, <2>1
  <2>3. r + t + 2 = x + l
    BY <2>2
  <2> QED
    BY <1>7, <2>1, <2>3
<1>9. Awaiting' <=> cmd_pending' # <<>> /\ ~mcu_error_timeout'
  BY DEF Awaiting
<1> QED
  BY <1>5, <1>6, <1>7, <1>8, <1>9

\* poe_cmd_queue: the list grows, and the first command of an empty list is
\* sent at once unless the pause after a rejection is running.
LEMMA QueueSends ==
  ASSUME TypeOK, NEW batch \in Seq(Commands), Len(batch) > 0, poe_cmd_queue(batch)
  PROVE  /\ cmd_pending' \in Seq(QueuedCommands) /\ cmd_pending' # <<>>
         /\ cmd_seq' \in 0..(SeqMod - 1)
         /\ toMcu' \in Seq(SentFrames)
         /\ Len(toMcu') = Len(toMcu) + (IF ~Awaiting /\ Awaiting' THEN 1 ELSE 0)
         /\ Awaiting => Awaiting'
         /\ want' \in [Ports -> BOOLEAN]
<1> DEFINE new == Stamped(batch, cmd_seq)
<1>1. cmd_seq \in Nat /\ Len(batch) \in Nat
  BY PoeSizesAssumption DEF TypeOK
<1>2. new \in Seq(QueuedCommands) /\ Len(new) = Len(batch)
  BY <1>1, StampedType
<1>3. /\ cmd_pending' = cmd_pending \o new
      /\ cmd_seq' = (cmd_seq + Len(batch)) % SeqMod
      /\ toMcu' = IF cmd_pending = <<>>
                  THEN poe_cmd_send(toMcu, new[1], mcu_error_timeout) ELSE toMcu
      /\ want' = Wanted(batch, want)
      /\ mcu_error_timeout' = mcu_error_timeout
  BY DEF poe_cmd_queue
<1> HIDE DEF new
<1>4. new # <<>> /\ Frame(new[1]) \in SentFrames
  <2>1. new # <<>> /\ new[1] \in QueuedCommands
    BY <1>2
  <2> QED
    BY <2>1 DEF Frame, QueuedCommands, SentFrames, Lives
<1>5. cmd_pending' \in Seq(QueuedCommands) /\ cmd_pending' # <<>>
  BY <1>2, <1>3, <1>4 DEF TypeOK
<1>6. cmd_seq' \in 0..(SeqMod - 1)
  BY <1>1, <1>3, PoeSizesAssumption
<1>7. /\ toMcu' \in Seq(SentFrames)
      /\ Len(toMcu') = Len(toMcu) + (IF cmd_pending = <<>> /\ ~mcu_error_timeout THEN 1 ELSE 0)
  <2>1. CASE cmd_pending = <<>> /\ ~mcu_error_timeout
    BY <1>3, <1>4, <2>1 DEF TypeOK, poe_cmd_send
  <2>2. CASE ~(cmd_pending = <<>> /\ ~mcu_error_timeout)
    BY <1>3, <2>2 DEF TypeOK, poe_cmd_send
  <2> QED
    BY <2>1, <2>2
<1>8. want' \in [Ports -> BOOLEAN]
  BY <1>3 DEF TypeOK, Wanted
<1>9. (~Awaiting /\ Awaiting') <=> (cmd_pending = <<>> /\ ~mcu_error_timeout)
  BY <1>3, <1>5 DEF Awaiting
<1>10. Awaiting => Awaiting'
  BY <1>3, <1>5 DEF Awaiting
<1> QED
  BY <1>5, <1>6, <1>7, <1>8, <1>9, <1>10

-----------------------------------------------------------------------------
(***************************************************************************)
(* Type correctness.                                                       *)
(***************************************************************************)
LEMMA InitType == Init => TypeOK
<1> SUFFICES ASSUME Init PROVE TypeOK
  OBVIOUS
<1> DEFINE setup == poe_initial_setup(enable)
<1>1. enable \in [Ports -> BOOLEAN]
  BY DEF Init, config_load
<1>2. setup \in Seq(Commands) /\ Len(setup) > 0
  BY <1>1, SetupType
<1>3. cmd_pending \in Seq(QueuedCommands) /\ Len(cmd_pending) = Len(setup)
  <2> HIDE DEF setup
  <2>1. Stamped(setup, 0) \in Seq(QueuedCommands) /\ Len(Stamped(setup, 0)) = Len(setup)
    BY <1>2, StampedType
  <2>2. cmd_pending = Stamped(setup, 0)
    BY DEF Init, setup
  <2> QED
    BY <2>1, <2>2
<1>4. cmd_seq \in 0..(SeqMod - 1)
  <2> HIDE DEF setup
  <2>1. cmd_seq = Len(setup) % SeqMod
    BY DEF Init, setup
  <2> QED
    BY <1>2, <2>1, PoeSizesAssumption
<1>5. toMcu \in Seq(SentFrames)
  <2> HIDE DEF setup
  <2>1. Head(cmd_pending) \in QueuedCommands
    BY <1>2, <1>3
  <2>2. Frame(Head(cmd_pending)) \in SentFrames
    BY <2>1 DEF Frame, QueuedCommands, SentFrames, Lives
  <2> QED
    BY <2>2 DEF Init
<1>6. 0 \in 0..MaxCalls /\ 0 \in 0..MaxFaults /\ 0 \in 0..MaxRestarts
  BY PoeSizesAssumption
<1>7. rx \in Seq(Halves) /\ line \in Seq(Halves)
  BY DEF Init
<1>8. /\ reported \in [Ports -> BOOLEAN] /\ mcuOn \in [Ports -> BOOLEAN]
      /\ want \in [Ports -> BOOLEAN] /\ served \in [Ports -> BOOLEAN]
  BY DEF Init, config_load
<1>9. /\ calls \in 0..MaxCalls /\ faults \in 0..MaxFaults /\ restarts \in 0..MaxRestarts
      /\ noise \in Nat /\ lost \in Nat
  BY <1>6 DEF Init
<1>10. mcu_error_timeout \in BOOLEAN /\ mixedUp \in BOOLEAN
  BY DEF Init
<1> HIDE DEF setup
<1> QED
  BY <1>1, <1>3, <1>4, <1>5, <1>7, <1>8, <1>9, <1>10 DEF TypeOK

\* The callbacks that queue commands, with what they do to the lines.
LEMMA QueueType ==
  ASSUME TypeOK, NEW batch \in Seq(Commands), Len(batch) > 0, poe_cmd_queue(batch),
         enable' \in [Ports -> BOOLEAN], calls' \in 0..MaxCalls
  PROVE  TypeOK'
<1>1. /\ cmd_pending' \in Seq(QueuedCommands)
      /\ cmd_seq' \in 0..(SeqMod - 1)
      /\ toMcu' \in Seq(SentFrames)
      /\ want' \in [Ports -> BOOLEAN]
  BY QueueSends
<1> QED
  BY <1>1 DEF TypeOK, poe_cmd_queue

\* Every call queues a batch that is not empty.
LEMMA CallBatches ==
  ASSUME TypeOK,
         state_timeout_cb \/ ubus_poe_manage_cb \/ ubus_poe_sendframe_cb \/ ubus_poe_reload_cb
  PROVE  \E batch \in Seq(Commands) :
           /\ Len(batch) > 0 /\ poe_cmd_queue(batch)
           /\ enable' \in [Ports -> BOOLEAN] /\ calls' \in 0..MaxCalls
<1>1. CASE state_timeout_cb
  BY <1>1, PollType DEF state_timeout_cb, TypeOK
<1>2. CASE ubus_poe_manage_cb
  <2>1. PICK p \in Ports, on \in BOOLEAN :
          Call /\ poe_cmd_queue(<<Switch(p, on)>>) /\ enable' = enable
    BY <1>2 DEF ubus_poe_manage_cb
  <2>2. Switch(p, on) \in Commands
    BY PoeSizesAssumption DEF Switch, Commands, CommandIds, Ports
  <2>3. <<Switch(p, on)>> \in Seq(Commands) /\ Len(<<Switch(p, on)>>) > 0
    BY <2>2
  <2>4. calls' \in 0..MaxCalls
    BY <2>1, PoeSizesAssumption DEF Call, TypeOK
  <2> QED
    BY <2>1, <2>3, <2>4 DEF TypeOK
<1>3. CASE ubus_poe_sendframe_cb
  <2>1. PICK c \in RawCommands : Call /\ poe_cmd_queue(<<c>>) /\ enable' = enable
    BY <1>3 DEF ubus_poe_sendframe_cb
  <2>2. <<c>> \in Seq(Commands) /\ Len(<<c>>) > 0
    BY PoeSizesAssumption
  <2>3. calls' \in 0..MaxCalls
    BY <2>1, PoeSizesAssumption DEF Call, TypeOK
  <2> QED
    BY <2>1, <2>2, <2>3 DEF TypeOK
<1>4. CASE ubus_poe_reload_cb
  <2>1. /\ Call /\ enable' \in [Ports -> BOOLEAN]
        /\ poe_cmd_queue(poe_port_setup(enable'))
    BY <1>4 DEF ubus_poe_reload_cb, config_load
  <2>2. poe_port_setup(enable') \in Seq(Commands) /\ Len(poe_port_setup(enable')) > 0
    BY <2>1, SetupType
  <2>3. calls' \in 0..MaxCalls
    BY <2>1, PoeSizesAssumption DEF Call, TypeOK
  <2> QED
    BY <2>1, <2>2, <2>3
<1> QED
  BY <1>1, <1>2, <1>3, <1>4

LEMMA ClearTimeoutType == TypeOK /\ mcu_clear_timeout => TypeOK'
<1> SUFFICES ASSUME TypeOK, mcu_clear_timeout PROVE TypeOK'
  OBVIOUS
<1>1. toMcu' \in Seq(SentFrames)
  BY NextSends DEF TypeOK, mcu_clear_timeout
<1> QED
  BY <1>1 DEF TypeOK, mcu_clear_timeout, bounds, history

\* What is left to show of a callback that takes a frame.
LEMMA ConsumeType ==
  ASSUME TypeOK, NEW k \in 1..Len(line), NEW leaves \in BOOLEAN, Consume(k, leaves),
         cmd_pending' \in Seq(QueuedCommands), mcu_error_timeout' \in BOOLEAN,
         reported' \in [Ports -> BOOLEAN], served' \in [Ports -> BOOLEAN],
         mixedUp' \in BOOLEAN
  PROVE  TypeOK'
<1>1. rx' \in Seq(Halves) /\ line' \in Seq(Halves) /\ toMcu' \in Seq(SentFrames)
  BY ConsumeLines DEF TypeOK
<1> QED
  BY <1>1 DEF TypeOK, Consume, Read, bounds

LEMMA LeavesType ==
  ASSUME TypeOK, cmd_pending # <<>>, NEW answered \in BOOLEAN, Leaves(answered)
  PROVE  cmd_pending' \in Seq(QueuedCommands) /\ served' \in [Ports -> BOOLEAN]
BY DEF TypeOK, Leaves

\* The command that was rejected, put back with its retry counted.
LEMMA RejectedList ==
  ASSUME TypeOK, NEW k \in 1..Len(line), ReadRejected(k)
  PROVE  /\ cmd_pending' \in Seq(QueuedCommands)
         /\ Len(cmd_pending') = Len(cmd_pending)
<1> DEFINE c == cmd_pending[1]
           e == [c EXCEPT !.num_retries = IF mcu_error_timeout THEN @ ELSE @ + 1]
<1>1. 1 \in 1..Len(cmd_pending) /\ c \in QueuedCommands /\ Head(cmd_pending) = c
  BY DEF TypeOK, ReadRejected
<1>2. mcu_error_timeout \/ c.num_retries + 1 \in 0..MaxRetries
  <2>1. mcu_error_timeout \/ ~(c.num_retries >= MaxRetries)
    BY <1>1 DEF ReadRejected, Exhausted
  <2>2. c.num_retries \in 0..MaxRetries
    BY <1>1 DEF QueuedCommands
  <2> QED
    BY <2>1, <2>2, PoeSizesAssumption
<1>3. e \in QueuedCommands
  BY <1>1, <1>2 DEF QueuedCommands, TypeOK
<1>4. cmd_pending' = [cmd_pending EXCEPT ![1] = e]
  BY DEF ReadRejected
<1> HIDE DEF c, e
<1> QED
  BY <1>1, <1>3, <1>4, ExceptSeq DEF TypeOK

LEMMA ReadType ==
  ASSUME TypeOK, NEW k \in 1..Len(line),
         \/ ReadShort(k) \/ ReadUnsolicited(k) \/ ReadBad(k) \/ ReadRejected(k)
         \/ ReadAborted(k) \/ ReadOther(k) \/ ReadAnswer(k)
  PROVE  TypeOK'
<1>1. CASE ReadShort(k)
  <2>1. rx' \in Seq(Halves)
    BY <1>1, BufferType DEF ReadShort, TypeOK
  <2>2. line' \in Seq(Halves)
    <3>1. k + 1 \in 1..(Len(line) + 1) /\ Len(line) \in (k + 1 - 1)..Len(line)
      BY DEF TypeOK
    <3> QED
      BY <1>1, <3>1, SubSeqType DEF ReadShort, TypeOK
  <2> QED
    BY <1>1, <2>1, <2>2 DEF TypeOK, ReadShort, Read, bounds
<1>2. CASE ReadUnsolicited(k)
  BY <1>2, ConsumeType DEF ReadUnsolicited, TypeOK
<1>3. CASE ReadBad(k)
  <2>1. cmd_pending' \in Seq(QueuedCommands) /\ served' \in [Ports -> BOOLEAN]
    BY <1>3, LeavesType DEF ReadBad
  <2> QED
    BY <1>3, <2>1, ConsumeType DEF ReadBad, TypeOK
<1>4. CASE ReadRejected(k)
  <2>1. cmd_pending' \in Seq(QueuedCommands)
    BY <1>4, RejectedList
  <2> QED
    BY <1>4, <2>1, ConsumeType DEF ReadRejected, TypeOK
<1>5. CASE ReadAborted(k)
  <2>1. cmd_pending' \in Seq(QueuedCommands) /\ served' \in [Ports -> BOOLEAN]
    BY <1>5, LeavesType DEF ReadAborted
  <2> QED
    BY <1>5, <2>1, ConsumeType DEF ReadAborted, TypeOK
<1>6. CASE ReadOther(k)
  <2>1. cmd_pending' \in Seq(QueuedCommands) /\ served' \in [Ports -> BOOLEAN]
    BY <1>6, LeavesType DEF ReadOther
  <2> QED
    BY <1>6, <2>1, ConsumeType DEF ReadOther, TypeOK
<1>7. CASE ReadAnswer(k)
  <2>1. cmd_pending' \in Seq(QueuedCommands) /\ served' \in [Ports -> BOOLEAN]
    BY <1>7, LeavesType DEF ReadAnswer
  <2>2. Reply(k) \in Halves
    <3>1. Buffer(k) \in Seq(Halves) /\ Len(Buffer(k)) >= 2
      BY <1>7, BufferType DEF ReadAnswer, Whole, FrameComplete, TypeOK
    <3>2. 1 \in 1..Len(Buffer(k))
      BY <3>1
    <3> QED
      BY <3>1, <3>2 DEF Reply
  <2>3. Reply(k).seen \in [Ports -> BOOLEAN]
    BY <2>2 DEF Halves
  <2>4. reported' \in [Ports -> BOOLEAN] /\ mixedUp' \in BOOLEAN
    BY <1>7, <2>3 DEF ReadAnswer, poe_reply_4_port_status, TypeOK
  <2> QED
    BY <1>7, <2>1, <2>4, ConsumeType DEF ReadAnswer, TypeOK
<1> QED
  BY <1>1, <1>2, <1>3, <1>4, <1>5, <1>6, <1>7

LEMMA McuType == TypeOK /\ McuStep => TypeOK'
<1> SUFFICES ASSUME TypeOK, McuStep PROVE TypeOK'
  OBVIOUS
<1> DEFINE c == Head(toMcu)
<1>1. PICK kind \in {"ok", "f0"} :
        /\ toMcu # <<>>
        /\ toMcu' = Tail(toMcu)
        /\ line' = line \o <<Half(c, kind, 1), Half(c, kind, 2)>>
        /\ mcuOn' = [p \in Ports |-> IF kind = "ok" /\ c.id = "enable" /\ c.port = p
                                     THEN c.on ELSE mcuOn[p]]
        /\ UNCHANGED <<daemon, bounds, history>>
  BY DEF McuStep
<1>2. c \in SentFrames /\ toMcu' \in Seq(SentFrames)
  BY <1>1 DEF TypeOK
<1>3. /\ c.id \in CommandIds /\ c.port \in Nat /\ c.on \in BOOLEAN
      /\ c.seq \in 0..(SeqMod - 1) /\ c.life \in Lives
  BY <1>2 DEF SentFrames
<1> HIDE DEF c
<1>4. Half(c, kind, 1) \in Halves /\ Half(c, kind, 2) \in Halves
  BY <1>3 DEF Half, Halves, Dark, TypeOK
<1>5. line' \in Seq(Halves)
  BY <1>1, <1>4 DEF TypeOK
<1>6. mcuOn' \in [Ports -> BOOLEAN]
  BY <1>1, <1>3 DEF TypeOK
<1> QED
  BY <1>1, <1>2, <1>5, <1>6 DEF TypeOK, daemon, bounds, history

LEMMA JunkType == Junk \in Halves
BY PoeSizesAssumption DEF Junk, Halves, Dark, CommandIds, Lives

LEMMA FaultType == TypeOK /\ (Noise \/ Damage \/ Lose) => TypeOK'
<1> SUFFICES ASSUME TypeOK, Noise \/ Damage \/ Lose PROVE TypeOK'
  OBVIOUS
<1>1. faults' \in 0..MaxFaults
  BY PoeSizesAssumption DEF TypeOK, Noise, Damage, Lose, Fault
<1>2. CASE Noise
  <2>1. line' \in Seq(Halves) /\ noise' \in Nat
    BY <1>2, JunkType DEF TypeOK, Noise
  <2> QED
    BY <1>1, <1>2, <2>1 DEF TypeOK, Noise, daemon
<1>3. CASE Damage
  <2>1. PICK j \in 1..Len(line) : line' = [line EXCEPT ![j] = Junk]
    BY <1>3 DEF Damage
  <2>2. line' \in Seq(Halves)
    BY <2>1, JunkType, ExceptSeq DEF TypeOK
  <2> QED
    BY <1>1, <1>3, <2>2 DEF TypeOK, Damage, daemon, history
<1>4. CASE Lose
  <2>1. line' \in Seq(Halves) /\ toMcu' \in Seq(SentFrames) /\ lost' \in Nat
    <3>1. CASE line # <<>> /\ line' = Tail(line) /\ lost' = lost + 1 /\ toMcu' = toMcu
      BY <3>1 DEF TypeOK
    <3>2. CASE toMcu # <<>> /\ toMcu' = Tail(toMcu) /\ lost' = lost + 2 /\ line' = line
      BY <3>2 DEF TypeOK
    <3> QED
      BY <1>4, <3>1, <3>2 DEF Lose
  <2> QED
    BY <1>1, <1>4, <2>1 DEF TypeOK, Lose, daemon
<1> QED
  BY <1>2, <1>3, <1>4

\* What a restart leaves on the lines: the frames that are out, and its own
\* first command.
LEMMA RestartLines ==
  ASSUME TypeOK, Restart
  PROVE  /\ TypeOK'
         /\ Len(toMcu') = Len(toMcu) + 1 /\ rx' = <<>> /\ Awaiting'
         /\ noise' = 2 * Len(toMcu) + Len(line') /\ lost' = 0
<1>1. PICK k \in 0..Len(line) :
        LET late == Former(SubSeq(line, k + 1, Len(line)))
        IN line' = late /\ noise' = 2 * Len(toMcu) + Len(late)
  BY DEF Restart
<1>2. line' \in Seq(Halves) /\ noise' = 2 * Len(toMcu) + Len(line')
  <2>1. k + 1 \in 1..(Len(line) + 1) /\ Len(line) \in (k + 1 - 1)..Len(line)
    BY DEF TypeOK
  <2>2. SubSeq(line, k + 1, Len(line)) \in Seq(Halves)
    BY <2>1, SubSeqType DEF TypeOK
  <2> QED
    BY <1>1, <2>2, FormerType
<1>3. noise' \in Nat
  BY <1>2 DEF TypeOK
<1> DEFINE setup == poe_initial_setup(enable')
<1>4. enable' \in [Ports -> BOOLEAN]
  BY DEF Restart, config_load
<1>5. setup \in Seq(Commands) /\ Len(setup) > 0
  BY <1>4, SetupType
<1>6. cmd_pending' = Stamped(setup, 0) /\ cmd_seq' = Len(setup) % SeqMod
  BY DEF Restart
<1> HIDE DEF setup
<1>7. cmd_pending' \in Seq(QueuedCommands) /\ cmd_pending' # <<>>
  <2>1. Stamped(setup, 0) \in Seq(QueuedCommands) /\ Len(Stamped(setup, 0)) = Len(setup)
    BY <1>5, StampedType
  <2> QED
    BY <1>5, <1>6, <2>1
<1>8. cmd_seq' \in 0..(SeqMod - 1)
  BY <1>5, <1>6, PoeSizesAssumption
<1>9. toMcu' \in Seq(SentFrames) /\ Len(toMcu') = Len(toMcu) + 1
  <2>1. Head(cmd_pending') \in QueuedCommands
    BY <1>7
  <2>2. Frame(Head(cmd_pending')) \in SentFrames
    BY <2>1 DEF Frame, QueuedCommands, SentFrames, Lives
  <2>3. Former(toMcu) \in Seq(SentFrames) /\ Len(Former(toMcu)) = Len(toMcu)
    BY FormerType DEF TypeOK
  <2>4. toMcu' = Append(Former(toMcu), Frame(Head(cmd_pending')))
    BY DEF Restart
  <2> QED
    BY <2>2, <2>3, <2>4
<1>10. rx' = <<>> /\ lost' = 0 /\ mcu_error_timeout' = FALSE
  BY DEF Restart
<1>11. Awaiting'
  BY <1>7, <1>10 DEF Awaiting
<1>12. /\ reported' \in [Ports -> BOOLEAN] /\ served' \in [Ports -> BOOLEAN]
       /\ want' \in [Ports -> BOOLEAN]
  <2>1. /\ reported' = [p \in Ports |-> FALSE] /\ served' = [p \in Ports |-> FALSE]
        /\ want' = enable'
    BY DEF Restart
  <2> QED
    BY <1>4, <2>1
<1>13. restarts' \in 0..MaxRestarts
  <2>1. restarts < MaxRestarts /\ restarts' = restarts + 1
    BY DEF Restart
  <2> QED
    BY <2>1, PoeSizesAssumption DEF TypeOK
<1>14. UNCHANGED <<mcuOn, calls, faults, mixedUp>>
  BY DEF Restart
<1>15. rx' \in Seq(Halves) /\ lost' \in Nat
  BY <1>10
<1>16. mcu_error_timeout' \in BOOLEAN
  BY <1>10
<1>17. TypeOK'
  BY <1>2, <1>3, <1>4, <1>7, <1>8, <1>9, <1>12, <1>13, <1>14, <1>15, <1>16 DEF TypeOK
<1> QED
  BY <1>2, <1>9, <1>10, <1>11, <1>17

LEMMA NextType == TypeOK /\ [Next]_vars => TypeOK'
<1> SUFFICES ASSUME TypeOK, [Next]_vars PROVE TypeOK'
  OBVIOUS
<1>1. CASE state_timeout_cb \/ ubus_poe_manage_cb \/ ubus_poe_sendframe_cb \/ ubus_poe_reload_cb
  BY <1>1, CallBatches, QueueType
<1>2. CASE mcu_clear_timeout
  BY <1>2, ClearTimeoutType
<1>3. CASE ReadStep
  BY <1>3, ReadType DEF ReadStep
<1>4. CASE McuStep
  BY <1>4, McuType
<1>5. CASE Noise \/ Damage \/ Lose
  BY <1>5, FaultType
<1>6. CASE Restart
  BY <1>6, RestartLines
<1>7. CASE UNCHANGED vars
  BY <1>7 DEF TypeOK, vars, daemon, bounds, history
<1> QED
  BY <1>1, <1>2, <1>3, <1>4, <1>5, <1>6, <1>7 DEF Next

\* The variables of the PoE daemon and of the line keep to their types; in
\* particular a command is rejected and sent again MAX_RETRIES times at most.
THEOREM QueueTypeCorrect == Spec => []TypeOK
BY InitType, NextType, PTL DEF Spec

-----------------------------------------------------------------------------
(***************************************************************************)
(* The account of the line.  A command that waits for its answer is owed   *)
(* one frame.  What is on the way is this frame, and noise; what is        *)
(* missing was lost.  poe_stream_msg_cb takes a frame and, if it leaves a  *)
(* command waiting, sends one, so it keeps the balance.  NeverStuck needs  *)
(* the account: a read that empties the line leaves two halves in the      *)
(* buffer if a command waits, so the callback does take a frame.           *)
(***************************************************************************)
Owed == IF Awaiting THEN 2 ELSE 0
LineAccount == OnTheWay + lost >= Owed /\ OnTheWay <= Owed + noise
LineInv == TypeOK /\ LineAccount /\ NeverStuck

\* The sums of the account.
LEMMA AccountTypes ==
  ASSUME TypeOK
  PROVE  /\ OnTheWay \in Nat /\ Owed \in {0, 2} /\ noise \in Nat /\ lost \in Nat
         /\ Len(toMcu) \in Nat /\ Len(line) \in Nat /\ Len(rx) \in Nat
BY DEF TypeOK, OnTheWay, Owed

\* A callback that takes a frame keeps the balance.
LEMMA ConsumeAccount ==
  ASSUME LineInv, TypeOK', NEW k \in 1..Len(line), NEW leaves \in BOOLEAN,
         Consume(k, leaves), Awaiting' => Awaiting
  PROVE  LineAccount' /\ NeverStuck'
<1>1. /\ Len(rx') + Len(line') + 2 = Len(rx) + Len(line)
      /\ Len(toMcu') = Len(toMcu) + (IF Awaiting' THEN 1 ELSE 0)
  BY ConsumeLines DEF LineInv, TypeOK
<1>2. /\ OnTheWay \in Nat /\ OnTheWay' \in Nat /\ noise \in Nat /\ lost \in Nat
      /\ Len(toMcu) \in Nat /\ Len(line) \in Nat /\ Len(rx) \in Nat
      /\ Len(toMcu') \in Nat /\ Len(line') \in Nat /\ Len(rx') \in Nat
  <2>1. /\ Len(toMcu') \in Nat /\ Len(line') \in Nat /\ Len(rx') \in Nat
    BY DEF TypeOK
  <2>2. OnTheWay' \in Nat
    BY <2>1 DEF OnTheWay
  <2> QED
    BY <2>1, <2>2, AccountTypes DEF LineInv
<1>3. noise' = noise /\ lost' = lost
  BY DEF Consume, Read
<1>4. OnTheWay' + 2 = OnTheWay + Owed'
  <2>1. PICK t \in Nat, l \in Nat, x \in Nat, t1 \in Nat, l1 \in Nat, x1 \in Nat :
          /\ t = Len(toMcu) /\ l = Len(line) /\ x = Len(rx)
          /\ t1 = Len(toMcu') /\ l1 = Len(line') /\ x1 = Len(rx')
    BY <1>2
  <2>2. OnTheWay = 2 * t + l + x /\ OnTheWay' = 2 * t1 + l1 + x1
    BY <2>1 DEF OnTheWay
  <2>3. x1 + l1 + 2 = x + l
    BY <1>1, <2>1
  <2>4. CASE Awaiting'
    <3>1. t1 = t + 1 /\ Owed' = 2
      BY <1>1, <2>1, <2>4 DEF Owed
    <3> QED
      BY <2>2, <2>3, <3>1
  <2>5. CASE ~Awaiting'
    <3>1. t1 = t /\ Owed' = 0
      BY <1>1, <2>1, <2>5 DEF Owed
    <3> QED
      BY <2>2, <2>3, <3>1
  <2> QED
    BY <2>4, <2>5
<1>5. LineAccount'
  <2>1. Owed \in {0, 2} /\ Owed' \in {0, 2} /\ (Owed = 0 => Owed' = 0)
    BY DEF Owed
  <2>2. OnTheWay + lost >= Owed /\ OnTheWay <= Owed + noise
    BY DEF LineInv, LineAccount
  <2>3. OnTheWay' + lost >= Owed' /\ OnTheWay' <= Owed' + noise
    <3>1. PICK o \in Nat, o1 \in Nat, d \in {0, 2}, d1 \in {0, 2} :
            o = OnTheWay /\ o1 = OnTheWay' /\ d = Owed /\ d1 = Owed'
      BY <1>2, <2>1
    <3>2. /\ o1 + 2 = o + d1 /\ o + lost >= d /\ o <= d + noise
          /\ d = 0 => d1 = 0
      BY <1>4, <2>1, <2>2, <3>1
    <3>3. o1 + lost >= d1 /\ o1 <= d1 + noise
      BY <1>2, <3>2
    <3> QED
      BY <3>1, <3>3
  <2> QED
    BY <1>3, <2>3 DEF LineAccount
<1>6. NeverStuck'
  <2> SUFFICES ASSUME Awaiting' PROVE toMcu' # <<>>
    BY DEF NeverStuck
  <2>1. Len(toMcu') > 0
    BY <1>1, <1>2
  <2> QED
    BY <2>1
<1> QED
  BY <1>5, <1>6

\* The account when nothing but the lengths of the lines and the waiting
\* command matter.
LEMMA InitAccount == Init => LineInv
<1> SUFFICES ASSUME Init PROVE LineInv
  OBVIOUS
<1>1. TypeOK
  BY InitType
<1>2. Len(toMcu) = 1 /\ Len(line) = 0 /\ Len(rx) = 0 /\ toMcu # <<>>
  BY DEF Init
<1>3. cmd_pending # <<>>
  <2>1. poe_initial_setup(enable) \in Seq(Commands) /\ Len(poe_initial_setup(enable)) > 0
    BY SetupType DEF Init, config_load
  <2>2. Len(Stamped(poe_initial_setup(enable), 0)) > 0
    BY <2>1, StampedType
  <2> QED
    BY <2>2 DEF Init
<1>4. Awaiting /\ noise = 0 /\ lost = 0
  BY <1>3 DEF Awaiting, Init
<1>5. OnTheWay = 2 /\ Owed = 2
  BY <1>2, <1>4 DEF OnTheWay, Owed
<1> QED
  BY <1>1, <1>2, <1>4, <1>5 DEF LineInv, LineAccount, NeverStuck

\* A step that changes what is on the way by as much as what is owed.
LEMMA Balanced ==
  ASSUME LineInv, TypeOK', noise' = noise, lost' = lost,
         OnTheWay' + Owed = OnTheWay + Owed'
  PROVE  LineAccount'
<1>1. /\ OnTheWay \in Nat /\ noise \in Nat /\ lost \in Nat
  BY AccountTypes DEF LineInv
<1>2. OnTheWay' \in Nat
  <2>1. /\ Len(toMcu') \in Nat /\ Len(line') \in Nat /\ Len(rx') \in Nat
    BY DEF TypeOK
  <2> QED
    BY <2>1 DEF OnTheWay
<1>3. PICK o \in Nat, o1 \in Nat, d \in {0, 2}, d1 \in {0, 2} :
        o = OnTheWay /\ o1 = OnTheWay' /\ d = Owed /\ d1 = Owed'
  BY <1>1, <1>2 DEF Owed
<1>4. o1 + d = o + d1 /\ o + lost >= d /\ o <= d + noise
  BY <1>3 DEF LineInv, LineAccount
<1>5. o1 + lost >= d1 /\ o1 <= d1 + noise
  BY <1>1, <1>4
<1> QED
  BY <1>3, <1>5 DEF LineAccount

LEMMA QueueAccount ==
  ASSUME LineInv, TypeOK', NEW batch \in Seq(Commands), Len(batch) > 0, poe_cmd_queue(batch)
  PROVE  LineAccount' /\ NeverStuck'
<1>1. /\ Len(toMcu') = Len(toMcu) + (IF ~Awaiting /\ Awaiting' THEN 1 ELSE 0)
      /\ Awaiting => Awaiting'
  BY QueueSends DEF LineInv
<1>2. line' = line /\ rx' = rx /\ noise' = noise /\ lost' = lost
  BY DEF poe_cmd_queue
<1>3. PICK t \in Nat, n \in Nat : t = Len(toMcu) /\ n = Len(line) + Len(rx)
                                  /\ OnTheWay = 2 * t + n
  BY AccountTypes DEF LineInv, OnTheWay
<1>4. PICK t1 \in Nat : t1 = Len(toMcu') /\ OnTheWay' = 2 * t1 + n
  <2>1. Len(toMcu') \in Nat
    BY DEF TypeOK
  <2>2. OnTheWay' = 2 * Len(toMcu') + Len(line) + Len(rx)
    BY <1>2 DEF OnTheWay
  <2>3. Len(line) \in Nat /\ Len(rx) \in Nat
    BY AccountTypes DEF LineInv
  <2> QED
    BY <1>3, <2>1, <2>2, <2>3
<1>5. CASE ~Awaiting /\ Awaiting'
  <2>1. t1 = t + 1 /\ Owed = 0 /\ Owed' = 2
    BY <1>1, <1>3, <1>4, <1>5 DEF Owed
  <2>2. OnTheWay' + Owed = OnTheWay + Owed'
    BY <1>3, <1>4, <2>1
  <2>3. toMcu' # <<>>
    <3>1. Len(toMcu') > 0
      BY <1>4, <2>1
    <3> QED
      BY <3>1
  <2> QED
    BY <1>2, <2>2, <2>3, Balanced DEF NeverStuck
<1>6. CASE Awaiting <=> Awaiting'
  <2>1. t1 = t /\ Owed = Owed' /\ Owed \in Nat
    BY <1>1, <1>3, <1>4, <1>6 DEF Owed
  <2>2. OnTheWay' + Owed = OnTheWay + Owed'
    BY <1>3, <1>4, <2>1
  <2>3. NeverStuck'
    <3>1. ASSUME toMcu # <<>> PROVE toMcu' # <<>>
      <4>1. t > 0
        BY <1>3, <3>1 DEF LineInv, TypeOK
      <4>2. Len(toMcu') > 0
        BY <1>4, <2>1, <4>1
      <4> QED
        BY <4>2
    <3> QED
      BY <1>2, <1>6, <3>1 DEF LineInv, NeverStuck
  <2> QED
    BY <1>2, <2>2, <2>3, Balanced
<1> QED
  BY <1>1, <1>5, <1>6

LEMMA ClearTimeoutAccount ==
  ASSUME LineInv, TypeOK', mcu_clear_timeout
  PROVE  LineAccount' /\ NeverStuck'
<1>1. /\ toMcu' = poe_cmd_next(toMcu, cmd_pending, FALSE)
      /\ cmd_pending' = cmd_pending /\ line' = line /\ rx' = rx
      /\ noise' = noise /\ lost' = lost
      /\ mcu_error_timeout /\ ~mcu_error_timeout'
  BY DEF mcu_clear_timeout, history
<1>2. ~Awaiting /\ (Awaiting' <=> cmd_pending # <<>>)
  BY <1>1 DEF Awaiting
<1>3. Len(toMcu') = Len(toMcu) + (IF Awaiting' THEN 1 ELSE 0)
  BY <1>1, <1>2, NextSends DEF LineInv, TypeOK
<1>4. PICK t \in Nat, l \in Nat, x \in Nat : t = Len(toMcu) /\ l = Len(line) /\ x = Len(rx)
  BY AccountTypes DEF LineInv
<1>5. OnTheWay = 2 * t + l + x /\ OnTheWay' = 2 * Len(toMcu') + l + x
  BY <1>1, <1>4 DEF OnTheWay
<1>6. CASE Awaiting'
  <2>1. Len(toMcu') = t + 1 /\ Owed = 0 /\ Owed' = 2
    BY <1>2, <1>3, <1>4, <1>6 DEF Owed
  <2>2. OnTheWay' + Owed = OnTheWay + Owed'
    BY <1>5, <2>1
  <2>3. toMcu' # <<>>
    BY <2>1
  <2> QED
    BY <1>1, <2>2, <2>3, Balanced DEF NeverStuck
<1>7. CASE ~Awaiting'
  <2>1. Len(toMcu') = t /\ Owed = 0 /\ Owed' = 0
    BY <1>2, <1>3, <1>4, <1>7 DEF Owed
  <2>2. OnTheWay' + Owed = OnTheWay + Owed'
    BY <1>5, <2>1
  <2> QED
    BY <1>1, <1>7, <2>2, Balanced DEF NeverStuck
<1> QED
  BY <1>6, <1>7

\* A read that does not complete a frame; if it empties the line although a
\* command waits, the account says that the frame was complete.
LEMMA ShortAccount ==
  ASSUME LineInv, TypeOK', NEW k \in 1..Len(line), ReadShort(k)
  PROVE  LineAccount' /\ NeverStuck'
<1>1. /\ toMcu' = toMcu /\ noise' = noise /\ lost' = lost
      /\ Awaiting' <=> Awaiting
      /\ Owed' = Owed /\ Owed \in Nat
  BY DEF ReadShort, Read, Awaiting, Owed
<1>2. rx' = Buffer(k) /\ Len(rx') = Len(rx) + k /\ ~(Len(rx') >= 2)
  BY BufferType DEF ReadShort, FrameComplete, LineInv, TypeOK
<1>3. Len(line') = Len(line) - k
  <2>1. k + 1 \in 1..(Len(line) + 1) /\ Len(line) \in (k + 1 - 1)..Len(line)
    BY DEF LineInv, TypeOK
  <2> QED
    BY <2>1, SubSeqType DEF ReadShort, LineInv, TypeOK
<1>4. PICK t \in Nat, l \in Nat, x \in Nat : t = Len(toMcu) /\ l = Len(line) /\ x = Len(rx)
  BY AccountTypes DEF LineInv
<1>5. PICK l1 \in Nat, x1 \in Nat : l1 = Len(line') /\ x1 = Len(rx')
  BY DEF TypeOK
<1>6. l1 = l - k /\ x1 = x + k /\ k \in Nat /\ x1 < 2
  BY <1>2, <1>3, <1>4, <1>5
<1>7. OnTheWay = 2 * t + l + x /\ OnTheWay' = 2 * t + l1 + x1
  BY <1>1, <1>4, <1>5 DEF OnTheWay
<1>8. OnTheWay' = OnTheWay
  BY <1>6, <1>7
<1>9. LineAccount'
  BY <1>1, <1>8, AccountTypes, Balanced DEF LineInv
<1>10. NeverStuck'
  <2> SUFFICES ASSUME lost' = 0, Awaiting', toMcu' = <<>>, line' = <<>> PROVE FALSE
    BY DEF NeverStuck
  <2>1. Owed = 2 /\ lost = 0
    BY <1>1 DEF Owed
  <2>2. t = 0 /\ l1 = 0
    BY <1>1, <1>4, <1>5
  <2>3. OnTheWay >= 2
    BY <2>1, AccountTypes DEF LineInv, LineAccount
  <2> QED
    BY <1>6, <1>7, <1>8, <2>2, <2>3
<1> QED
  BY <1>9, <1>10

LEMMA ReadAccount ==
  ASSUME LineInv, TypeOK', NEW k \in 1..Len(line),
         \/ ReadShort(k) \/ ReadUnsolicited(k) \/ ReadBad(k) \/ ReadRejected(k)
         \/ ReadAborted(k) \/ ReadOther(k) \/ ReadAnswer(k)
  PROVE  LineAccount' /\ NeverStuck'
<1>1. CASE ReadShort(k)
  BY <1>1, ShortAccount
<1>2. CASE ReadUnsolicited(k)
  <2>1. Awaiting' => Awaiting
    BY <1>2 DEF ReadUnsolicited, Awaiting
  <2> QED
    BY <1>2, <2>1, ConsumeAccount DEF ReadUnsolicited
<1>3. CASE ReadBad(k)
  <2>1. Awaiting' => Awaiting
    BY <1>3 DEF ReadBad, Awaiting
  <2> QED
    BY <1>3, <2>1, ConsumeAccount DEF ReadBad
<1>4. CASE ReadRejected(k)
  <2>1. Awaiting' => Awaiting
    BY <1>4 DEF ReadRejected, Awaiting
  <2> QED
    BY <1>4, <2>1, ConsumeAccount DEF ReadRejected
<1>5. CASE ReadAborted(k)
  <2>1. Awaiting' => Awaiting
    BY <1>5 DEF ReadAborted, Awaiting
  <2> QED
    BY <1>5, <2>1, ConsumeAccount DEF ReadAborted
<1>6. CASE ReadOther(k)
  <2>1. Awaiting' => Awaiting
    BY <1>6 DEF ReadOther, Awaiting
  <2> QED
    BY <1>6, <2>1, ConsumeAccount DEF ReadOther
<1>7. CASE ReadAnswer(k)
  <2>1. Awaiting' => Awaiting
    BY <1>7 DEF ReadAnswer, Awaiting
  <2> QED
    BY <1>7, <2>1, ConsumeAccount DEF ReadAnswer
<1> QED
  BY <1>1, <1>2, <1>3, <1>4, <1>5, <1>6, <1>7

\* The MCU turns a command on the way into an answer on the way.
LEMMA McuAccount ==
  ASSUME LineInv, TypeOK', McuStep
  PROVE  LineAccount' /\ NeverStuck'
<1>1. /\ noise' = noise /\ lost' = lost /\ rx' = rx
      /\ Awaiting' <=> Awaiting
      /\ Owed' = Owed /\ Owed \in Nat
  BY DEF McuStep, daemon, history, Awaiting, Owed
<1>2. PICK kind \in {"ok", "f0"} :
        /\ toMcu # <<>> /\ toMcu' = Tail(toMcu)
        /\ line' = line \o <<Half(Head(toMcu), kind, 1), Half(Head(toMcu), kind, 2)>>
  BY DEF McuStep
<1>3. Len(toMcu') = Len(toMcu) - 1
  BY <1>2 DEF LineInv, TypeOK
<1>4. Len(line') = Len(line) + 2
  BY <1>2 DEF LineInv, TypeOK
<1>5. PICK t \in Nat, l \in Nat, x \in Nat : t = Len(toMcu) /\ l = Len(line) /\ x = Len(rx)
  BY AccountTypes DEF LineInv
<1>6. OnTheWay = 2 * t + l + x /\ OnTheWay' = 2 * (t - 1) + (l + 2) + x
  BY <1>1, <1>3, <1>4, <1>5 DEF OnTheWay
<1>7. OnTheWay' = OnTheWay
  BY <1>6
<1>8. LineAccount'
  BY <1>1, <1>7, AccountTypes, Balanced DEF LineInv
<1>9. line' # <<>>
  <2>1. Len(line') > 0
    BY <1>4, <1>5
  <2> QED
    BY <2>1
<1> QED
  BY <1>8, <1>9 DEF NeverStuck

LEMMA FaultAccount ==
  ASSUME LineInv, TypeOK', Noise \/ Damage \/ Lose
  PROVE  LineAccount' /\ NeverStuck'
<1>1. PICK t \in Nat, l \in Nat, x \in Nat : t = Len(toMcu) /\ l = Len(line) /\ x = Len(rx)
  BY AccountTypes DEF LineInv
<1>2. /\ rx' = rx /\ (Awaiting' <=> Awaiting) /\ Owed' = Owed
  BY DEF Noise, Damage, Lose, daemon, Awaiting, Owed
<1>3. PICK d \in {0, 2} : d = Owed
  BY DEF Owed
<1>4. noise \in Nat /\ lost \in Nat /\ OnTheWay = 2 * t + l + x
  BY <1>1 DEF LineInv, TypeOK, OnTheWay
<1>5. 2 * t + l + x + lost >= d /\ 2 * t + l + x <= d + noise
  BY <1>3, <1>4 DEF LineInv, LineAccount
<1>6. CASE Noise
  <2>1. Len(line') = l + 1 /\ toMcu' = toMcu /\ noise' = noise + 1 /\ lost' = lost
    BY <1>1, <1>6 DEF Noise, LineInv, TypeOK
  <2>2. OnTheWay' = 2 * t + (l + 1) + x
    BY <1>1, <1>2, <2>1 DEF OnTheWay
  <2>3. OnTheWay' + lost >= d /\ OnTheWay' <= d + (noise + 1)
    BY <1>4, <1>5, <2>2
  <2>4. line' # <<>>
    <3>1. Len(line') > 0
      BY <2>1
    <3> QED
      BY <3>1
  <2> QED
    BY <1>2, <1>3, <2>1, <2>3, <2>4 DEF LineAccount, NeverStuck
<1>7. CASE Damage
  <2>1. PICK j \in 1..Len(line) : line' = [line EXCEPT ![j] = Junk]
    BY <1>7 DEF Damage
  <2>2. Len(line') = l /\ toMcu' = toMcu /\ noise' = noise /\ lost' = lost
    <3>1. line \in Seq(Halves)
      BY DEF LineInv, TypeOK
    <3>2. Len([line EXCEPT ![j] = Junk]) = Len(line)
      BY <3>1, JunkType, ExceptSeq
    <3> QED
      BY <1>1, <1>7, <2>1, <3>2 DEF Damage, history
  <2>3. OnTheWay' = 2 * t + l + x
    BY <1>1, <1>2, <2>2 DEF OnTheWay
  <2>4. OnTheWay' + lost >= d /\ OnTheWay' <= d + noise
    BY <1>5, <2>3
  <2>5. line' # <<>>
    <3>1. Len(line') > 0
      BY <1>1, <2>1, <2>2
    <3> QED
      BY <3>1
  <2> QED
    BY <1>2, <1>3, <2>2, <2>4, <2>5 DEF LineAccount, NeverStuck
<1>8. CASE Lose
  <2>1. noise' = noise
    BY <1>8 DEF Lose
  <2>2. CASE line # <<>> /\ line' = Tail(line) /\ lost' = lost + 1 /\ toMcu' = toMcu
    <3>1. Len(line') = l - 1 /\ l > 0
      BY <1>1, <2>2 DEF LineInv, TypeOK
    <3>2. OnTheWay' = 2 * t + (l - 1) + x
      BY <1>1, <1>2, <2>2, <3>1 DEF OnTheWay
    <3>3. OnTheWay' + (lost + 1) >= d /\ OnTheWay' <= d + noise /\ lost + 1 # 0
      BY <1>4, <1>5, <3>2
    <3> QED
      BY <1>2, <1>3, <2>1, <2>2, <3>3 DEF LineAccount, NeverStuck
  <2>3. CASE toMcu # <<>> /\ toMcu' = Tail(toMcu) /\ lost' = lost + 2 /\ line' = line
    <3>1. Len(toMcu') = t - 1 /\ t > 0
      BY <1>1, <2>3 DEF LineInv, TypeOK
    <3>2. OnTheWay' = 2 * (t - 1) + l + x
      BY <1>1, <1>2, <2>3, <3>1 DEF OnTheWay
    <3>3. OnTheWay' + (lost + 2) >= d /\ OnTheWay' <= d + noise /\ lost + 2 # 0
      BY <1>4, <1>5, <3>2
    <3> QED
      BY <1>2, <1>3, <2>1, <2>3, <3>3 DEF LineAccount, NeverStuck
  <2> QED
    BY <1>8, <2>2, <2>3 DEF Lose
<1> QED
  BY <1>6, <1>7, <1>8

\* After a restart all that is left on the lines counts as noise.
LEMMA RestartAccount ==
  ASSUME LineInv, Restart
  PROVE  LineAccount' /\ NeverStuck'
<1>1. /\ TypeOK'
      /\ Len(toMcu') = Len(toMcu) + 1 /\ rx' = <<>> /\ Awaiting'
      /\ noise' = 2 * Len(toMcu) + Len(line') /\ lost' = 0
  BY RestartLines DEF LineInv
<1>2. PICK t \in Nat, l1 \in Nat : t = Len(toMcu) /\ l1 = Len(line')
  <2>1. Len(toMcu) \in Nat
    BY AccountTypes DEF LineInv
  <2>2. Len(line') \in Nat
    BY <1>1 DEF TypeOK
  <2>3. QED
    BY <2>1, <2>2
<1>3. Owed' = 2 /\ Len(rx') = 0
  BY <1>1 DEF Owed
<1>4. OnTheWay' = 2 * (t + 1) + l1 + 0
  BY <1>1, <1>2, <1>3 DEF OnTheWay
<1>5. OnTheWay' + 0 >= 2 /\ OnTheWay' <= 2 + (2 * t + l1)
  BY <1>4
<1>6. toMcu' # <<>>
  <2>1. Len(toMcu') > 0
    BY <1>1, <1>2
  <2> QED
    BY <2>1
<1> QED
  BY <1>1, <1>2, <1>3, <1>5, <1>6 DEF LineAccount, NeverStuck

LEMMA NextAccount == LineInv /\ [Next]_vars => LineInv'
<1> SUFFICES ASSUME LineInv, [Next]_vars PROVE LineInv'
  OBVIOUS
<1>0. TypeOK'
  BY NextType DEF LineInv
<1>1. CASE state_timeout_cb \/ ubus_poe_manage_cb \/ ubus_poe_sendframe_cb \/ ubus_poe_reload_cb
  <2>1. PICK batch \in Seq(Commands) : Len(batch) > 0 /\ poe_cmd_queue(batch)
    BY <1>1, CallBatches DEF LineInv
  <2> QED
    BY <1>0, <2>1, QueueAccount DEF LineInv
<1>2. CASE mcu_clear_timeout
  BY <1>0, <1>2, ClearTimeoutAccount DEF LineInv
<1>3. CASE ReadStep
  BY <1>0, <1>3, ReadAccount DEF ReadStep, LineInv
<1>4. CASE McuStep
  BY <1>0, <1>4, McuAccount DEF LineInv
<1>5. CASE Noise \/ Damage \/ Lose
  BY <1>0, <1>5, FaultAccount DEF LineInv
<1>6. CASE Restart
  BY <1>0, <1>6, RestartAccount DEF LineInv
<1>7. CASE UNCHANGED vars
  BY <1>0, <1>7 DEF LineInv, LineAccount, NeverStuck, OnTheWay, Owed, Awaiting,
                    vars, daemon, history
<1> QED
  BY <1>1, <1>2, <1>3, <1>4, <1>5, <1>6, <1>7 DEF Next

LEMMA AccountHolds == Spec => []LineInv
BY InitAccount, NextAccount, PTL DEF Spec

\* Unless an answer is lost, the list of commands never waits for a callback
\* that will not come, whatever noise, rejections and restarts do.
THEOREM NoStall == Spec => []NeverStuck
<1>1. LineInv => NeverStuck
  BY DEF LineInv
<1> QED
  BY <1>1, AccountHolds, PTL

\* On a line without faults the daemon has one exchange with the MCU at a time.
THEOREM ExchangesAlternate == Spec => []OneExchange
<1>1. LineInv => OneExchange
  <2> SUFFICES ASSUME LineInv, noise = 0, lost = 0 PROVE OnTheWay = Owed
    BY DEF OneExchange, Owed
  <2>1. OnTheWay \in Nat /\ Owed \in {0, 2}
    BY AccountTypes DEF LineInv
  <2> QED
    BY <2>1 DEF LineInv, LineAccount
<1> QED
  BY <1>1, AccountHolds, PTL
=============================================================================
