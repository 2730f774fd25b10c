------------------------------ MODULE PoeQueue ------------------------------
(***************************************************************************)
(* The PoE controller daemon, realtek-poe-tfortis/src/main.c: it configures *)
(* and polls the PoE microcontroller (MCU) over a serial line.  Commands   *)
(* wait in the list cmd_pending; the first one is on the line, and the     *)
(* next is sent when a reply has come in.  A reply 0xf0..0xff rejects the  *)
(* command, which is sent again after 100 ms, MAX_RETRIES times at most.   *)
(* There is no timeout for a reply that does not come.                     *)
(*                                                                         *)
(* The daemon is one uloop thread; each of its callbacks is an action.     *)
(* Frames of 12 bytes are cut into two halves, because a read of the line  *)
(* may end inside a frame or return several, and poe_stream_msg_cb handles *)
(* one frame for each read.  The MCU, the line and its faults, and procd,  *)
(* which starts the daemon again, are the environment.                     *)
(***************************************************************************)
EXTENDS Naturals, Sequences, FiniteSets

CONSTANTS
  PortCount,    \* config.port_count
  SeqMod,       \* 2^8: the width of cmd_seq
  MaxRetries,   \* MAX_RETRIES
  RawCommands,  \* what the ubus method sendframe may be asked to send
  MaxPending,   \* bound: no ubus call or poll that makes cmd_pending longer
  MaxCalls,     \* bound: ubus calls
  MaxFaults,    \* bound: faults of the line
  MaxRestarts   \* bound: restarts of the daemon

Ports == 0..(PortCount - 1)

CommandIds ==
  {"status", "mgmt_mode", "port_mapping", "power_budget",
   "priority", "classification", "limit_type", "enable",
   "power_stats", "4_port_status", "port_config", "ext_config",
   "port_power_stats", "raw"}

Commands == [id : CommandIds, port : Nat, on : BOOLEAN]

ASSUME PoeSizesAssumption ==
  /\ PortCount \in Nat \ {0}
  /\ SeqMod \in Nat \ {0}
  /\ MaxRetries \in Nat
  /\ RawCommands \subseteq Commands
  /\ {MaxPending, MaxCalls, MaxFaults, MaxRestarts} \subseteq Nat

VARIABLES
  cmd_pending,        \* the list of commands, each with its num_retries
  cmd_seq,            \* the sequence number given last
  mcu_error_timeout,  \* state.mcu_error_timeout.pending
  enable,             \* config.ports[i].enable
  reported,           \* state.ports[i].status: is power delivered
  rx,                 \* the read buffer of the stream, in halves
  \* the environment
  toMcu,              \* commands on their way to the MCU
  line,               \* replies on their way back, in halves
  mcuOn,              \* which ports the MCU powers
  calls, faults, restarts,
  \* history
  noise,              \* halves on the line that answer nothing of this life
  lost,               \* halves of answers that were lost
  want,               \* the last enable command given for each port
  served,             \* was the last finished enable command answered
  mixedUp             \* a handler was given the answer to another command

daemon  == <<cmd_pending, cmd_seq, mcu_error_timeout, enable, reported, rx>>
bounds  == <<calls, faults, restarts>>
history == <<noise, lost, want, served, mixedUp>>
vars == <<daemon, toMcu, line, mcuOn, bounds, history>>

\* "live" is the answer to the first command of the list, "stale" that to a
\* command that has left the list, "former" what an earlier life has left.
Lives == {"live", "stale", "former"}
Frame(c) == [id |-> c.id, port |-> c.port, on |-> c.on, seq |-> c.seq, life |-> "live"]
-----------------------------------------------------------------------------
(***************************************************************************)
(* What the callbacks queue.  power_budget of a port is never set, so the  *)
(* first loop of poe_port_setup queues nothing.                            *)
(***************************************************************************)
Plain(id)      == [id |-> id, port |-> 0, on |-> FALSE]
OfPort(id, p)  == [id |-> id, port |-> p, on |-> FALSE]
Switch(p, on)  == [id |-> "enable", port |-> p, on |-> on]

\* What the UCI packages poe and port may hold: a port of the board is enabled
\* by the option poe of its section, and each load starts from nothing.
config_load == [Ports -> BOOLEAN]

\* poet_setup: enabled ports in groups of four; the loop ends with the port
\* that fills a group only if this is the last port.
Groups(en) ==
  LET on == {p \in Ports : en[p]}
  IN IF on # {} /\ Cardinality(on) % 4 = 0 /\ en[PortCount - 1]
     THEN Cardinality(on) \div 4 ELSE Cardinality(on) \div 4 + 1

poet_setup(en) ==
  [k \in 1..(3 * Groups(en)) |->
     Plain(<<"priority", "classification", "limit_type">>[((k - 1) % 3) + 1])]

poe_port_setup(en) == poet_setup(en) \o [k \in 1..PortCount |-> Switch(k - 1, en[k - 1])]

poe_initial_setup(en) ==
  <<Plain("status"), Plain("mgmt_mode"), Plain("port_mapping"), Plain("power_budget")>>
  \o poe_port_setup(en)

PollBatch ==
  <<Plain("power_stats")>>
  \o [g \in 1..((PortCount + 3) \div 4) |-> OfPort("4_port_status", g - 1)]
  \o [k \in 1..(3 * PortCount) |->
        OfPort(<<"port_config", "ext_config", "port_power_stats">>[((k - 1) % 3) + 1],
               (k - 1) \div 3)]

(***************************************************************************)
(* poe_cmd_send, poe_cmd_next and poe_cmd_queue.                           *)
(***************************************************************************)
SendsAlways(sent, c, busy) == Append(sent, Frame(c))  \* mutant: no EBUSY
poe_cmd_send(sent, c, busy) == IF busy THEN sent ELSE Append(sent, Frame(c))

NextIfTwo(sent, list, busy) ==  \* mutant: off by one
  IF Len(list) < 2 THEN sent ELSE poe_cmd_send(sent, Head(list), busy)
poe_cmd_next(sent, list, busy) ==
  IF list = <<>> THEN sent ELSE poe_cmd_send(sent, Head(list), busy)

Stamped(batch, seq) ==
  [k \in 1..Len(batch) |->
     [id |-> batch[k].id, port |-> batch[k].port, on |-> batch[k].on,
      seq |-> (seq + k) % SeqMod, num_retries |-> 0]]

Wanted(batch, old) ==
  [p \in Ports |->
     IF \E k \in 1..Len(batch) : batch[k].id = "enable" /\ batch[k].port = p
     THEN \E k \in 1..Len(batch) : batch[k].id = "enable" /\ batch[k].port = p /\ batch[k].on
     ELSE old[p]]

poe_cmd_queue(batch) ==
  /\ Len(cmd_pending) + Len(batch) <= MaxPending
  /\ cmd_pending' = cmd_pending \o Stamped(batch, cmd_seq)
  /\ cmd_seq' = (cmd_seq + Len(batch)) % SeqMod
  /\ toMcu' = IF cmd_pending = <<>>
              THEN poe_cmd_send(toMcu, Stamped(batch, cmd_seq)[1], mcu_error_timeout)
              ELSE toMcu
  /\ want' = Wanted(batch, want)
  /\ UNCHANGED <<mcu_error_timeout, reported, rx, line, mcuOn, faults, restarts,
                 noise, lost, served, mixedUp>>

\* main: config_load, then poe_initial_setup on a line that was flushed.
Init ==
  /\ enable \in config_load
  /\ cmd_pending = Stamped(poe_initial_setup(enable), 0)
  /\ cmd_seq = Len(poe_initial_setup(enable)) % SeqMod
  /\ mcu_error_timeout = FALSE
  /\ reported = [p \in Ports |-> FALSE]
  /\ rx = <<>>
  /\ toMcu = <<Frame(Head(cmd_pending))>>
  /\ line = <<>>
  /\ mcuOn \in [Ports -> BOOLEAN]
  /\ calls = 0 /\ faults = 0 /\ restarts = 0
  /\ noise = 0 /\ lost = 0
  /\ want = enable
  /\ served = [p \in Ports |-> FALSE]
  /\ mixedUp = FALSE
-----------------------------------------------------------------------------
(***************************************************************************)
(* The timers and the ubus methods that queue commands.                    *)
(***************************************************************************)
state_timeout_cb == poe_cmd_queue(PollBatch) /\ UNCHANGED <<enable, calls>>

Call == calls < MaxCalls /\ calls' = calls + 1

ubus_poe_manage_cb ==
  \E p \in Ports, on \in BOOLEAN :
    /\ Call /\ enable[p]
    /\ poe_cmd_queue(<<Switch(p, on)>>)
    /\ UNCHANGED enable

ubus_poe_sendframe_cb ==
  \E c \in RawCommands : Call /\ poe_cmd_queue(<<c>>) /\ UNCHANGED enable

ubus_poe_reload_cb ==
  /\ Call
  /\ enable' \in config_load
  /\ poe_cmd_queue(poe_port_setup(enable'))

mcu_clear_timeout ==
  /\ mcu_error_timeout
  /\ mcu_error_timeout' = FALSE
  /\ toMcu' = poe_cmd_next(toMcu, cmd_pending, FALSE)
  /\ UNCHANGED <<cmd_pending, cmd_seq, enable, reported, rx, line, mcuOn, bounds, history>>
-----------------------------------------------------------------------------
(***************************************************************************)
(* poe_stream_msg_cb: k halves are read; a whole frame goes to             *)
(* poe_reply_consume, and then the next command is sent.                   *)
(***************************************************************************)
Buffer(k) == rx \o SubSeq(line, 1, k)
FrameCompleteLate(k) == Len(Buffer(k)) > 2  \* mutant: <= for <
FrameComplete(k) == Len(Buffer(k)) >= 2

Read(k) ==
  /\ k \in 1..Len(line)
  /\ UNCHANGED <<cmd_seq, enable, mcuOn, bounds, noise, lost, want>>

\* The first 12 bytes, if they are the two halves of one frame.
Whole(k) ==
  /\ FrameComplete(k)
  /\ Buffer(k)[1].part = 1 /\ Buffer(k)[2] = [Buffer(k)[1] EXCEPT !.part = 2]
Reply(k) == Buffer(k)[1]

Outdated(s) ==
  [j \in 1..Len(s) |-> [s[j] EXCEPT !.life = IF @ = "live" THEN "stale" ELSE @]]

\* The frame is taken from the buffer; the frames still under way for the
\* first command lose their meaning if this command leaves the list.
Consume(k, leaves) ==
  LET rest == SubSeq(Buffer(k), 3, Len(Buffer(k)))
      tail == SubSeq(line, k + 1, Len(line))
  IN /\ Read(k) /\ FrameComplete(k)
     /\ rx' = IF leaves THEN Outdated(rest) ELSE rest
     /\ line' = IF leaves THEN Outdated(tail) ELSE tail
     /\ toMcu' = poe_cmd_next(IF leaves THEN Outdated(toMcu) ELSE toMcu,
                              cmd_pending', mcu_error_timeout')

\* The first command leaves the list, answered or not.
Leaves(answered) ==
  LET c == Head(cmd_pending)
  IN /\ cmd_pending' = Tail(cmd_pending)
     /\ served' = [p \in Ports |-> IF c.id = "enable" /\ c.port = p THEN answered
                                                                   ELSE served[p]]

\* Less than a frame has come.
ReadShort(k) ==
  /\ Read(k) /\ ~FrameComplete(k)
  /\ rx' = Buffer(k)
  /\ line' = SubSeq(line, k + 1, Len(line))
  /\ UNCHANGED <<cmd_pending, mcu_error_timeout, reported, toMcu, served, mixedUp>>

\* "received unsolicited reply".
ReadUnsolicited(k) ==
  /\ cmd_pending = <<>>
  /\ UNCHANGED <<cmd_pending, mcu_error_timeout, reported, served, mixedUp>>
  /\ Consume(k, FALSE)

\* A bad checksum costs the command its reply; it is not sent again.
ReadBad(k) ==
  /\ cmd_pending # <<>> /\ ~Whole(k)
  /\ Leaves(FALSE)
  /\ UNCHANGED <<mcu_error_timeout, reported, mixedUp>>
  /\ Consume(k, TRUE)

\* handle_poe_f0_reply: the command goes back to the head of the list ...
ExhaustedLate == ~mcu_error_timeout /\ Head(cmd_pending).num_retries > MaxRetries  \* mutant
Exhausted == ~mcu_error_timeout /\ Head(cmd_pending).num_retries >= MaxRetries

ReadRejected(k) ==
  /\ cmd_pending # <<>> /\ Whole(k) /\ Reply(k).kind = "f0" /\ ~Exhausted
  /\ cmd_pending' = [cmd_pending EXCEPT ![1].num_retries =
                       IF mcu_error_timeout THEN @ ELSE @ + 1]
  /\ mcu_error_timeout' = TRUE
  /\ UNCHANGED <<reported, served, mixedUp>>
  /\ Consume(k, FALSE)

\* ... or is given up.
ReadAborted(k) ==
  /\ cmd_pending # <<>> /\ Whole(k) /\ Reply(k).kind = "f0" /\ Exhausted
  /\ Leaves(FALSE)
  /\ UNCHANGED <<mcu_error_timeout, reported, mixedUp>>
  /\ Consume(k, TRUE)

\* A reply is taken for the answer to the first command of the list.
MatchesId(r) == r.id = Head(cmd_pending).id  \* mutant: no sequence number
MatchesNext(r) ==  \* mutant: numbered after the increment
  r.id = Head(cmd_pending).id /\ r.seq = (Head(cmd_pending).seq + 1) % SeqMod
Matches(r) == r.id = Head(cmd_pending).id /\ r.seq = Head(cmd_pending).seq

ReadOther(k) ==
  /\ cmd_pending # <<>> /\ Whole(k) /\ Reply(k).kind = "ok" /\ ~Matches(Reply(k))
  /\ Leaves(FALSE)
  /\ UNCHANGED <<mcu_error_timeout, reported, mixedUp>>
  /\ Consume(k, TRUE)

\* The status of a group of four ports is stored; the other entries of
\* reply_handler store measurements and names, which nothing depends on.
poe_reply_4_port_status(r) ==
  [p \in Ports |-> IF p \div 4 = r.port THEN r.seen[p] ELSE reported[p]]

ReadAnswer(k) ==
  /\ cmd_pending # <<>> /\ Whole(k) /\ Reply(k).kind = "ok" /\ Matches(Reply(k))
  /\ Leaves(TRUE)
  /\ reported' = IF Reply(k).id = "4_port_status" THEN poe_reply_4_port_status(Reply(k))
                                                  ELSE reported
  /\ mixedUp' = (mixedUp \/ Reply(k).life = "stale")
  /\ UNCHANGED mcu_error_timeout
  /\ Consume(k, TRUE)

ReadStep ==
  \E k \in 1..Len(line) :
    \/ ReadShort(k) \/ ReadUnsolicited(k) \/ ReadBad(k) \/ ReadRejected(k)
    \/ ReadAborted(k) \/ ReadOther(k) \/ ReadAnswer(k)
-----------------------------------------------------------------------------
(***************************************************************************)
(* The MCU carries commands out in the order in which they come and        *)
(* answers each of them once; or it rejects a command (it is not ready, or *)
(* the request came in damaged).                                           *)
(***************************************************************************)
Dark == [p \in Ports |-> FALSE]
Half(c, kind, part) ==
  [kind |-> kind, part |-> part, id |-> c.id, port |-> c.port, seq |-> c.seq,
   life |-> c.life, seen |-> IF c.id = "4_port_status" THEN mcuOn ELSE Dark]
Junk == [kind |-> "junk", part |-> 0, id |-> "raw", port |-> 0, seq |-> 0,
         life |-> "former", seen |-> Dark]

McuStep ==
  \E kind \in {"ok", "f0"} :
    LET c == Head(toMcu)
    IN /\ toMcu # <<>>
       /\ toMcu' = Tail(toMcu)
       /\ line' = line \o <<Half(c, kind, 1), Half(c, kind, 2)>>
       /\ mcuOn' = [p \in Ports |-> IF kind = "ok" /\ c.id = "enable" /\ c.port = p
                                    THEN c.on ELSE mcuOn[p]]
       /\ UNCHANGED <<daemon, bounds, history>>

Fault == faults < MaxFaults /\ faults' = faults + 1

\* The line: bytes from nowhere, damaged bytes, and bytes or a command lost.
Noise ==
  /\ Fault
  /\ line' = Append(line, Junk)
  /\ noise' = noise + 1
  /\ UNCHANGED <<daemon, toMcu, mcuOn, calls, restarts, lost, want, served, mixedUp>>

Damage ==
  \E j \in 1..Len(line) :
    /\ Fault
    /\ line' = [line EXCEPT ![j] = Junk]
    /\ UNCHANGED <<daemon, toMcu, mcuOn, calls, restarts, history>>

Lose ==
  /\ Fault
  /\ \/ line # <<>> /\ line' = Tail(line) /\ lost' = lost + 1 /\ UNCHANGED toMcu
     \/ toMcu # <<>> /\ toMcu' = Tail(toMcu) /\ lost' = lost + 2 /\ UNCHANGED line
  /\ UNCHANGED <<daemon, mcuOn, calls, restarts, noise, want, served, mixedUp>>

Former(s) == [j \in 1..Len(s) |-> [s[j] EXCEPT !.life = "former"]]

(***************************************************************************)
(* poe_stream_notify_cb exits, or the daemon crashes, and procd starts it  *)
(* again.  What has come in is flushed; commands that are out, and halves  *)
(* that come in late, belong to no one.                                    *)
(***************************************************************************)
Restart ==
  \E k \in 0..Len(line) :
    LET late == Former(SubSeq(line, k + 1, Len(line)))
    IN /\ restarts < MaxRestarts
       /\ restarts' = restarts + 1
       /\ enable' \in config_load
       /\ cmd_pending' = Stamped(poe_initial_setup(enable'), 0)
       /\ cmd_seq' = Len(poe_initial_setup(enable')) % SeqMod
       /\ mcu_error_timeout' = FALSE
       /\ reported' = [p \in Ports |-> FALSE]
       /\ rx' = <<>>
       /\ toMcu' = Append(Former(toMcu), Frame(Head(cmd_pending')))
       /\ line' = late
       /\ noise' = 2 * Len(toMcu) + Len(late)
       /\ lost' = 0
       /\ want' = enable'
       /\ served' = [p \in Ports |-> FALSE]
       /\ UNCHANGED <<mcuOn, calls, faults, mixedUp>>

Next ==
  \/ state_timeout_cb \/ ubus_poe_manage_cb \/ ubus_poe_sendframe_cb
  \/ ubus_poe_reload_cb \/ mcu_clear_timeout \/ ReadStep
  \/ McuStep \/ Noise \/ Damage \/ Lose \/ Restart

Spec == Init /\ [][Next]_vars

\* uloop runs its timers and reads what has come in, and the MCU answers.
Fairness ==
  WF_vars(state_timeout_cb) /\ WF_vars(mcu_clear_timeout) /\ WF_vars(ReadStep)
  /\ WF_vars(McuStep)

FairSpec == Spec /\ Fairness
-----------------------------------------------------------------------------
(***************************************************************************)
(* Properties.                                                             *)
(***************************************************************************)
QueuedCommands ==
  [id : CommandIds, port : Nat, on : BOOLEAN, seq : 0..(SeqMod - 1),
   num_retries : 0..MaxRetries]
SentFrames ==
  [id : CommandIds, port : Nat, on : BOOLEAN, seq : 0..(SeqMod - 1), life : Lives]
Halves ==
  [kind : {"ok", "f0", "junk"}, part : 0..2, id : CommandIds, port : Nat,
   seq : 0..(SeqMod - 1), life : Lives, seen : [Ports -> BOOLEAN]]

\* Every variable keeps to its type; in particular no command is sent again
\* more than MAX_RETRIES times, whatever rejects it.
TypeOK ==
  /\ cmd_pending \in Seq(QueuedCommands)
  /\ cmd_seq \in 0..(SeqMod - 1)
  /\ mcu_error_timeout \in BOOLEAN
  /\ enable \in [Ports -> BOOLEAN]
  /\ reported \in [Ports -> BOOLEAN]
  /\ rx \in Seq(Halves)
  /\ toMcu \in Seq(SentFrames)
  /\ line \in Seq(Halves)
  /\ mcuOn \in [Ports -> BOOLEAN]
  /\ calls \in 0..MaxCalls /\ faults \in 0..MaxFaults /\ restarts \in 0..MaxRestarts
  /\ noise \in Nat /\ lost \in Nat
  /\ want \in [Ports -> BOOLEAN]
  /\ served \in [Ports -> BOOLEAN]
  /\ mixedUp \in BOOLEAN

Awaiting == cmd_pending # <<>> /\ ~mcu_error_timeout
OnTheWay == 2 * Len(toMcu) + Len(line) + Len(rx)

\* One exchange at a time: on a line without faults there is exactly one
\* command or its answer on the way while the first command waits for it, and
\* nothing at all in the pause after a rejection or when the list is empty.
OneExchange ==
  noise = 0 /\ lost = 0 => OnTheWay = (IF Awaiting THEN 2 ELSE 0)

\* The list never stops for want of a wake-up: unless an answer is lost, a
\* command that waits for one has something coming that makes
\* poe_stream_msg_cb run, also after noise, damage, rejections and a restart.
NeverStuck == lost = 0 /\ Awaiting => toMcu # <<>> \/ line # <<>>

\* The id and sequence number suffice: no reply handler is given the answer
\* to another command of this life of the daemon, also when noise has put the
\* replies out of step with the list.
RightAnswer == ~mixedUp

SwitchListed(p) ==
  \E k \in 1..Len(cmd_pending) : cmd_pending[k].id = "enable" /\ cmd_pending[k].port = p

\* A port is powered as the last command for it says, once no command for it
\* is left and the last one was answered: neither retries nor noise nor a
\* restart let an older command act after a newer one.
ManageObeyed ==
  \A p \in Ports :
    served[p] /\ ~SwitchListed(p) => mcuOn[p] = want[p]

\* Every command for a port leaves the list, answered, aborted or dropped,
\* however much is queued before and after it, unless an answer is lost; after
\* that the list does not move again.
SwitchFinishes ==
  \A p \in Ports : SwitchListed(p) ~> ~SwitchListed(p) \/ lost > 0

\* On a line without faults the status that "info" reports follows the MCU,
\* provided that the MCU does not go on rejecting commands.
ReportCatchesUp ==
  \A p \in Ports, v \in BOOLEAN :
    <>[](noise = 0 /\ lost = 0 /\ ~mcu_error_timeout /\ mcuOn[p] = v)
      => <>[](reported[p] = v)
=============================================================================
