----------------------------- MODULE RangeAlarms -----------------------------
(***************************************************************************)
(* The alarms of the hardware monitor, tf_hwsys, about measured values:    *)
(* voltages, temperatures, humidity and optical power.  Every few seconds  *)
(* the events thread gives the value in the table to the handler of the    *)
(* register, which compares it with the value it has kept and with two     *)
(* limits, and logs an alarm.                                              *)
(*                                                                         *)
(* The handlers share nothing, so a behaviour is about one of them, who.   *)
(* They are variations of one text; what differs is a field of the record. *)
(* The handlers of the current and the bias current of an SFP module are   *)
(* in no entry of the table, and that of the battery's current is empty.   *)
(***************************************************************************)
EXTENDS Integers

CONSTANTS
  WordMod,   \* 2^32: the width of the arguments of check_out_of_range
  Readings   \* for each handler, what the MCU may report of its register

ByteMax      == 255
ShortMax     == 65535
STABLE_VALUE == 10

Kinds == {"over", "less"}
-----------------------------------------------------------------------------
(***************************************************************************)
(* The handlers.                                                           *)
(*   top      the largest value of its variables value and prevValue,      *)
(*            which is what prevValue holds at first                       *)
(*   min, max the limits, as they are written in i2c_module.h              *)
(*   signed   does the register hold a negative number in two's complement *)
(*   extends  is value an int16_t: then the call extends its sign          *)
(*   gated    is value looked at only if the module is found present       *)
(*   keeps    after which results prevValue becomes value                  *)
(*   logs     which results are logged                                     *)
(*   oneText  the same message for both                                    *)
(*   start    what the table holds before the first poll                   *)
(***************************************************************************)
\* Most handlers: 16 bits wide, unsigned, all results kept, one message.
Usual(name, min, max) ==
  [name |-> name, top |-> ShortMax, min |-> min, max |-> max, signed |-> FALSE,
   extends |-> FALSE, gated |-> FALSE, keeps |-> Kinds \cup {"change"},
   logs |-> Kinds, oneText |-> TRUE, start |-> 0]

handler_ADC == {Usual("ADC_CH1", 3000, 3500), Usual("ADC_CH2", 1300, 1700),
                Usual("ADC_CH3", 1000, 1300)}

handler_RPS_VOLTAGE ==
  {[Usual(n, 20500, 30000) EXCEPT !.oneText = FALSE] :
     n \in {"RPS_BAT_VOLTAGE", "RPS_CHRG_VOLTAGE"}}

handler_RPS_TEMPER ==
  [Usual("RPS_TEMPER", -60, 85) EXCEPT
     !.top = ByteMax, !.signed = TRUE, !.keeps = {"change", "over"}, !.logs = {"over"},
     !.oneText = FALSE, !.start = 123]

handler_SHT_TEMPERATURE ==
  [Usual("SHT_TEMPERATURE", -600, 500) EXCEPT
     !.signed = TRUE, !.extends = TRUE, !.gated = TRUE, !.keeps = Kinds,
     !.oneText = FALSE]

handler_SHT_HUMIDITY ==
  [Usual("SHT_HUMIDITY", 0, 98) EXCEPT
     !.top = ByteMax, !.gated = TRUE, !.oneText = FALSE]

\* mutant: I2C_ERR_CHANGE_VALUE is not kept
SfpChangeLost ==
  [Usual("SFP_TEMPER", 20, 50) EXCEPT
     !.gated = TRUE, !.keeps = {"over"}, !.logs = {"over"}, !.oneText = FALSE]
handler_SFP_TEMPER ==
  [Usual("SFP_TEMPER", 20, 50) EXCEPT
     !.gated = TRUE, !.keeps = {"change", "over"}, !.logs = {"over"}, !.oneText = FALSE]

handler_SFP_VOLTAGE == [Usual("SFP_VOLTAGE", 3000, 3600) EXCEPT !.gated = TRUE]

\* Transmitted and received power, in tenths of a dBm.
handler_SFP_POWER_DB ==
  [Usual("SFP_POWER_DB", 55, 65) EXCEPT !.gated = TRUE, !.signed = TRUE]

Handlers == handler_ADC \cup handler_RPS_VOLTAGE
            \cup {handler_RPS_TEMPER, handler_SHT_TEMPERATURE, handler_SHT_HUMIDITY,
                  handler_SFP_TEMPER, handler_SFP_VOLTAGE, handler_SFP_POWER_DB}

ASSUME RangeAssumption ==
  /\ WordMod \in Nat /\ WordMod > 2 * (ShortMax + 1)
  /\ \A h \in Handlers : Readings[h] \subseteq 0..h.top

VARIABLES
  who,     \* the handler
  table,   \* sock_msgArr[].value of its register
  prev,    \* prevValue
  \* history
  polled,  \* has the register been read from the MCU
  seen,    \* the value looked at last ...
  before,  \* ... and the one before it
  fresh,   \* was seen read from the MCU
  report   \* what was logged of seen

vars == <<who, table, prev, polled, seen, before, fresh, report>>
None == -1
-----------------------------------------------------------------------------
\* An int converted to uint32_t.
Unsigned(n) == IF n < 0 THEN n + WordMod ELSE n

\* The number the register stands for, and what the handler makes of it.
Negative(h, v) == IF v > h.top \div 2 THEN v - (h.top + 1) ELSE v
Meaning(h, v)  == IF h.signed THEN Negative(h, v) ELSE v
get_16bitValue(h, v) == IF h.extends THEN Negative(h, v) ELSE v

\* dif is an uint16_t.
Dif(v, p) == (IF v >= p THEN v - p ELSE p - v) % (ShortMax + 1)

\* mutant: the first value is compared as well
FirstCompared(v, p, max, min) ==
  IF ~(Dif(v, p) > STABLE_VALUE) THEN "ok"
  ELSE IF v > max THEN "over" ELSE IF v < min THEN "less" ELSE "change"
\* mutant: the limits are exchanged
Exchanged(v, p, max, min) ==
  IF ~(Dif(v, p) > STABLE_VALUE) THEN "ok"
  ELSE IF p = ShortMax THEN "change"
  ELSE IF v > min THEN "over" ELSE IF v < max THEN "less" ELSE "change"
check_out_of_range(v, p, max, min) ==
  IF ~(Dif(v, p) > STABLE_VALUE) THEN "ok"
  ELSE IF p = ShortMax THEN "change"
  ELSE IF v > max THEN "over"
  ELSE IF v < min THEN "less"
  ELSE "change"

Event(h, v, p) ==
  check_out_of_range(Unsigned(get_16bitValue(h, v)), p, Unsigned(h.max), Unsigned(h.min))

\* mutant: every alarm is logged
LogsAll(h, e) == IF e \notin Kinds THEN "none" ELSE IF h.oneText THEN "out" ELSE e
send_log(h, e) == IF e \notin h.logs THEN "none" ELSE IF h.oneText THEN "out" ELSE e

\* A poll of the dump that holds the register.
i2c_parse_tlv ==
  /\ table' \in Readings[who]
  /\ polled' = TRUE
  /\ UNCHANGED <<who, prev, seen, before, fresh, report>>

handler ==
  LET e == Event(who, table, prev)
  IN /\ prev' = IF e \in who.keeps THEN table ELSE prev
     /\ report' = send_log(who, e)
     /\ before' = seen /\ seen' = table /\ fresh' = polled
     /\ UNCHANGED <<who, table, polled>>

\* i2c_getData(&data, REG_.._PRESENT, 1) copies one byte of the entry, its
\* lenMSG; the byte data.value[0] that the handler tests is not initialised.
NotPresent == who.gated /\ UNCHANGED vars

Init ==
  /\ who \in Handlers
  /\ table = who.start /\ prev = who.top
  /\ polled = FALSE /\ seen = None /\ before = None /\ fresh = FALSE /\ report = "none"

Next == i2c_parse_tlv \/ handler \/ NotPresent

Spec == Init /\ [][Next]_vars
-----------------------------------------------------------------------------
\* Type invariant.
TypeOK ==
  /\ who \in Handlers
  /\ table \in 0..who.top /\ prev \in 0..who.top
  /\ {seen, before} \subseteq 0..who.top \cup {None}
  /\ polled \in BOOLEAN /\ fresh \in BOOLEAN
  /\ report \in {"none"} \cup (IF who.oneText THEN {"out"} ELSE who.logs)

Above(h, v) == Meaning(h, v) > h.max
Below(h, v) == Meaning(h, v) < h.min

\* What an alarm says of the value is true of the number that the register
\* stands for, also when the handler takes a negative number for a large one.
\* The exception is the temperature of the UPS: its handler reads the byte as
\* unsigned, so every temperature below zero is logged as an overheat.
AlarmsAreTrue ==
  /\ report = "over" => \/ Above(who, seen)
                        \/ who = handler_RPS_TEMPER /\ Meaning(who, seen) < 0
  /\ report = "less" => Below(who, seen)
  /\ report = "out"  => Above(who, seen) \/ Below(who, seen)

\* No alarm is about a value that was never measured, what the table holds
\* before the first poll, but that of the temperature of the UPS, whose entry
\* starts with 123 degrees.
AlarmsAreMeasured == report # "none" /\ ~fresh => who = handler_RPS_TEMPER

\* A value that leaves the range is logged: if the value looked at before was
\* within the limits and this one is beyond by more than twice STABLE_VALUE,
\* there is an alarm.  Two handlers do not keep this promise: that of the SHT
\* sensor's temperature, and that of the UPS temperature, which takes every
\* value up to 85 for one below its limit of -60 and does not keep it.
AlarmsAreRaised ==
  \/ who \in {handler_SHT_TEMPERATURE, handler_RPS_TEMPER}
  \/ before = None \/ Above(who, before) \/ Below(who, before)
  \/ /\ "over" \in who.logs /\ Meaning(who, seen) > who.max + 2 * STABLE_VALUE
          => report \in {"over", "out"}
     /\ "less" \in who.logs /\ Meaning(who, seen) < who.min - 2 * STABLE_VALUE
          => report \in {"less", "out"}
=============================================================================
