-------------------------- MODULE RangeAlarmsProofs --------------------------
(***************************************************************************)
(* Proofs about RangeAlarms: for every value the registers may hold, in    *)
(* every order, and every width of a word above that of two short ints.    *)
(***************************************************************************)
EXTENDS RangeAlarms, TLAPS

Odd == {handler_SHT_TEMPERATURE, handler_RPS_TEMPER}

\* What the proofs use of the fields of the handlers.
HandlerFacts(h) ==
  /\ h.top \in {ByteMax, ShortMax} /\ h.start \in 0..h.top
  /\ h.min \in Int /\ h.max \in Nat /\ h.max <= 30000 /\ h.min <= h.max
  /\ h.logs \subseteq Kinds
  /\ {h.signed, h.extends, h.gated, h.oneText} \subseteq BOOLEAN
  /\ h \notin Odd => /\ h.min >= 0 /\ {"change", "over"} \subseteq h.keeps
                     /\ h.logs \subseteq h.keeps /\ ~h.extends
                     /\ h.start = 0
                     /\ h.top = ByteMax => h.min = 0
                     /\ h.signed => /\ h.oneText /\ h.min > 0 /\ h.logs = Kinds
                                    /\ h.top = ShortMax

LEMMA FactsOfHandlers == \A h \in Handlers : HandlerFacts(h)
<1> USE DEF Kinds, ByteMax, ShortMax, Usual
<1>1. \A h \in handler_ADC : HandlerFacts(h)
  <2>1. HandlerFacts(Usual("ADC_CH1", 3000, 3500))
    BY DEF HandlerFacts
  <2>2. HandlerFacts(Usual("ADC_CH2", 1300, 1700))
    BY DEF HandlerFacts
  <2>3. HandlerFacts(Usual("ADC_CH3", 1000, 1300))
    BY DEF HandlerFacts
  <2> HIDE DEF Usual
  <2>4. QED
    BY <2>1, <2>2, <2>3 DEF handler_ADC
<1>2. \A h \in handler_RPS_VOLTAGE : HandlerFacts(h)
  <2>1. ASSUME NEW n PROVE HandlerFacts([Usual(n, 20500, 30000) EXCEPT !.oneText = FALSE])
    BY DEF HandlerFacts
  <2> HIDE DEF Usual
  <2>2. QED
    BY <2>1 DEF handler_RPS_VOLTAGE
<1>3. HandlerFacts(handler_RPS_TEMPER)
  BY DEF handler_RPS_TEMPER, HandlerFacts, Odd
<1>4. HandlerFacts(handler_SHT_TEMPERATURE)
  BY DEF handler_SHT_TEMPERATURE, HandlerFacts, Odd
<1>5. HandlerFacts(handler_SHT_HUMIDITY)
  BY DEF handler_SHT_HUMIDITY, HandlerFacts
<1>6. HandlerFacts(handler_SFP_TEMPER) /\ HandlerFacts(handler_SFP_VOLTAGE)
  BY DEF handler_SFP_TEMPER, handler_SFP_VOLTAGE, HandlerFacts
<1>7. HandlerFacts(handler_SFP_POWER_DB)
  BY DEF handler_SFP_POWER_DB, HandlerFacts
<1>8. QED
  BY <1>1, <1>2, <1>3, <1>4, <1>5, <1>6, <1>7 DEF Handlers

\* The literal widths are kept from the provers, which would enumerate 0..65535.
LEMMA Widths ==
  /\ ShortMax \in Nat /\ ByteMax \in Nat /\ ByteMax > 20 /\ ShortMax > 60000
  /\ ByteMax < ShortMax
  /\ ByteMax \div 2 \in Nat /\ ByteMax \div 2 < ByteMax
  /\ ShortMax \div 2 \in Nat /\ ShortMax \div 2 > 30020 /\ ShortMax \div 2 < ShortMax
BY DEF ShortMax, ByteMax

LEMMA TopFact ==
  ASSUME NEW h \in Handlers
  PROVE  h.top \in Nat /\ h.top <= ShortMax /\ h.start \in 0..h.top
<1>1. h.top \in {ByteMax, ShortMax} /\ h.start \in 0..h.top
  BY FactsOfHandlers DEF HandlerFacts
<1>2. QED
  BY <1>1, Widths

LEMMA ShortFits == \A x \in 0..ShortMax : x % (ShortMax + 1) = x
<1>1. ASSUME NEW m \in Nat \ {0}, NEW x \in 0..(m - 1) PROVE x % m = x
  OBVIOUS
<1>2. PICK m \in Nat \ {0} : m = ShortMax + 1 /\ ShortMax = m - 1
  <2>1. ShortMax + 1 \in Nat \ {0} /\ ShortMax = (ShortMax + 1) - 1
    BY Widths
  <2>2. QED
    BY <2>1
<1>3. \A x \in 0..(m - 1) : x % m = x
  BY <1>1
<1>4. QED
  BY <1>2, <1>3

LEMMA DifIsDistance ==
  ASSUME NEW v \in 0..ShortMax, NEW p \in 0..ShortMax
  PROVE  Dif(v, p) = IF v >= p THEN v - p ELSE p - v
<1>0. ShortMax \in Int
  BY Widths
<1>1. CASE v >= p
  <2>1. v - p \in 0..ShortMax
    BY <1>0, <1>1
  <2>2. QED
    BY <1>1, <2>1, ShortFits DEF Dif
<1>2. CASE ~(v >= p)
  <2>1. p - v \in 0..ShortMax
    BY <1>0, <1>2
  <2>2. QED
    BY <1>2, <2>1, ShortFits DEF Dif
<1>3. QED
  BY <1>1, <1>2

-----------------------------------------------------------------------------
LEMMA RangeTypeInit == Init => TypeOK
<1> SUFFICES ASSUME Init PROVE TypeOK
  OBVIOUS
<1>1. who \in Handlers /\ table \in 0..who.top /\ prev \in 0..who.top
  BY TopFact DEF Init
<1>2. {seen, before} \subseteq 0..who.top \cup {None}
  BY DEF Init
<1>3. QED
  BY <1>1, <1>2 DEF Init, TypeOK

LEMMA RangeTypeStep == TypeOK /\ [Next]_vars => TypeOK'
<1> SUFFICES ASSUME TypeOK, [Next]_vars PROVE TypeOK'
  OBVIOUS
<1>1. CASE i2c_parse_tlv
  <2>1. table' \in 0..who.top
    BY <1>1, RangeAssumption DEF i2c_parse_tlv, TypeOK
  <2>2. QED
    BY <1>1, <2>1 DEF i2c_parse_tlv, TypeOK
<1>2. CASE handler
  <2>1. report' \in {"none"} \cup (IF who.oneText THEN {"out"} ELSE who.logs)
    BY <1>2 DEF handler, send_log
  <2>2. QED
    BY <1>2, <2>1 DEF handler, TypeOK
<1>3. CASE UNCHANGED vars
  BY <1>3 DEF vars, TypeOK
<1>4. QED
  BY <1>1, <1>2, <1>3 DEF Next, NotPresent

\* Every variable keeps to its type: prevValue to its width, and the log to the
\* messages the handler has.
THEOREM RangeTypeCorrect == Spec => []TypeOK
<1>1. QED
  BY RangeTypeInit, RangeTypeStep, PTL DEF Spec

-----------------------------------------------------------------------------
\* The SHT sensor's temperature: prevValue stays at 0xFFFF, for which
\* check_out_of_range finds no alarm, and is kept only with an alarm.
NeverKept == who = handler_SHT_TEMPERATURE => prev = ShortMax /\ report = "none"

LEMMA ShtFields ==
  /\ handler_SHT_TEMPERATURE.keeps = Kinds /\ handler_SHT_TEMPERATURE.logs = Kinds
  /\ handler_SHT_TEMPERATURE.top = ShortMax
BY DEF handler_SHT_TEMPERATURE, Usual

LEMMA NoAlarmAtFirst ==
  ASSUME NEW v, NEW max, NEW min
  PROVE  check_out_of_range(v, ShortMax, max, min) \in {"ok", "change"}
BY DEF check_out_of_range

LEMMA NeverKeptStep == NeverKept /\ [Next]_vars => NeverKept'
<1> SUFFICES ASSUME NeverKept, [Next]_vars PROVE NeverKept'
  OBVIOUS
<1>1. CASE i2c_parse_tlv
  BY <1>1 DEF i2c_parse_tlv, NeverKept
<1>2. CASE handler
  <2> SUFFICES ASSUME who = handler_SHT_TEMPERATURE
               PROVE  prev' = ShortMax /\ report' = "none"
    BY <1>2 DEF handler, NeverKept
  <2>1. prev = ShortMax
    BY DEF NeverKept
  <2>2. Event(who, table, prev) \in {"ok", "change"}
    BY <2>1, NoAlarmAtFirst DEF Event
  <2>3. Event(who, table, prev) \notin who.keeps /\ Event(who, table, prev) \notin who.logs
    BY <2>2, ShtFields DEF Kinds
  <2>4. QED
    BY <1>2, <2>1, <2>3 DEF handler, send_log
<1>3. CASE UNCHANGED vars
  BY <1>3 DEF vars, NeverKept
<1>4. QED
  BY <1>1, <1>2, <1>3 DEF Next, NotPresent

\* No reading of the SHT sensor ever makes its handler log a temperature.
LEMMA AlwaysNeverKept == Spec => []NeverKept
<1>1. Init => NeverKept
  BY ShtFields DEF Init, NeverKept
<1>2. QED
  BY <1>1, NeverKeptStep, PTL DEF Spec

-----------------------------------------------------------------------------
\* Away from the SHT sensor no sign is extended and max is not negative: the
\* value and max are compared as they are, and so is min unless it is negative.
LEMMA RpsFields ==
  /\ handler_RPS_TEMPER.logs = {"over"} /\ handler_RPS_TEMPER.oneText = FALSE
  /\ handler_RPS_TEMPER.signed = TRUE /\ handler_RPS_TEMPER.extends = FALSE
BY DEF handler_RPS_TEMPER, Usual

LEMMA PlainEvent ==
  ASSUME NEW h \in Handlers, h # handler_SHT_TEMPERATURE, NEW v \in 0..h.top, NEW p
  PROVE  Event(h, v, p) = check_out_of_range(v, p, h.max, Unsigned(h.min))
<1>1. HandlerFacts(h)
  BY FactsOfHandlers
<1>2. ~h.extends
  <2>1. CASE h = handler_RPS_TEMPER
    BY <2>1, RpsFields
  <2>2. CASE h # handler_RPS_TEMPER
    BY <1>1, <2>2 DEF HandlerFacts, Odd
  <2>3. QED
    BY <2>1, <2>2
<1>3. h.max \in Nat /\ h.top \in Nat
  BY <1>1, TopFact DEF HandlerFacts
<1>4. Unsigned(h.max) = h.max
  BY <1>3 DEF Unsigned
<1>5. get_16bitValue(h, v) = v /\ Unsigned(v) = v
  BY <1>2, <1>3 DEF get_16bitValue, Unsigned
<1>6. QED
  BY <1>4, <1>5 DEF Event

LEMMA PlainMin ==
  ASSUME NEW h \in Handlers, h \notin Odd
  PROVE  Unsigned(h.min) = h.min
<1>1. h.min \in Int /\ h.min >= 0
  BY FactsOfHandlers DEF HandlerFacts
<1>2. QED
  BY <1>1 DEF Unsigned

LEMMA MeaningIs ==
  ASSUME NEW h \in Handlers, NEW v \in 0..h.top
  PROVE  /\ v \in 0..ShortMax
         /\ \/ Meaning(h, v) = v
            \/ h.signed /\ Meaning(h, v) < 0 /\ (h \notin Odd => v > 30020)
         /\ Meaning(h, v) \in Int
<1>1. /\ v \in 0..ShortMax /\ ShortMax \in Nat
      /\ h.top \in Nat /\ h.top \in {ByteMax, ShortMax}
  BY TopFact, Widths, FactsOfHandlers DEF HandlerFacts
<1>2. CASE h.signed /\ v > h.top \div 2
  <2>1. Meaning(h, v) = v - (h.top + 1)
    BY <1>2 DEF Meaning, Negative
  <2>2. Meaning(h, v) \in Int /\ Meaning(h, v) < 0
    BY <1>1, <2>1
  <2>3. h \notin Odd => h.top = ShortMax
    BY <1>2, FactsOfHandlers DEF HandlerFacts
  <2>4. h.top = ShortMax => v > 30020
    BY <1>1, <1>2, Widths
  <2>5. QED
    BY <1>1, <1>2, <2>2, <2>3, <2>4
<1>3. CASE ~(h.signed /\ v > h.top \div 2)
  BY <1>1, <1>3 DEF Meaning, Negative
<1>4. QED
  BY <1>2, <1>3

LEMMA OverMeans ==
  ASSUME NEW v, NEW p, NEW max, NEW min
  PROVE  /\ check_out_of_range(v, p, max, min) = "over" => v > max
         /\ check_out_of_range(v, p, max, min) = "less" => v < min
BY DEF check_out_of_range

LEMMA TrueStep == TypeOK /\ NeverKept' /\ AlarmsAreTrue /\ [Next]_vars => AlarmsAreTrue'
<1> SUFFICES ASSUME TypeOK, NeverKept', AlarmsAreTrue, [Next]_vars PROVE AlarmsAreTrue'
  OBVIOUS
<1>1. CASE i2c_parse_tlv
  BY <1>1 DEF i2c_parse_tlv, AlarmsAreTrue, Above, Below
<1>2. CASE handler
  <2> DEFINE e == Event(who, table, prev)
  <2>1. who' = who /\ seen' = table /\ report' = send_log(who, e)
    BY <1>2 DEF handler
  <2>2. who \in Handlers /\ table \in 0..who.top /\ HandlerFacts(who)
    BY FactsOfHandlers DEF TypeOK
  <2>3. CASE who = handler_SHT_TEMPERATURE
    BY <2>1, <2>3 DEF NeverKept, AlarmsAreTrue
  <2>4. CASE who # handler_SHT_TEMPERATURE
    <3>1. e = check_out_of_range(table, prev, who.max, Unsigned(who.min))
      BY <2>2, <2>4, PlainEvent
    <3>2. /\ e = "over" => table > who.max
          /\ e = "less" => table < Unsigned(who.min)
      BY <3>1, OverMeans
    <3> HIDE DEF e
    <3>3. CASE who = handler_RPS_TEMPER
      <4>1. report' \in {"none", "over"} /\ (report' = "over" => e = "over")
        BY <2>1, <3>3, RpsFields DEF send_log
      <4>2. Meaning(who, table) = table \/ Meaning(who, table) < 0
        BY <2>2, MeaningIs
      <4>3. report' = "over" => Above(who, table) \/ Meaning(who, table) < 0
        BY <3>2, <4>1, <4>2 DEF Above
      <4>4. QED
        BY <2>1, <3>3, <4>1, <4>3 DEF AlarmsAreTrue
    <3>4. CASE who # handler_RPS_TEMPER
      <4>1. who \notin Odd /\ who.min \in Int /\ who.min >= 0 /\ who.max \in Nat
            /\ who.min <= who.max /\ who.max <= 30000
        BY <2>2, <2>4, <3>4 DEF Odd, HandlerFacts
      <4>2. who.signed => who.oneText /\ who.min > 0
        BY <2>2, <4>1 DEF HandlerFacts
      <4>3. e = "less" => table < who.min
        BY <2>2, <3>2, <4>1, PlainMin
      <4>4. /\ table \in 0..ShortMax
            /\ Meaning(who, table) = table
               \/ (who.signed /\ Meaning(who, table) < 0 /\ table > 30020)
        BY <2>2, <4>1, MeaningIs
      <4>5. ShortMax \in Nat
        BY Widths
      <4>6. e = "over" => IF who.signed THEN Above(who, table) \/ Below(who, table)
                                        ELSE Above(who, table)
        <5>1. CASE Meaning(who, table) = table
          <6>1. e = "over" => Above(who, table)
            BY <3>2, <5>1 DEF Above
          <6>2. QED
            BY <6>1
        <5>2. CASE who.signed /\ Meaning(who, table) < 0
          <6>1. Meaning(who, table) \in Int
            BY <2>2, MeaningIs
          <6>2. Below(who, table)
            BY <4>1, <4>2, <5>2, <6>1 DEF Below
          <6>3. QED
            BY <5>2, <6>2
        <5>3. QED
          BY <4>4, <5>1, <5>2
      <4>7. e = "less" => Below(who, table)
        BY <4>1, <4>3, <4>4, <4>5 DEF Below
      <4>8. report' # "none" => e \in Kinds
                                /\ report' = IF who.oneText THEN "out" ELSE e
        BY <2>1, <2>2 DEF send_log, HandlerFacts
      <4>9. QED
        BY <2>1, <4>2, <4>6, <4>7, <4>8 DEF AlarmsAreTrue, Kinds
    <3>5. QED
      BY <3>3, <3>4
  <2>5. QED
    BY <2>3, <2>4
<1>3. CASE UNCHANGED vars
  BY <1>3 DEF vars, AlarmsAreTrue, Above, Below
<1>4. QED
  BY <1>1, <1>2, <1>3 DEF Next, NotPresent

\* Whatever the registers hold, an alarm says of the number the register
\* stands for what is true of it, but for one: a negative temperature of the UPS
\* is logged as an overheat.
THEOREM AlarmsTellTheTruth == Spec => []AlarmsAreTrue
<1>1. Init => AlarmsAreTrue
  BY DEF Init, AlarmsAreTrue
<1>2. QED
  BY <1>1, TrueStep, RangeTypeCorrect, AlwaysNeverKept, PTL DEF Spec

-----------------------------------------------------------------------------
\* Before the first poll the table holds what it started with, and prevValue
\* its first value or that one.
Unpolled == ~polled => table = who.start /\ prev \in {who.top, table}

LEMMA UnpolledStep == TypeOK /\ Unpolled /\ [Next]_vars => Unpolled'
BY DEF Next, i2c_parse_tlv, handler, NotPresent, vars, Unpolled

\* Zero, the start of every entry but one, is not an alarm after prevValue's
\* first value: 0xFFFF is not compared, and the one byte wide handler that is
\* has zero for its lower limit.
LEMMA ZeroIsQuiet ==
  ASSUME NEW h \in Handlers, h \notin Odd, NEW p \in {h.top, 0}
  PROVE  Event(h, 0, p) \in {"ok", "change"}
<1>1. HandlerFacts(h) /\ h.top \in {ByteMax, ShortMax} /\ h.max \in Nat /\ h.min \in Nat
  BY FactsOfHandlers DEF HandlerFacts
<1>2. Event(h, 0, p) = check_out_of_range(0, p, h.max, h.min)
  <2>1. 0 \in 0..h.top /\ h # handler_SHT_TEMPERATURE
    BY TopFact DEF Odd
  <2>2. QED
    BY <2>1, PlainEvent, PlainMin
<1>3. CASE p = 0
  <2>1. Dif(0, p) = 0
    BY <1>3, DifIsDistance, Widths
  <2>2. QED
    BY <1>2, <2>1 DEF check_out_of_range, STABLE_VALUE
<1>4. CASE p = ShortMax
  BY <1>2, <1>4, NoAlarmAtFirst
<1>5. CASE h.top = ByteMax
  <2>1. h.min = 0
    BY <1>1, <1>5 DEF HandlerFacts
  <2>2. ~(0 > h.max) /\ ~(0 < h.min)
    BY <1>1, <2>1
  <2>3. QED
    BY <1>2, <2>2 DEF check_out_of_range
<1>6. QED
  BY <1>1, <1>3, <1>4, <1>5

LEMMA MeasuredStep ==
  TypeOK /\ NeverKept' /\ Unpolled /\ AlarmsAreMeasured /\ [Next]_vars => AlarmsAreMeasured'
<1> SUFFICES ASSUME TypeOK, NeverKept', Unpolled, AlarmsAreMeasured, [Next]_vars
             PROVE  AlarmsAreMeasured'
  OBVIOUS
<1>1. CASE i2c_parse_tlv
  BY <1>1 DEF i2c_parse_tlv, AlarmsAreMeasured
<1>2. CASE handler
  <2> SUFFICES ASSUME ~polled, who # handler_RPS_TEMPER PROVE report' = "none"
    BY <1>2 DEF handler, AlarmsAreMeasured
  <2>1. CASE who = handler_SHT_TEMPERATURE
    BY <1>2, <2>1 DEF handler, NeverKept
  <2>2. CASE who # handler_SHT_TEMPERATURE
    <3>1. who \in Handlers /\ who \notin Odd /\ HandlerFacts(who)
      BY <2>2, FactsOfHandlers DEF TypeOK, Odd
    <3>2. table = 0 /\ prev \in {who.top, 0}
      BY <3>1 DEF Unpolled, HandlerFacts
    <3>3. Event(who, table, prev) \in {"ok", "change"}
      BY <3>1, <3>2, ZeroIsQuiet
    <3>4. Event(who, table, prev) \notin who.logs
      BY <3>1, <3>3 DEF HandlerFacts, Kinds
    <3>5. QED
      BY <1>2, <3>4 DEF handler, send_log
  <2>3. QED
    BY <2>1, <2>2
<1>3. CASE UNCHANGED vars
  BY <1>3 DEF vars, AlarmsAreMeasured
<1>4. QED
  BY <1>1, <1>2, <1>3 DEF Next, NotPresent

\* The UPS temperature apart, no handler logs what the table held before the
\* first poll.
THEOREM MeasuredBeforeAlarm == Spec => []AlarmsAreMeasured
<1>1. Init => Unpolled /\ AlarmsAreMeasured
  BY DEF Init, Unpolled, AlarmsAreMeasured
<1>2. QED
  BY <1>1, MeasuredStep, UnpolledStep, RangeTypeCorrect, AlwaysNeverKept, PTL DEF Spec

-----------------------------------------------------------------------------
\* prevValue follows the value looked at, within STABLE_VALUE, unless that
\* value was below the lower limit: two handlers do not keep such a value.
Near(v, p) == v - p <= STABLE_VALUE /\ p - v <= STABLE_VALUE
Follows == who \notin Odd /\ seen # None /\ ~(seen < who.min) => Near(seen, prev)

LEMMA OkIsNear ==
  ASSUME NEW v \in 0..ShortMax, NEW p \in 0..ShortMax
  PROVE  Dif(v, p) > STABLE_VALUE <=> ~Near(v, p)
<1>1. v \in Int /\ p \in Int
  BY Widths
<1>2. Dif(v, p) = IF v >= p THEN v - p ELSE p - v
  BY DifIsDistance
<1>3. QED
  BY <1>1, <1>2 DEF Near, STABLE_VALUE

LEMMA FollowsStep == TypeOK /\ Follows /\ [Next]_vars => Follows'
<1> SUFFICES ASSUME TypeOK, Follows, [Next]_vars PROVE Follows'
  OBVIOUS
<1>1. CASE i2c_parse_tlv
  BY <1>1 DEF i2c_parse_tlv, Follows
<1>2. CASE handler
  <2> DEFINE e == Event(who, table, prev)
  <2> SUFFICES ASSUME who \notin Odd, ~(table < who.min) PROVE Near(table, prev')
    BY <1>2 DEF handler, Follows
  <2>1. /\ who \in Handlers /\ HandlerFacts(who) /\ who # handler_SHT_TEMPERATURE
        /\ table \in 0..who.top /\ prev \in 0..who.top
    BY FactsOfHandlers DEF TypeOK, Odd
  <2>2. table \in 0..ShortMax /\ prev \in 0..ShortMax /\ table \in Int
    BY <2>1, TopFact, Widths
  <2>3. e = check_out_of_range(table, prev, who.max, who.min)
    BY <2>1, PlainEvent, PlainMin
  <2>4. CASE Near(table, prev)
    <3>1. prev' \in {table, prev}
      BY <1>2 DEF handler
    <3>2. Near(table, table)
      BY <2>2 DEF Near, STABLE_VALUE
    <3>3. QED
      BY <2>4, <3>1, <3>2
  <2>5. CASE ~Near(table, prev)
    <3>1. e \in {"change", "over"}
      BY <2>2, <2>3, <2>5, OkIsNear DEF check_out_of_range
    <3>2. e \in who.keeps
      BY <2>1, <3>1 DEF HandlerFacts
    <3>3. prev' = table
      BY <1>2, <3>2 DEF handler
    <3>4. QED
      BY <2>2, <3>3 DEF Near, STABLE_VALUE
  <2>6. QED
    BY <2>4, <2>5
<1>3. CASE UNCHANGED vars
  BY <1>3 DEF vars, Follows
<1>4. QED
  BY <1>1, <1>2, <1>3 DEF Next, NotPresent

\* From a value kept near a good one, a value that is beyond a limit by more
\* than twice STABLE_VALUE is compared with the limits and found beyond.
LEMMA FarIsCompared ==
  ASSUME NEW h \in Handlers, h \notin Odd, NEW v \in 0..h.top, NEW p \in 0..h.top,
         NEW s \in 0..h.top, Near(s, p), ~Above(h, s), ~Below(h, s)
  PROVE  /\ Meaning(h, v) > h.max + 2 * STABLE_VALUE => Event(h, v, p) = "over"
         /\ Meaning(h, v) < h.min - 2 * STABLE_VALUE
              => IF h.signed THEN Event(h, v, p) \in Kinds ELSE Event(h, v, p) = "less"
<1>1. HandlerFacts(h) /\ h # handler_SHT_TEMPERATURE
  BY FactsOfHandlers DEF Odd
<1>2. /\ h.min \in Int /\ h.min >= 0 /\ h.max \in Int /\ h.max <= 30000 /\ h.min <= h.max
      /\ h.signed \in BOOLEAN
  BY <1>1 DEF HandlerFacts
<1>3. Event(h, v, p) = check_out_of_range(v, p, h.max, h.min)
  BY <1>1, PlainEvent, PlainMin
<1>4. v \in 0..ShortMax /\ p \in 0..ShortMax /\ s \in 0..ShortMax
  BY MeaningIs
<1>5. v \in Int /\ p \in Int /\ s \in Int /\ ShortMax \in Int /\ ShortMax > 60000
  BY <1>4, Widths
<1>6. h.min <= s /\ s <= h.max
  <2>1. Meaning(h, s) \in Int /\ ~(Meaning(h, s) > h.max) /\ ~(Meaning(h, s) < h.min)
    BY MeaningIs DEF Above, Below
  <2>2. ~(Meaning(h, s) < 0)
    BY <1>2, <2>1
  <2>3. Meaning(h, s) = s
    BY <2>2, MeaningIs
  <2>4. QED
    BY <1>2, <1>5, <2>1, <2>3
<1>7. p <= h.max + STABLE_VALUE /\ h.min - STABLE_VALUE <= p /\ p # ShortMax
  BY <1>2, <1>5, <1>6 DEF Near, STABLE_VALUE
<1>8. ASSUME v > h.max + 2 * STABLE_VALUE PROVE Event(h, v, p) = "over"
  <2>1. v > h.max /\ ~Near(v, p)
    BY <1>2, <1>5, <1>7, <1>8 DEF Near, STABLE_VALUE
  <2>2. QED
    BY <1>3, <1>4, <1>7, <2>1, OkIsNear DEF check_out_of_range
<1>9. ASSUME v < h.min - 2 * STABLE_VALUE PROVE Event(h, v, p) = "less"
  <2>1. v < h.min /\ ~(v > h.max) /\ ~Near(v, p)
    BY <1>2, <1>5, <1>7, <1>9 DEF Near, STABLE_VALUE
  <2>2. QED
    BY <1>3, <1>4, <1>7, <2>1, OkIsNear DEF check_out_of_range
<1>10. CASE Meaning(h, v) = v
  BY <1>8, <1>9, <1>10 DEF Kinds
<1>11. CASE h.signed /\ Meaning(h, v) < 0 /\ v > 30020
  <2>1. v > h.max + 2 * STABLE_VALUE
    BY <1>2, <1>5, <1>11 DEF STABLE_VALUE
  <2>2. QED
    BY <1>8, <1>11, <2>1 DEF Kinds
<1>12. QED
  BY <1>10, <1>11, MeaningIs

LEMMA RaisedStep == TypeOK /\ Follows /\ AlarmsAreRaised /\ [Next]_vars => AlarmsAreRaised'
<1> SUFFICES ASSUME TypeOK, Follows, AlarmsAreRaised, [Next]_vars PROVE AlarmsAreRaised'
  OBVIOUS
<1>1. CASE i2c_parse_tlv
  BY <1>1 DEF i2c_parse_tlv, AlarmsAreRaised, Above, Below
<1>2. CASE handler
  <2> DEFINE e == Event(who, table, prev)
  <2>1. /\ who' = who /\ seen' = table /\ before' = seen /\ report' = send_log(who, e)
    BY <1>2 DEF handler
  <2> SUFFICES ASSUME who \notin Odd, seen # None, ~Above(who, seen), ~Below(who, seen)
               PROVE  /\ /\ "over" \in who.logs
                         /\ Meaning(who, table) > who.max + 2 * STABLE_VALUE
                         => report' \in {"over", "out"}
                      /\ /\ "less" \in who.logs
                         /\ Meaning(who, table) < who.min - 2 * STABLE_VALUE
                         => report' \in {"less", "out"}
    BY <2>1 DEF AlarmsAreRaised, Above, Below, Odd
  <2>2. /\ who \in Handlers /\ HandlerFacts(who)
        /\ table \in 0..who.top /\ prev \in 0..who.top /\ seen \in 0..who.top
    BY FactsOfHandlers DEF TypeOK
  <2>3. ~(seen < who.min)
    <3>1. who.min \in Int /\ who.min >= 0 /\ who.max \in Int /\ who.max <= 30000
          /\ who.min <= who.max
      BY <2>2 DEF HandlerFacts
    <3>2. Meaning(who, seen) = seen \/ seen > 30020
      BY <2>2, MeaningIs
    <3>3. seen \in Int
      BY <2>2, TopFact
    <3>4. QED
      BY <3>1, <3>2, <3>3 DEF Below
  <2>4. Near(seen, prev)
    BY <2>3 DEF Follows
  <2>5. /\ Meaning(who, table) > who.max + 2 * STABLE_VALUE => e = "over"
        /\ Meaning(who, table) < who.min - 2 * STABLE_VALUE
             => IF who.signed THEN e \in Kinds ELSE e = "less"
    BY <2>2, <2>4, FarIsCompared
  <2>6. who.signed => who.oneText /\ who.logs = Kinds
    BY <2>2 DEF HandlerFacts
  <2> HIDE DEF e
  <2>7. QED
    BY <2>1, <2>5, <2>6 DEF send_log, Kinds
<1>3. CASE UNCHANGED vars
  BY <1>3 DEF vars, AlarmsAreRaised, Above, Below
<1>4. QED
  BY <1>1, <1>2, <1>3 DEF Next, NotPresent

\* A value that leaves its range by more than twice STABLE_VALUE is logged,
\* whatever was measured before it; the two handlers named in the property apart.
THEOREM AlarmsAreNotMissed == Spec => []AlarmsAreRaised
<1>1. Init => Follows /\ AlarmsAreRaised
  BY DEF Init, Follows, AlarmsAreRaised
<1>2. QED
  BY <1>1, FollowsStep, RaisedStep, RangeTypeCorrect, PTL DEF Spec
=============================================================================
