--------------------------- MODULE PoeAnswerProofs ---------------------------
(***************************************************************************)
(* Proofs about PoeQueue: which answer goes to which command.  They rest   *)
(* on the account of the line in PoeQueueProofs.                           *)
(***************************************************************************)
EXTENDS PoeQueueProofs

-----------------------------------------------------------------------------
(***************************************************************************)
(* Sequence numbers.                                                       *)
(***************************************************************************)
SeqNumbers == 0..(SeqMod - 1)
Succ(a) == IF a = SeqMod - 1 THEN 0 ELSE a + 1
\* How often Succ leads from a to b.
Dist(a, b) == IF a <= b THEN b - a ELSE b - a + SeqMod

LEMMA Euclid ==
  ASSUME NEW x \in Nat, NEW m \in Nat \ {0}
  PROVE  x % m \in Nat /\ x % m < m /\ x \div m \in Nat /\ x = m * (x \div m) + (x % m)
<1>1. x % m \in 0..(m - 1)
  OBVIOUS
<1>2. x \div m \in Nat
  OBVIOUS
<1>3. x = m * (x \div m) + (x % m)
  OBVIOUS
<1>4. QED
  BY <1>1, <1>2, <1>3

LEMMA Remainder ==
  ASSUME NEW m \in Nat \ {0}, NEW q \in Nat, NEW r \in Nat, r < m
  PROVE  (m * q + r) % m = r
<1>1. PICK x \in Nat : x = m * q + r
  OBVIOUS
<1>2. PICK q1 \in Nat, r1 \in Nat : r1 = x % m /\ r1 < m /\ x = m * q1 + r1
  BY Euclid
<1>3. m * q + r = m * q1 + r1
  BY <1>1, <1>2
<1>4. ASSUME NEW u \in Nat, NEW v \in Nat, u < v PROVE m * u + m <= m * v
  <2>1. m * (u + 1) <= m * v
    BY <1>4
  <2>2. QED
    BY <2>1
<1>5. ~(q < q1)
  <2>1. m * q \in Nat /\ m * q1 \in Nat
    OBVIOUS
  <2>2. QED
    BY <2>1, <1>2, <1>3, <1>4
<1>6. ~(q1 < q)
  <2>1. m * q \in Nat /\ m * q1 \in Nat
    OBVIOUS
  <2>2. QED
    BY <2>1, <1>2, <1>3, <1>4
<1>7. q = q1
  BY <1>5, <1>6
<1>8. QED
  BY <1>1, <1>2, <1>3, <1>7

LEMMA ModSucc ==
  ASSUME NEW x \in Nat
  PROVE  (x + 1) % SeqMod = Succ(x % SeqMod)
<1>1. PICK m \in Nat \ {0} : m = SeqMod
  BY PoeSizesAssumption
<1>2. PICK r \in Nat, q \in Nat : r = x % m /\ r < m /\ x = m * q + r
  BY Euclid
<1>3. CASE r = m - 1
  <2>1. x + 1 = m * (q + 1)
    BY <1>1, <1>2, <1>3
  <2>2. (m * (q + 1)) % m = 0
    <3>1. PICK n \in Nat, z \in Nat : n = q + 1 /\ z = 0
      OBVIOUS
    <3>2. (m * n + z) % m = z
      BY <3>1, Remainder
    <3>3. m * n + z = m * (q + 1)
      BY <3>1
    <3>4. QED
      BY <3>1, <3>2, <3>3
  <2>3. (x + 1) % m = 0
    BY <2>1, <2>2, Zenon
  <2>4. Succ(r) = 0
    BY <1>1, <1>3 DEF Succ
  <2>5. QED
    BY <1>1, <1>2, <2>3, <2>4
<1>4. CASE r # m - 1
  <2>1. PICK s \in Nat : s = r + 1 /\ s < m
    <3>1. r < m
      BY <1>2
    <3>2. QED
      BY <1>4, <3>1
  <2>2. x + 1 = m * q + s
    BY <1>2, <2>1
  <2>3. (x + 1) % m = s
    <3>1. (m * q + s) % m = s
      BY <2>1, Remainder
    <3>2. QED
      BY <2>2, <3>1, Zenon
  <2>4. Succ(r) = r + 1
    BY <1>1, <1>4 DEF Succ
  <2>5. QED
    BY <1>1, <1>2, <2>1, <2>3, <2>4
<1>5. QED
  BY <1>3, <1>4

LEMMA ModSame == ASSUME NEW a \in SeqNumbers PROVE a % SeqMod = a
BY PoeSizesAssumption DEF SeqNumbers

LEMMA DistFacts ==
  ASSUME NEW a \in SeqNumbers, NEW b \in SeqNumbers
  PROVE  /\ Succ(a) \in SeqNumbers
         /\ Dist(a, b) \in Nat /\ Dist(a, b) < SeqMod
         /\ Dist(a, b) = 0 <=> a = b
         /\ Dist(a, b) < SeqMod - 1 => Dist(a, Succ(b)) = Dist(a, b) + 1
BY PoeSizesAssumption DEF SeqNumbers, Succ, Dist

-----------------------------------------------------------------------------
(***************************************************************************)
(* What comes in, whether it has been read already or not, is one sequence *)
(* of halves: a read moves a border inside it and takes a frame from its   *)
(* front.  What the steps do to it and to the frames on their way out.     *)
(***************************************************************************)
In == rx \o line

Mark(f) == [f EXCEPT !.life = IF @ = "live" THEN "stale" ELSE @]

LEMMA InFacts ==
  ASSUME NEW x \in Seq(Halves), NEW l \in Seq(Halves)
  PROVE  /\ x \o l \in Seq(Halves) /\ Len(x \o l) = Len(x) + Len(l)
         /\ \A j \in 1..Len(x) : (x \o l)[j] = x[j]
         /\ \A j \in 1..Len(l) : (x \o l)[Len(x) + j] = l[j]
BY ConcatProperties

LEMMA LineTypes ==
  ASSUME TypeOK
  PROVE  /\ rx \in Seq(Halves) /\ line \in Seq(Halves) /\ toMcu \in Seq(SentFrames)
         /\ cmd_pending \in Seq(QueuedCommands)
         /\ Len(rx) \in Nat /\ Len(line) \in Nat /\ Len(toMcu) \in Nat /\ Len(cmd_pending) \in Nat
BY DEF TypeOK

LEMMA InType ==
  ASSUME TypeOK
  PROVE  /\ In \in Seq(Halves) /\ Len(In) = Len(rx) + Len(line) /\ Len(In) \in Nat
         /\ Len(rx) \in Nat /\ Len(line) \in Nat /\ Len(toMcu) \in Nat
         /\ OnTheWay = 2 * Len(toMcu) + Len(In)
<1>1. In \in Seq(Halves) /\ Len(In) = Len(rx) + Len(line)
  BY InFacts DEF In, TypeOK
<1>2. Len(rx) \in Nat /\ Len(line) \in Nat /\ Len(toMcu) \in Nat /\ Len(In) \in Nat
  BY <1>1 DEF TypeOK
<1>3. QED
  BY <1>1, <1>2 DEF OnTheWay

LEMMA OutdatedAt ==
  ASSUME NEW s, Len(s) \in Nat
  PROVE  \A j \in 1..Len(s) : Outdated(s)[j] = Mark(s[j])
BY DEF Outdated, Mark

\* The halves of line from place k + 1 on.
LEMMA RestOfLine ==
  ASSUME NEW l \in Seq(Halves), NEW k \in 0..Len(l)
  PROVE  /\ SubSeq(l, k + 1, Len(l)) \in Seq(Halves) /\ Len(SubSeq(l, k + 1, Len(l))) = Len(l) - k
         /\ \A j \in 1..(Len(l) - k) : SubSeq(l, k + 1, Len(l))[j] = l[k + j]
<1>1. Len(l) \in Nat /\ k \in Nat /\ \A i \in (k + 1)..Len(l) : l[i] \in Halves
  OBVIOUS
<1>2. /\ SubSeq(l, k + 1, Len(l)) \in Seq(Halves)
      /\ Len(SubSeq(l, k + 1, Len(l))) = IF k + 1 <= Len(l) THEN Len(l) - (k + 1) + 1 ELSE 0
      /\ \A j \in 1..(Len(l) - (k + 1) + 1) : SubSeq(l, k + 1, Len(l))[j] = l[(k + 1) + j - 1]
  BY <1>1, SubSeqProperties
<1>3. QED
  BY <1>1, <1>2

LEMMA BufferAt ==
  ASSUME TypeOK, NEW k \in 1..Len(line)
  PROVE  \A i \in 1..(Len(rx) + k) : Buffer(k)[i] = In[i]
<1>1. line \in Seq(Halves) /\ rx \in Seq(Halves) /\ Len(line) \in Nat /\ Len(rx) \in Nat
  BY DEF TypeOK
<1> DEFINE front == SubSeq(line, 1, k)
<1>2. front \in Seq(Halves) /\ Len(front) = k /\ \A i \in 1..k : front[i] = line[i]
  <2>1. \A i \in 1..k : line[i] \in Halves
    BY <1>1
  <2>2. QED
    BY <1>1, <2>1, SubSeqProperties
<1>3. Buffer(k) = rx \o front
  BY DEF Buffer
<1> HIDE DEF front
<1> SUFFICES ASSUME NEW i \in 1..(Len(rx) + k) PROVE Buffer(k)[i] = In[i]
  OBVIOUS
<1>4. CASE i <= Len(rx)
  <2>1. i \in 1..Len(rx)
    BY <1>1, <1>4
  <2>2. QED
    BY <1>1, <1>2, <1>3, <2>1, InFacts DEF In
<1>5. CASE ~(i <= Len(rx))
  <2>1. PICK j \in 1..k : i = Len(rx) + j
    BY <1>1, <1>5
  <2>2. (rx \o front)[Len(rx) + j] = front[j] /\ (rx \o line)[Len(rx) + j] = line[j]
    BY <1>1, <1>2, <2>1, InFacts
  <2>3. QED
    BY <1>2, <1>3, <2>1, <2>2 DEF In
<1>6. QED
  BY <1>4, <1>5

LEMMA ShortIn ==
  ASSUME TypeOK, TypeOK', NEW k \in 1..Len(line), ReadShort(k)
  PROVE  In' = In
<1> DEFINE rest == SubSeq(line, k + 1, Len(line))
<1>1. line \in Seq(Halves) /\ rx \in Seq(Halves) /\ Len(line) \in Nat /\ Len(rx) \in Nat
  BY LineTypes
<1>0. PICK x \in Nat, l \in Nat : x = Len(rx) /\ l = Len(line) /\ k \in 1..l /\ Len(In) = x + l
  BY <1>1, InType
<1>2. rest \in Seq(Halves) /\ Len(rest) = Len(line) - k
      /\ \A j \in 1..(Len(line) - k) : rest[j] = line[k + j]
  BY <1>1, RestOfLine
<1>3. Buffer(k) \in Seq(Halves) /\ Len(Buffer(k)) = Len(rx) + k
  BY <1>1, BufferType
<1>4. In' = Buffer(k) \o rest
  BY DEF ReadShort, In
<1> HIDE DEF rest
<1>5. Len(In') = Len(In) /\ In \in Seq(Halves) /\ In' \in Seq(Halves)
  <2>1. Len(In') = (Len(rx) + k) + (Len(line) - k) /\ In' \in Seq(Halves)
    BY <1>2, <1>3, <1>4, InFacts
  <2>2. (x + k) + (l - k) = x + l
    BY <1>0
  <2>3. QED
    BY <1>0, <2>1, <2>2, InType
<1>6. ASSUME NEW i \in 1..Len(In) PROVE In'[i] = In[i]
  <2>1. Len(In) = Len(rx) + Len(line)
    BY InType
  <2>2. CASE i <= Len(rx) + k
    <3>1. i \in 1..Len(Buffer(k)) /\ i \in 1..(Len(rx) + k)
      BY <1>1, <1>3, <2>2, InType
    <3>2. (Buffer(k) \o rest)[i] = Buffer(k)[i]
      BY <1>2, <1>3, <3>1, InFacts
    <3>3. QED
      BY <1>4, <3>1, <3>2, BufferAt
  <2>3. CASE ~(i <= Len(rx) + k)
    <3>1. PICK j \in 1..(Len(line) - k) : i = (Len(rx) + k) + j
      <4>1. i \in 1..(x + l) /\ ~(i <= x + k)
        BY <1>0, <2>3
      <4>2. \E j \in 1..(l - k) : i = (x + k) + j
        <5>1. i - (x + k) \in 1..(l - k) /\ i = (x + k) + (i - (x + k))
          BY <1>0, <4>1
        <5>2. QED
          BY <5>1
      <4>3. QED
        BY <1>0, <4>2
    <3>2. (Buffer(k) \o rest)[Len(Buffer(k)) + j] = rest[j]
      BY <1>2, <1>3, <3>1, InFacts
    <3>3. k + j \in 1..Len(line) /\ i = Len(rx) + (k + j)
      BY <1>1, <3>1
    <3>4. In[i] = line[k + j]
      BY <1>1, <3>3, InFacts DEF In
    <3>5. QED
      BY <1>2, <1>3, <1>4, <3>1, <3>2, <3>4
  <2>4. QED
    BY <2>2, <2>3
<1>7. QED
  BY <1>5, <1>6, SeqEqual

LEMMA ConsumeIn ==
  ASSUME TypeOK, TypeOK', NEW k \in 1..Len(line), NEW leaves \in BOOLEAN, Consume(k, leaves)
  PROVE  /\ Len(In) >= 2 /\ In[1] = Buffer(k)[1] /\ In[2] = Buffer(k)[2]
         /\ Len(In') = Len(In) - 2
         /\ \A j \in 1..Len(In') : In'[j] = IF leaves THEN Mark(In[j + 2]) ELSE In[j + 2]
<1> DEFINE rest == SubSeq(line, k + 1, Len(line))
           buf == SubSeq(Buffer(k), 3, Len(Buffer(k)))
<1>1. line \in Seq(Halves) /\ rx \in Seq(Halves) /\ Len(line) \in Nat /\ Len(rx) \in Nat
      /\ rx' \in Seq(Halves) /\ line' \in Seq(Halves) /\ Len(In) = Len(rx) + Len(line)
  <2>1. rx' \in Seq(Halves) /\ line' \in Seq(Halves)
    BY DEF TypeOK
  <2>2. QED
    BY <2>1, LineTypes, InType
<1>0. PICK x \in Nat, l \in Nat : x = Len(rx) /\ l = Len(line) /\ k \in 1..l /\ Len(In) = x + l
  BY <1>1
<1>2. rest \in Seq(Halves) /\ Len(rest) = Len(line) - k
      /\ \A j \in 1..(Len(line) - k) : rest[j] = line[k + j]
  BY <1>1, RestOfLine
<1>3. Buffer(k) \in Seq(Halves) /\ Len(Buffer(k)) = Len(rx) + k /\ Len(Buffer(k)) >= 2
  BY <1>1, BufferType DEF Consume, FrameComplete
<1>4. PICK m \in Nat : m + 2 = Len(rx) + k
  <2>1. x + k >= 2
    BY <1>0, <1>3
  <2>2. x + k - 2 \in Nat /\ (x + k - 2) + 2 = x + k
    BY <1>0, <2>1
  <2>3. QED
    BY <1>0, <2>2
<1>5. buf \in Seq(Halves) /\ Len(buf) = m /\ \A j \in 1..m : buf[j] = Buffer(k)[j + 2]
  <2>1. PICK b \in Seq(Halves) : b = Buffer(k) /\ Len(b) = m + 2
    BY <1>3, <1>4
  <2>2. SubSeq(b, 2 + 1, Len(b)) \in Seq(Halves) /\ Len(SubSeq(b, 2 + 1, Len(b))) = Len(b) - 2
        /\ \A j \in 1..(Len(b) - 2) : SubSeq(b, 2 + 1, Len(b))[j] = b[2 + j]
    <3>1. 2 \in 0..Len(b)
      BY <2>1
    <3>2. QED
      BY <3>1, RestOfLine
  <2>3. QED
    BY <2>1, <2>2
<1>6. /\ rx' = IF leaves THEN Outdated(buf) ELSE buf
      /\ line' = IF leaves THEN Outdated(rest) ELSE rest
  BY DEF Consume
<1>7. In[1] = Buffer(k)[1] /\ In[2] = Buffer(k)[2] /\ Len(In) >= 2
  <2>1. 1 \in 1..(Len(rx) + k) /\ 2 \in 1..(Len(rx) + k)
    BY <1>1, <1>3
  <2>2. QED
    BY <1>1, <1>3, <2>1, BufferAt
<1> HIDE DEF rest, buf
<1>8. Len(rx') = m /\ Len(line') = Len(line) - k
  BY <1>2, <1>5, <1>6, OutdatedType
<1>9. Len(In') = Len(In) - 2 /\ Len(In') = m + (Len(line) - k)
  <2>1. Len(In') = Len(rx') + Len(line')
    BY <1>1, InFacts DEF In
  <2>2. m + 2 = x + k /\ k \in 1..l
    BY <1>0, <1>4
  <2>3. m + (l - k) = x + l - 2
    BY <1>0, <2>2
  <2>4. QED
    BY <1>0, <1>8, <2>1, <2>3
<1>10. ASSUME NEW j \in 1..Len(In')
       PROVE  In'[j] = IF leaves THEN Mark(In[j + 2]) ELSE In[j + 2]
  <2>1. CASE j <= m
    <3>1. j \in 1..m /\ j + 2 \in 1..(Len(rx) + k)
      BY <1>1, <1>4, <2>1, <1>9
    <3>2. In'[j] = rx'[j]
      BY <1>1, <1>8, <3>1, InFacts DEF In
    <3>3. buf[j] = In[j + 2]
      BY <1>5, <3>1, BufferAt
    <3>4. QED
      BY <1>5, <1>6, <3>1, <3>2, <3>3, OutdatedAt
  <2>2. CASE ~(j <= m)
    <3>1. PICK i \in 1..(Len(line) - k) : j = m + i
      BY <1>1, <1>9, <2>2
    <3>2. In'[j] = line'[i]
      BY <1>1, <1>8, <3>1, InFacts DEF In
    <3>3. k + i \in 1..Len(line) /\ j + 2 = Len(rx) + (k + i)
      <4>1. i \in 1..(l - k) /\ j = m + i /\ m + 2 = x + k
        BY <1>0, <1>4, <3>1
      <4>2. k + i \in 1..l /\ j + 2 = x + (k + i)
        BY <1>0, <4>1
      <4>3. QED
        BY <1>0, <4>2
    <3>4. In[j + 2] = line[k + i]
      BY <1>1, <3>3, InFacts DEF In
    <3>5. rest[i] = In[j + 2]
      BY <1>2, <3>1, <3>4
    <3>6. Len(rest) \in Nat /\ i \in 1..Len(rest)
      BY <1>2, <3>1
    <3>7. QED
      BY <1>6, <3>2, <3>5, <3>6, OutdatedAt
  <2>3. QED
    BY <2>1, <2>2
<1>11. QED
  BY <1>7, <1>9, <1>10

\* What is sent, if anything, is the first command of the list.
Sends(old) == \/ toMcu' = old
              \/ cmd_pending' # <<>> /\ toMcu' = Append(old, Frame(cmd_pending'[1]))

LEMMA ConsumeSends ==
  ASSUME TypeOK, TypeOK', NEW k \in 1..Len(line), NEW leaves \in BOOLEAN, Consume(k, leaves)
  PROVE  Sends(IF leaves THEN Outdated(toMcu) ELSE toMcu)
<1>1. toMcu' = poe_cmd_next(IF leaves THEN Outdated(toMcu) ELSE toMcu, cmd_pending',
                            mcu_error_timeout')
  BY DEF Consume
<1>2. cmd_pending' \in Seq(QueuedCommands)
  BY DEF TypeOK
<1>3. cmd_pending' # <<>> => Head(cmd_pending') = cmd_pending'[1]
  BY <1>2
<1>4. QED
  BY <1>1, <1>3 DEF poe_cmd_next, poe_cmd_send, Sends

LEMMA QueueOut ==
  ASSUME TypeOK, NEW batch \in Seq(Commands), Len(batch) > 0, poe_cmd_queue(batch)
  PROVE  Sends(toMcu) /\ In' = In
<1>1. In' = In
  BY DEF poe_cmd_queue, In
<1> DEFINE new == Stamped(batch, cmd_seq)
<1>2. new \in Seq(QueuedCommands) /\ Len(new) = Len(batch)
  BY StampedType, PoeSizesAssumption DEF TypeOK
<1>3. /\ cmd_pending' = cmd_pending \o new
      /\ toMcu' = IF cmd_pending = <<>>
                  THEN poe_cmd_send(toMcu, new[1], mcu_error_timeout) ELSE toMcu
  BY DEF poe_cmd_queue
<1> HIDE DEF new
<1>4. ASSUME cmd_pending = <<>> PROVE cmd_pending' # <<>> /\ cmd_pending'[1] = new[1]
  <2>1. cmd_pending' = new
    BY <1>2, <1>3, <1>4
  <2>2. QED
    BY <1>2, <2>1
<1>5. QED
  BY <1>1, <1>3, <1>4 DEF Sends, poe_cmd_send

LEMMA ClearOut ==
  ASSUME TypeOK, mcu_clear_timeout
  PROVE  Sends(toMcu) /\ In' = In /\ cmd_pending' = cmd_pending
<1>1. In' = In /\ cmd_pending' = cmd_pending
  BY DEF mcu_clear_timeout, In
<1>2. cmd_pending # <<>> => Head(cmd_pending) = cmd_pending[1]
  BY DEF TypeOK
<1>3. QED
  BY <1>1, <1>2 DEF Sends, mcu_clear_timeout, poe_cmd_next, poe_cmd_send

LEMMA HalvesAssociative ==
  ASSUME NEW a \in Seq(Halves), NEW b \in Seq(Halves), NEW c \in Seq(Halves)
  PROVE  a \o (b \o c) = (a \o b) \o c
BY ConcatAssociative

LEMMA McuIn ==
  ASSUME TypeOK, McuStep
  PROVE  /\ toMcu # <<>> /\ toMcu' = Tail(toMcu)
         /\ \E kind \in {"ok", "f0"} :
              /\ In' = In \o <<Half(toMcu[1], kind, 1), Half(toMcu[1], kind, 2)>>
              /\ mcuOn' = [p \in Ports |-> IF kind = "ok" /\ toMcu[1].id = "enable"
                                              /\ toMcu[1].port = p
                                           THEN toMcu[1].on ELSE mcuOn[p]]
         /\ Half(toMcu[1], "ok", 1) \in Halves /\ Half(toMcu[1], "ok", 2) \in Halves
         /\ Half(toMcu[1], "f0", 1) \in Halves /\ Half(toMcu[1], "f0", 2) \in Halves
<1> DEFINE c == toMcu[1]
<1>1. PICK kind \in {"ok", "f0"} :
        /\ toMcu # <<>> /\ toMcu' = Tail(toMcu)
        /\ line' = line \o <<Half(Head(toMcu), kind, 1), Half(Head(toMcu), kind, 2)>>
        /\ mcuOn' = [p \in Ports |-> IF kind = "ok" /\ Head(toMcu).id = "enable"
                                        /\ Head(toMcu).port = p
                                     THEN Head(toMcu).on ELSE mcuOn[p]]
        /\ rx' = rx
  BY DEF McuStep, daemon
<1>2. Head(toMcu) = c /\ c \in SentFrames
  BY <1>1 DEF TypeOK
<1>3. c.id \in CommandIds /\ c.port \in Nat /\ c.seq \in 0..(SeqMod - 1) /\ c.life \in Lives
  BY <1>2 DEF SentFrames
<1> HIDE DEF c
<1>4. \A kd \in {"ok", "f0"} : Half(c, kd, 1) \in Halves /\ Half(c, kd, 2) \in Halves
  BY <1>3 DEF Half, Halves, Dark, TypeOK
<1> DEFINE two == <<Half(c, kind, 1), Half(c, kind, 2)>>
<1>5. two \in Seq(Halves)
  BY <1>4
<1>6. line' = line \o two
  BY <1>1, <1>2
<1> HIDE DEF two
<1>7. In' = In \o two
  <2>1. rx \o (line \o two) = (rx \o line) \o two
    <3>1. rx \in Seq(Halves) /\ line \in Seq(Halves)
      BY LineTypes
    <3>2. QED
      BY <1>5, <3>1, HalvesAssociative
  <2>2. rx' = rx
    BY <1>1
  <2>3. QED
    BY <1>6, <2>1, <2>2 DEF In
<1>8. In' = In \o <<Half(toMcu[1], kind, 1), Half(toMcu[1], kind, 2)>>
  BY <1>7, Zenon DEF two, c
<1>9. mcuOn' = [p \in Ports |-> IF kind = "ok" /\ toMcu[1].id = "enable" /\ toMcu[1].port = p
                                THEN toMcu[1].on ELSE mcuOn[p]]
  BY <1>1, <1>2 DEF c
<1>10. /\ Half(toMcu[1], "ok", 1) \in Halves /\ Half(toMcu[1], "ok", 2) \in Halves
       /\ Half(toMcu[1], "f0", 1) \in Halves /\ Half(toMcu[1], "f0", 2) \in Halves
  BY <1>4 DEF c
<1>11. toMcu # <<>> /\ toMcu' = Tail(toMcu) /\ kind \in {"ok", "f0"}
  BY <1>1
<1>12. QED
  BY <1>8, <1>9, <1>10, <1>11, Zenon

LEMMA NoiseIn ==
  ASSUME TypeOK, Noise
  PROVE  In' = Append(In, Junk) /\ toMcu' = toMcu
<1>1. line' = Append(line, Junk) /\ rx' = rx /\ toMcu' = toMcu
  BY DEF Noise, daemon
<1>2. Append(line, Junk) = line \o <<Junk>> /\ Append(In, Junk) = In \o <<Junk>>
  BY LineTypes, InType, JunkType, AppendIsConcat
<1>3. <<Junk>> \in Seq(Halves)
  BY JunkType
<1>4. In' = In \o <<Junk>>
  <2>1. rx \in Seq(Halves) /\ line \in Seq(Halves)
    BY LineTypes
  <2>2. rx \o (line \o <<Junk>>) = (rx \o line) \o <<Junk>>
    BY <1>3, <2>1, HalvesAssociative
  <2>3. QED
    BY <1>1, <1>2, <2>2 DEF In
<1>5. QED
  BY <1>1, <1>2, <1>4

LEMMA DamageIn ==
  ASSUME TypeOK, TypeOK', Damage
  PROVE  /\ Len(In') = Len(In) /\ toMcu' = toMcu
         /\ \A i \in 1..Len(In) : In'[i] = In[i] \/ In'[i] = Junk
<1>1. PICK j \in 1..Len(line) : line' = [line EXCEPT ![j] = Junk] /\ rx' = rx /\ toMcu' = toMcu
  BY DEF Damage, daemon
<1>2. /\ line' \in Seq(Halves) /\ Len(line') = Len(line)
      /\ \A i \in 1..Len(line) : line'[i] = IF i = j THEN Junk ELSE line[i]
  BY <1>1, JunkType, LineTypes, ExceptSeq
<1>3. In' = rx \o line'
  BY <1>1 DEF In
<1>4. Len(In') = Len(In)
  BY <1>2, <1>3, LineTypes, InFacts DEF In
<1>5. ASSUME NEW i \in 1..Len(In) PROVE In'[i] = In[i] \/ In'[i] = Junk
  <2>0. PICK x \in Nat, l \in Nat : x = Len(rx) /\ l = Len(line) /\ Len(In) = x + l
    BY InType
  <2>1. CASE i <= Len(rx)
    <3>1. i \in 1..Len(rx)
      BY <2>0, <2>1
    <3>2. QED
      BY <1>2, <1>3, <3>1, LineTypes, InFacts DEF In
  <2>2. CASE ~(i <= Len(rx))
    <3>1. i - x \in 1..l /\ i = x + (i - x)
      BY <2>0, <2>2
    <3>2. PICK m \in 1..Len(line) : i = Len(rx) + m
      BY <2>0, <3>1
    <3>3. In[i] = line[m] /\ In'[i] = line'[m]
      BY <1>2, <1>3, <3>2, LineTypes, InFacts DEF In
    <3>4. QED
      BY <1>2, <3>2, <3>3
  <2>3. QED
    BY <2>1, <2>2
<1>6. QED
  BY <1>1, <1>4, <1>5

\* A half is lost behind those that were read.
LEMMA LoseIn ==
  ASSUME TypeOK, Lose
  PROVE  \/ /\ toMcu' = toMcu /\ Len(In') = Len(In) - 1 /\ In' \in Seq(Halves)
            /\ \A i \in 1..Len(In') : In'[i] = In[i] \/ In'[i] = In[i + 1]
         \/ toMcu # <<>> /\ toMcu' = Tail(toMcu) /\ In' = In
<1>1. rx' = rx
  BY DEF Lose, daemon
<1>2. CASE line # <<>> /\ line' = Tail(line) /\ toMcu' = toMcu
  <2>1. /\ line' \in Seq(Halves) /\ Len(line') = Len(line) - 1
        /\ \A i \in 1..Len(line') : line'[i] = line[i + 1]
    BY <1>2, LineTypes, HeadTailProperties
  <2>2. In' = rx \o line'
    BY <1>1 DEF In
  <2>3. PICK x \in Nat, l \in Nat : x = Len(rx) /\ l = Len(line') /\ Len(line) = l + 1
    BY <2>1, LineTypes
  <2>4. Len(In) = x + l + 1 /\ Len(In') = x + l /\ In' \in Seq(Halves)
    <3>1. Len(In') = Len(rx) + Len(line') /\ In' \in Seq(Halves)
      BY <2>1, <2>2, LineTypes, InFacts
    <3>2. Len(In) = Len(rx) + Len(line)
      BY InType
    <3>3. QED
      BY <2>3, <3>1, <3>2
  <2>5. ASSUME NEW i \in 1..Len(In') PROVE In'[i] = In[i] \/ In'[i] = In[i + 1]
    <3>1. CASE i <= x
      <4>1. i \in 1..Len(rx)
        BY <2>3, <3>1
      <4>2. QED
        BY <2>1, <2>2, <4>1, LineTypes, InFacts DEF In
    <3>2. CASE ~(i <= x)
      <4>1. i - x \in 1..l /\ i = x + (i - x)
        BY <2>4, <3>2
      <4>2. PICK m \in 1..l : i = x + m
        BY <4>1
      <4>3. m \in 1..Len(line') /\ m + 1 \in 1..Len(line) /\ i + 1 = Len(rx) + (m + 1)
        BY <2>3, <4>2
      <4>4. In'[i] = line'[m] /\ In[i + 1] = line[m + 1]
        BY <2>1, <2>2, <2>3, <4>2, <4>3, LineTypes, InFacts DEF In
      <4>5. QED
        BY <2>1, <4>3, <4>4
    <3>3. QED
      BY <3>1, <3>2
  <2>6. QED
    BY <1>2, <2>4, <2>5
<1>3. CASE toMcu # <<>> /\ toMcu' = Tail(toMcu) /\ line' = line
  BY <1>1, <1>3 DEF In
<1>4. QED
  BY <1>2, <1>3 DEF Lose

LEMMA RestartIn ==
  ASSUME TypeOK, Restart
  PROVE  /\ In' = line' /\ Len(In') <= Len(line)
         /\ \A i \in 1..Len(In') : In'[i] \in Halves /\ In'[i].life = "former"
         /\ toMcu' = Append(Former(toMcu), Frame(cmd_pending'[1]))
         /\ cmd_pending' = Stamped(poe_initial_setup(enable'), 0) /\ cmd_pending' # <<>>
         /\ enable' \in [Ports -> BOOLEAN] /\ want' = enable'
         /\ cmd_seq' = Len(poe_initial_setup(enable')) % SeqMod
<1>1. PICK k \in 0..Len(line) : line' = Former(SubSeq(line, k + 1, Len(line)))
  BY DEF Restart
<1> DEFINE late == SubSeq(line, k + 1, Len(line))
<1>2. late \in Seq(Halves) /\ Len(late) = Len(line) - k
  BY LineTypes, RestOfLine
<1>3. line' \in Seq(Halves) /\ Len(line') = Len(late)
  BY <1>1, <1>2, FormerType
<1>4. rx' = <<>>
  BY DEF Restart
<1>5. In' = line'
  BY <1>3, <1>4, ConcatEmptySeq DEF In
<1>6. Len(In') <= Len(line)
  BY <1>2, <1>3, <1>5, LineTypes
<1> HIDE DEF late
<1>7. ASSUME NEW i \in 1..Len(In') PROVE In'[i] \in Halves /\ In'[i].life = "former"
  <2>1. i \in 1..Len(late) /\ late[i] \in Halves
    BY <1>2, <1>3, <1>5
  <2>2. In'[i] = [late[i] EXCEPT !.life = "former"]
    BY <1>1, <1>5, <2>1 DEF Former, late
  <2>3. QED
    BY <2>1, <2>2 DEF Halves, Lives
<1>8. /\ cmd_pending' = Stamped(poe_initial_setup(enable'), 0) /\ want' = enable'
      /\ enable' \in [Ports -> BOOLEAN] /\ cmd_seq' = Len(poe_initial_setup(enable')) % SeqMod
      /\ toMcu' = Append(Former(toMcu), Frame(Head(cmd_pending')))
  BY DEF Restart, config_load
<1>9. TypeOK' /\ Awaiting'
  BY RestartLines
<1>10. cmd_pending' \in Seq(QueuedCommands) /\ cmd_pending' # <<>>
  BY <1>9 DEF TypeOK, Awaiting
<1>11. Head(cmd_pending') = cmd_pending'[1]
  BY <1>10
<1>12. QED
  BY <1>5, <1>6, <1>7, <1>8, <1>10, <1>11

-----------------------------------------------------------------------------
(***************************************************************************)
(* Answers and commands keep in step, up to noise.  An answer, or the      *)
(* frame that it will answer, has a halves before it on the line; h is the *)
(* number of the command that the daemon takes the next reply for, and z   *)
(* the noise.  A live one comes after nothing but noise.  For each command *)
(* that has left the list since the one it belongs to, two halves were     *)
(* read in its place, which were noise too.                                *)
(***************************************************************************)
InStep(f, a, h, z) ==
  /\ f.life = "live" => f.seq = h /\ a <= z
  /\ f.life = "stale" => Dist(f.seq, h) >= 1 /\ 2 * Dist(f.seq, h) + a <= z

InInStep(s, h, z) == \A j \in 1..Len(s) : s[j].part = 1 => InStep(s[j], j - 1, h, z)
OutInStep(t, n, h, z) == \A j \in 1..Len(t) : InStep(t[j], n + 2 * (j - 1), h, z)

\* The number of the command that is answered next.
HeadSeq == IF cmd_pending = <<>> THEN Succ(cmd_seq) ELSE cmd_pending[1].seq

\* The commands of a list are numbered one after the other, up to n.
Consecutive(list, n) ==
  /\ \A i \in 1..(Len(list) - 1) : list[i + 1].seq = Succ(list[i].seq)
  /\ list # <<>> => list[Len(list)].seq = n

StepInv ==
  /\ Consecutive(cmd_pending, cmd_seq)
  /\ noise <= faults + 2 * restarts
  /\ InInStep(In, HeadSeq, noise)
  /\ OutInStep(toMcu, Len(In), HeadSeq, noise)

\* Fewer halves that answer nothing than two for each sequence number.
FewStrays == MaxFaults + 2 * MaxRestarts < 2 * SeqMod

Numbered(f) == f \in Halves \/ f \in SentFrames

LEMMA MarkFacts ==
  ASSUME NEW f, Numbered(f)
  PROVE  /\ f.seq \in SeqNumbers /\ f.life \in Lives
         /\ Mark(f).seq = f.seq /\ Mark(f).life = IF f.life = "live" THEN "stale" ELSE f.life
<1>1. CASE f \in Halves
  BY <1>1 DEF Halves, Mark, SeqNumbers
<1>2. CASE f \in SentFrames
  BY <1>2 DEF SentFrames, Mark, SeqNumbers
<1>3. QED
  BY <1>1, <1>2 DEF Numbered

LEMMA InStepSooner ==
  ASSUME NEW f, Numbered(f), NEW a \in Nat, NEW b \in Nat, b <= a, NEW h \in SeqNumbers,
         NEW z \in Nat, InStep(f, a, h, z)
  PROVE  InStep(f, b, h, z)
<1>1. f.seq \in SeqNumbers
  BY MarkFacts
<1>2. PICK d \in Nat : d = Dist(f.seq, h)
  BY <1>1, DistFacts
<1>3. QED
  BY <1>2 DEF InStep

LEMMA InStepNoise ==
  ASSUME NEW f, Numbered(f), NEW a \in Nat, NEW h \in SeqNumbers, NEW z \in Nat,
         InStep(f, a, h, z)
  PROVE  InStep(f, a + 1, h, z + 1) /\ InStep(f, a, h, z + 1)
<1>1. f.seq \in SeqNumbers
  BY MarkFacts
<1>2. PICK d \in Nat : d = Dist(f.seq, h)
  BY <1>1, DistFacts
<1>3. QED
  BY <1>2 DEF InStep

\* A command leaves the list.
LEMMA InStepMark ==
  ASSUME NEW f, Numbered(f), NEW a \in Nat, a >= 2, NEW h \in SeqNumbers, NEW z \in Nat,
         z < 2 * SeqMod, InStep(f, a, h, z)
  PROVE  InStep(Mark(f), a - 2, Succ(h), z)
<1>1. f.seq \in SeqNumbers /\ f.life \in Lives /\ SeqMod \in Nat /\ SeqMod >= 1
      /\ Mark(f).seq = f.seq /\ Mark(f).life = IF f.life = "live" THEN "stale" ELSE f.life
  BY MarkFacts, PoeSizesAssumption
<1>2. PICK d \in Nat : d = Dist(f.seq, h)
  BY <1>1, DistFacts
<1>3. d < SeqMod - 1 => Dist(f.seq, Succ(h)) = d + 1
  BY <1>1, <1>2, DistFacts
<1>4. CASE f.life = "live"
  <2>1. d = 0 /\ a <= z
    BY <1>1, <1>2, <1>4, DistFacts DEF InStep
  <2>2. 0 < SeqMod - 1
    BY <1>1, <2>1
  <2>3. Dist(f.seq, Succ(h)) = 1
    BY <1>3, <2>1, <2>2
  <2>4. QED
    BY <1>1, <1>4, <2>1, <2>3 DEF InStep
<1>5. CASE f.life = "stale"
  <2>1. d >= 1 /\ 2 * d + a <= z
    BY <1>2, <1>5 DEF InStep
  <2>2. d < SeqMod - 1
    BY <1>1, <2>1
  <2>3. Dist(f.seq, Succ(h)) = d + 1
    BY <1>3, <2>2
  <2>4. QED
    BY <1>1, <1>5, <2>1, <2>3 DEF InStep
<1>6. CASE f.life = "former"
  BY <1>1, <1>6 DEF InStep
<1>7. QED
  BY <1>1, <1>4, <1>5, <1>6 DEF Lives

-----------------------------------------------------------------------------
(***************************************************************************)
(* The numbers of the list.                                                *)
(***************************************************************************)
LEMMA HeadSeqType == ASSUME TypeOK PROVE HeadSeq \in SeqNumbers
<1>1. CASE cmd_pending = <<>>
  BY <1>1, DistFacts DEF HeadSeq, TypeOK, SeqNumbers
<1>2. CASE cmd_pending # <<>>
  <2>1. cmd_pending[1] \in QueuedCommands
    BY <1>2, LineTypes
  <2>2. QED
    BY <1>2, <2>1 DEF HeadSeq, QueuedCommands, SeqNumbers
<1>3. QED
  BY <1>1, <1>2

LEMMA StampedConsecutive ==
  ASSUME NEW batch \in Seq(Commands), NEW seq \in Nat, Len(batch) > 0
  PROVE  /\ Consecutive(Stamped(batch, seq), (seq + Len(batch)) % SeqMod)
         /\ Stamped(batch, seq)[1].seq = Succ(seq % SeqMod)
<1> DEFINE new == Stamped(batch, seq)
<1>1. Len(batch) \in Nat /\ Len(new) = Len(batch)
  BY StampedType
<1>2. \A i \in 1..Len(batch) : new[i].seq = (seq + i) % SeqMod
  BY <1>1 DEF Stamped
<1>3. ASSUME NEW i \in 1..(Len(batch) - 1)
      PROVE  new[i + 1].seq = Succ(new[i].seq)
  <2>1. i \in 1..Len(batch) /\ i + 1 \in 1..Len(batch) /\ seq + i \in Nat
        /\ seq + (i + 1) = (seq + i) + 1
    BY <1>1
  <2>2. ((seq + i) + 1) % SeqMod = Succ((seq + i) % SeqMod)
    BY <2>1, ModSucc
  <2>3. new[i].seq = (seq + i) % SeqMod /\ new[i + 1].seq = (seq + (i + 1)) % SeqMod
    BY <1>2, <2>1
  <2>4. QED
    BY <2>1, <2>2, <2>3
<1>4. new[1].seq = Succ(seq % SeqMod)
  BY <1>1, <1>2, ModSucc
<1>5. new[Len(batch)].seq = (seq + Len(batch)) % SeqMod
  BY <1>1, <1>2
<1> HIDE DEF new
<1>6. QED
  BY <1>1, <1>3, <1>4, <1>5 DEF Consecutive, new

LEMMA QueueNumbers ==
  ASSUME TypeOK, Consecutive(cmd_pending, cmd_seq), NEW batch \in Seq(Commands), Len(batch) > 0,
         poe_cmd_queue(batch)
  PROVE  Consecutive(cmd_pending, cmd_seq)' /\ HeadSeq' = HeadSeq
<1> DEFINE new == Stamped(batch, cmd_seq)
<1>1. cmd_seq \in SeqNumbers /\ cmd_seq \in Nat
  BY PoeSizesAssumption DEF TypeOK, SeqNumbers
<1>2. /\ new \in Seq(QueuedCommands) /\ Len(new) = Len(batch) /\ Len(batch) \in Nat
      /\ Consecutive(new, (cmd_seq + Len(batch)) % SeqMod) /\ new[1].seq = Succ(cmd_seq)
  <2>1. new \in Seq(QueuedCommands) /\ Len(new) = Len(batch) /\ Len(batch) \in Nat
    BY <1>1, StampedType
  <2>2. Consecutive(new, (cmd_seq + Len(batch)) % SeqMod) /\ new[1].seq = Succ(cmd_seq % SeqMod)
    BY <1>1, StampedConsecutive
  <2>3. QED
    BY <1>1, <2>1, <2>2, ModSame
<1>3. cmd_pending' = cmd_pending \o new /\ cmd_seq' = (cmd_seq + Len(batch)) % SeqMod
  BY DEF poe_cmd_queue
<1> HIDE DEF new
<1>4. PICK m \in Nat, n \in Nat : m = Len(cmd_pending) /\ n = Len(new) /\ n > 0
  BY <1>2, LineTypes
<1>5. /\ Len(cmd_pending') = m + n /\ cmd_pending' \in Seq(QueuedCommands)
      /\ \A i \in 1..m : cmd_pending'[i] = cmd_pending[i]
      /\ \A i \in 1..n : cmd_pending'[m + i] = new[i]
  <2>1. cmd_pending \in Seq(QueuedCommands) /\ new \in Seq(QueuedCommands)
    BY <1>2, LineTypes
  <2>2. /\ cmd_pending \o new \in Seq(QueuedCommands) /\ Len(cmd_pending \o new) = m + n
        /\ \A i \in 1..(m + n) : (cmd_pending \o new)[i] = IF i <= m THEN cmd_pending[i] ELSE new[i - m]
    BY <1>4, <2>1, ConcatProperties
  <2>3. QED
    BY <1>3, <2>2
<1>6. ASSUME NEW i \in 1..(m + n - 1)
      PROVE  cmd_pending'[i + 1].seq = Succ(cmd_pending'[i].seq)
  <2>1. CASE i < m
    <3>1. i \in 1..(m - 1) /\ i \in 1..m /\ i + 1 \in 1..m
      BY <2>1
    <3>2. QED
      BY <1>4, <1>5, <3>1 DEF Consecutive
  <2>2. CASE i = m
    <3>1. cmd_pending # <<>> /\ i \in 1..m /\ 1 \in 1..n
      BY <1>4, <2>2
    <3>2. cmd_pending'[i + 1] = new[1] /\ cmd_pending'[i] = cmd_pending[m]
      BY <1>5, <2>2, <3>1
    <3>3. cmd_pending[m].seq = cmd_seq
      BY <1>4, <3>1 DEF Consecutive
    <3>4. QED
      BY <1>2, <3>2, <3>3
  <2>3. CASE i > m
    <3>1. i - m \in 1..(n - 1) /\ i - m \in 1..n /\ (i - m) + 1 \in 1..n
          /\ m + (i - m) = i /\ m + ((i - m) + 1) = i + 1
      BY <1>4, <2>3
    <3>2. PICK j \in 1..(n - 1) : j = i - m /\ j \in 1..n /\ j + 1 \in 1..n
                                  /\ m + j = i /\ m + (j + 1) = i + 1
      BY <3>1
    <3>3. cmd_pending'[i] = new[j] /\ cmd_pending'[i + 1] = new[j + 1]
      BY <1>5, <3>2
    <3>4. new[j + 1].seq = Succ(new[j].seq)
      BY <1>2, <1>4, <3>2 DEF Consecutive
    <3>5. QED
      BY <3>3, <3>4
  <2>4. QED
    BY <2>1, <2>2, <2>3
<1>7. cmd_pending'[Len(cmd_pending')].seq = cmd_seq'
  <2>1. new # <<>> /\ new[n].seq = cmd_seq'
    BY <1>2, <1>3, <1>4 DEF Consecutive
  <2>2. cmd_pending'[m + n] = new[n]
    BY <1>4, <1>5
  <2>3. QED
    BY <1>5, <2>1, <2>2
<1>8. Consecutive(cmd_pending, cmd_seq)'
  BY <1>5, <1>6, <1>7 DEF Consecutive
<1>9. cmd_pending' # <<>>
  BY <1>4, <1>5
<1>10. CASE cmd_pending = <<>>
  <2>1. m = 0 /\ 1 \in 1..n
    BY <1>4, <1>10
  <2>2. cmd_pending'[1] = new[1]
    BY <1>5, <2>1
  <2>3. QED
    BY <1>2, <1>8, <1>9, <1>10, <2>2 DEF HeadSeq
<1>11. CASE cmd_pending # <<>>
  <2>1. 1 \in 1..m
    BY <1>4, <1>11, LineTypes
  <2>2. cmd_pending'[1] = cmd_pending[1]
    BY <1>5, <2>1
  <2>3. QED
    BY <1>8, <1>9, <1>11, <2>2 DEF HeadSeq
<1>12. QED
  BY <1>10, <1>11

LEMMA LeaveNumbers ==
  ASSUME TypeOK, Consecutive(cmd_pending, cmd_seq), cmd_pending # <<>>,
         cmd_pending' = Tail(cmd_pending), cmd_seq' = cmd_seq
  PROVE  Consecutive(cmd_pending, cmd_seq)' /\ HeadSeq' = Succ(HeadSeq)
<1>1. PICK m \in Nat : m + 1 = Len(cmd_pending)
  <2>1. Len(cmd_pending) \in Nat /\ Len(cmd_pending) > 0
    BY LineTypes
  <2>2. Len(cmd_pending) - 1 \in Nat /\ (Len(cmd_pending) - 1) + 1 = Len(cmd_pending)
    BY <2>1
  <2>3. QED
    BY <2>2
<1>2. /\ Len(cmd_pending') = m /\ cmd_pending' \in Seq(QueuedCommands)
      /\ \A i \in 1..m : cmd_pending'[i] = cmd_pending[i + 1]
  BY <1>1, LineTypes, HeadTailProperties
<1>3. HeadSeq = cmd_pending[1].seq /\ cmd_pending[m + 1].seq = cmd_seq
      /\ \A i \in 1..m : cmd_pending[i + 1].seq = Succ(cmd_pending[i].seq)
  BY <1>1 DEF HeadSeq, Consecutive
<1>4. CASE m = 0
  <2>1. cmd_pending' = <<>>
    BY <1>2, <1>4
  <2>2. HeadSeq' = Succ(cmd_seq') /\ cmd_pending[1].seq = cmd_seq
    BY <1>3, <1>4, <2>1 DEF HeadSeq
  <2>3. Consecutive(cmd_pending, cmd_seq)'
    BY <1>2, <1>4, <2>1 DEF Consecutive
  <2>4. QED
    BY <1>3, <2>2, <2>3
<1>5. CASE m # 0
  <2>1. cmd_pending' # <<>> /\ 1 \in 1..m /\ m \in 1..m
    <3>1. 1 \in 1..m /\ m \in 1..m
      BY <1>5
    <3>2. Len(cmd_pending') # 0
      BY <1>2, <1>5
    <3>3. QED
      BY <3>1, <3>2
  <2>2. HeadSeq' = Succ(HeadSeq)
    BY <1>2, <1>3, <2>1 DEF HeadSeq
  <2>3. cmd_pending'[m].seq = cmd_seq'
    BY <1>2, <1>3, <2>1
  <2>4. ASSUME NEW i \in 1..(m - 1) PROVE cmd_pending'[i + 1].seq = Succ(cmd_pending'[i].seq)
    <3>1. i \in 1..m /\ i + 1 \in 1..m
      BY <1>1
    <3>2. QED
      BY <1>2, <1>3, <3>1
  <2>5. QED
    BY <1>2, <2>2, <2>3, <2>4 DEF Consecutive
<1>6. QED
  BY <1>4, <1>5

\* A list with the same numbers.
LEMMA SameNumbers ==
  ASSUME TypeOK, TypeOK', Consecutive(cmd_pending, cmd_seq), Len(cmd_pending') = Len(cmd_pending),
         \A i \in 1..Len(cmd_pending) : cmd_pending'[i].seq = cmd_pending[i].seq, cmd_seq' = cmd_seq
  PROVE  Consecutive(cmd_pending, cmd_seq)' /\ HeadSeq' = HeadSeq
<1>1. PICK m \in Nat : m = Len(cmd_pending) /\ m = Len(cmd_pending')
  BY LineTypes
<1>2. cmd_pending = <<>> <=> m = 0
  BY <1>1, LineTypes
<1>3. cmd_pending' = <<>> <=> m = 0
  BY <1>1 DEF TypeOK
<1>4. HeadSeq' = HeadSeq
  BY <1>1, <1>2, <1>3 DEF HeadSeq
<1>5. \A i \in 1..(m - 1) : i \in 1..m /\ i + 1 \in 1..m
  BY <1>1
<1>6. m # 0 => m \in 1..m
  BY <1>1
<1>7. QED
  BY <1>1, <1>2, <1>3, <1>4, <1>5, <1>6 DEF Consecutive

-----------------------------------------------------------------------------
(***************************************************************************)
(* Every step keeps answers and commands in step.                          *)
(***************************************************************************)
LEMMA NextLines ==
  ASSUME TypeOK'
  PROVE  /\ In' \in Seq(Halves) /\ Len(In') \in Nat
         /\ toMcu' \in Seq(SentFrames) /\ Len(toMcu') \in Nat
         /\ cmd_pending' \in Seq(QueuedCommands) /\ Len(cmd_pending') \in Nat
         /\ OnTheWay' = 2 * Len(toMcu') + Len(In')
         /\ HeadSeq' \in SeqNumbers /\ noise' \in Nat
<1>1. /\ rx' \in Seq(Halves) /\ line' \in Seq(Halves) /\ toMcu' \in Seq(SentFrames)
      /\ cmd_pending' \in Seq(QueuedCommands) /\ noise' \in Nat /\ cmd_seq' \in SeqNumbers
  BY DEF TypeOK, SeqNumbers
<1>2. In' \in Seq(Halves) /\ Len(In') = Len(rx') + Len(line')
  BY <1>1, InFacts DEF In
<1>3. /\ Len(In') \in Nat /\ Len(toMcu') \in Nat /\ Len(cmd_pending') \in Nat
      /\ Len(rx') \in Nat /\ Len(line') \in Nat
  BY <1>1, <1>2
<1>4. OnTheWay' = 2 * Len(toMcu') + Len(In')
  BY <1>2, <1>3 DEF OnTheWay
<1>5. HeadSeq' \in SeqNumbers
  <2>1. CASE cmd_pending' = <<>>
    BY <1>1, <2>1, DistFacts DEF HeadSeq
  <2>2. CASE cmd_pending' # <<>>
    <3>1. cmd_pending'[1] \in QueuedCommands
      BY <1>1, <2>2
    <3>2. QED
      BY <2>2, <3>1 DEF HeadSeq, QueuedCommands, SeqNumbers
  <2>3. QED
    BY <2>1, <2>2
<1>6. QED
  BY <1>1, <1>2, <1>3, <1>4, <1>5

\* The frame that is sent comes after nothing but noise: the account of the
\* line says so.
LEMMA SendInStep ==
  ASSUME TypeOK', LineAccount', NEW old \in Seq(SentFrames), Sends(old),
         OutInStep(old, Len(In'), HeadSeq', noise')
  PROVE  OutInStep(toMcu, Len(In), HeadSeq, noise)'
<1>1. CASE toMcu' = old
  BY <1>1
<1>2. CASE toMcu' # old
  <2> DEFINE f == Frame(cmd_pending'[1])
  <2>1. cmd_pending' # <<>> /\ toMcu' = Append(old, f) /\ f.life = "live" /\ f.seq = HeadSeq'
    BY <1>2 DEF Sends, Frame, HeadSeq
  <2> HIDE DEF f
  <2>2. PICK m \in Nat, n \in Nat, z \in Nat :
          m = Len(old) /\ n = Len(In') /\ z = noise' /\ Len(toMcu') = m + 1
    BY <2>1, NextLines
  <2>3. 2 * (m + 1) + n <= 2 + z
    <3>1. Owed' \in {0, 2} /\ OnTheWay' <= Owed' + noise' /\ OnTheWay' = 2 * Len(toMcu') + Len(In')
      BY NextLines DEF LineAccount, Owed
    <3>2. QED
      BY <2>2, <3>1
  <2>4. ASSUME NEW j \in 1..(m + 1)
        PROVE  InStep(toMcu'[j], n + 2 * (j - 1), HeadSeq', z)
    <3>1. CASE j \in 1..m
      <4>1. toMcu'[j] = old[j]
        BY <2>1, <2>2, <3>1
      <4>2. QED
        BY <2>2, <3>1, <4>1 DEF OutInStep
    <3>2. CASE j = m + 1
      <4>1. toMcu'[j] = f
        BY <2>1, <2>2, <3>2
      <4>2. n + 2 * (j - 1) <= z
        BY <2>3, <3>2
      <4>3. QED
        BY <2>1, <4>1, <4>2 DEF InStep
    <3>3. QED
      BY <3>1, <3>2
  <2>5. QED
    BY <2>2, <2>4 DEF OutInStep
<1>3. QED
  BY <1>1, <1>2

\* A command leaves the list, with a frame taken from the line.
LEMMA LeaveInStep ==
  ASSUME LineInv, LineInv', StepInv, FewStrays, NEW k \in 1..Len(line), Consume(k, TRUE),
         cmd_pending # <<>>, cmd_pending' = Tail(cmd_pending)
  PROVE  StepInv'
<1>1. TypeOK /\ TypeOK' /\ LineAccount'
  BY DEF LineInv
<1>2. cmd_seq' = cmd_seq /\ noise' = noise /\ faults' = faults /\ restarts' = restarts
  BY DEF Consume, Read, bounds
<1>3. Consecutive(cmd_pending, cmd_seq)' /\ HeadSeq' = Succ(HeadSeq)
  BY <1>1, <1>2, LeaveNumbers DEF StepInv
<1>4. HeadSeq \in SeqNumbers /\ noise \in Nat /\ noise < 2 * SeqMod
  <2>1. HeadSeq \in SeqNumbers /\ noise \in Nat
    BY <1>1, HeadSeqType DEF TypeOK
  <2>2. faults \in 0..MaxFaults /\ restarts \in 0..MaxRestarts /\ noise <= faults + 2 * restarts
    BY <1>1 DEF TypeOK, StepInv
  <2>3. {MaxFaults, MaxRestarts, SeqMod} \subseteq Nat /\ MaxFaults + 2 * MaxRestarts < 2 * SeqMod
    BY PoeSizesAssumption DEF FewStrays
  <2>4. QED
    BY <2>1, <2>2, <2>3
<1>5. /\ Len(In) >= 2 /\ Len(In') = Len(In) - 2
      /\ \A j \in 1..Len(In') : In'[j] = Mark(In[j + 2])
  BY <1>1, ConsumeIn
<1>6. PICK n \in Nat : n + 2 = Len(In) /\ n = Len(In')
  BY <1>1, <1>5, NextLines, InType
<1>7. InInStep(In, HeadSeq, noise)'
  <2> SUFFICES ASSUME NEW j \in 1..n, In'[j].part = 1 PROVE InStep(In'[j], j - 1, HeadSeq', noise')
    BY <1>6 DEF InInStep
  <2>1. j + 2 \in 1..Len(In) /\ j + 1 \in Nat /\ j + 1 >= 2 /\ (j + 2) - 1 = j + 1 /\ (j + 1) - 2 = j - 1
    BY <1>6
  <2>2. In[j + 2] \in Halves /\ In'[j] = Mark(In[j + 2])
    BY <1>1, <1>5, <1>6, <2>1, InType
  <2>3. In[j + 2].part = 1
    BY <2>2 DEF Mark, Halves
  <2>4. InStep(In[j + 2], j + 1, HeadSeq, noise)
    <3>1. InStep(In[j + 2], (j + 2) - 1, HeadSeq, noise)
      BY <2>1, <2>3 DEF StepInv, InInStep
    <3>2. QED
      BY <2>1, <3>1
  <2>5. InStep(Mark(In[j + 2]), (j + 1) - 2, Succ(HeadSeq), noise)
    BY <1>4, <2>1, <2>2, <2>4, InStepMark DEF Numbered
  <2>6. QED
    BY <1>2, <1>3, <2>1, <2>2, <2>5
<1>8. toMcu \in Seq(SentFrames) /\ Outdated(toMcu) \in Seq(SentFrames)
      /\ Len(Outdated(toMcu)) = Len(toMcu)
  BY <1>1, LineTypes, OutdatedType
<1>9. OutInStep(Outdated(toMcu), Len(In'), HeadSeq', noise')
  <2> SUFFICES ASSUME NEW j \in 1..Len(toMcu)
               PROVE  InStep(Outdated(toMcu)[j], n + 2 * (j - 1), HeadSeq', noise')
    BY <1>6, <1>8 DEF OutInStep
  <2>0. j \in Nat /\ j >= 1 /\ Len(toMcu) \in Nat
    BY <1>1, LineTypes
  <2>1. PICK a \in Nat : a = (n + 2) + 2 * (j - 1) /\ a >= 2 /\ a - 2 = n + 2 * (j - 1)
    BY <2>0
  <2>2. InStep(toMcu[j], a, HeadSeq, noise)
    BY <1>6, <2>1 DEF StepInv, OutInStep
  <2>3. toMcu[j] \in SentFrames /\ Outdated(toMcu)[j] = Mark(toMcu[j])
    BY <1>8, <2>0, OutdatedAt
  <2>4. InStep(Mark(toMcu[j]), a - 2, Succ(HeadSeq), noise)
    BY <1>4, <2>1, <2>2, <2>3, InStepMark DEF Numbered
  <2>5. QED
    BY <1>2, <1>3, <2>1, <2>3, <2>4
<1>10. OutInStep(toMcu, Len(In), HeadSeq, noise)'
  <2>1. Sends(Outdated(toMcu))
    BY <1>1, ConsumeSends
  <2>2. QED
    BY <1>1, <1>8, <1>9, <2>1, SendInStep
<1>11. QED
  BY <1>2, <1>3, <1>7, <1>10 DEF StepInv

\* A step that takes halves away and leaves the numbers alone: what remains
\* comes sooner.
LEMMA SoonerInStep ==
  ASSUME LineInv, LineInv', StepInv, NEW old \in Seq(SentFrames),
         Len(In') <= Len(In), Sends(old),
         \A j \in 1..Len(In') : In'[j].part = 1 => \E i \in 1..Len(In) : j <= i /\ In'[j] = In[i],
         \A j \in 1..Len(old) : \E i \in 1..Len(toMcu) : j <= i /\ old[j] = toMcu[i],
         HeadSeq' = HeadSeq, noise' = noise
  PROVE  InInStep(In, HeadSeq, noise)' /\ OutInStep(toMcu, Len(In), HeadSeq, noise)'
<1>1. TypeOK /\ TypeOK' /\ LineAccount' /\ HeadSeq \in SeqNumbers /\ noise \in Nat
  BY HeadSeqType DEF LineInv, TypeOK
<1>2. In \in Seq(Halves) /\ toMcu \in Seq(SentFrames)
  BY <1>1, InType, LineTypes
<1>3. PICK n \in Nat, n1 \in Nat, t \in Nat : n = Len(In) /\ n1 = Len(In') /\ n1 <= n /\ t = Len(toMcu)
  BY <1>1, InType, NextLines
<1>4. InInStep(In, HeadSeq, noise)'
  <2> SUFFICES ASSUME NEW j \in 1..n1, In'[j].part = 1
               PROVE  InStep(In'[j], j - 1, HeadSeq', noise')
    BY <1>3 DEF InInStep
  <2>1. PICK i \in 1..n : j <= i /\ In'[j] = In[i]
    <3>1. j \in 1..Len(In') /\ 1..Len(In) = 1..n
      BY <1>3
    <3>2. QED
      BY <3>1
  <2>2. In[i] \in Halves /\ i - 1 \in Nat /\ j - 1 \in Nat /\ j - 1 <= i - 1
    <3>1. In[i] \in Halves
      BY <1>2, <1>3
    <3>2. QED
      BY <2>1, <3>1
  <2>3. InStep(In[i], i - 1, HeadSeq, noise)
    BY <1>3, <2>1 DEF StepInv, InInStep
  <2>4. InStep(In[i], j - 1, HeadSeq, noise)
    BY <1>1, <2>2, <2>3, InStepSooner DEF Numbered
  <2>5. QED
    BY <2>1, <2>4
<1>5. OutInStep(old, Len(In'), HeadSeq', noise')
  <2> SUFFICES ASSUME NEW j \in 1..Len(old)
               PROVE  InStep(old[j], n1 + 2 * (j - 1), HeadSeq, noise)
    BY <1>3 DEF OutInStep
  <2>1. PICK i \in 1..t : j <= i /\ old[j] = toMcu[i]
    BY <1>3
  <2>2. j \in Nat /\ j >= 1
    OBVIOUS
  <2>3. PICK a \in Nat, b \in Nat : a = n + 2 * (i - 1) /\ b = n1 + 2 * (j - 1) /\ b <= a
    BY <1>3, <2>1, <2>2
  <2>4. InStep(toMcu[i], a, HeadSeq, noise) /\ toMcu[i] \in SentFrames
    BY <1>2, <1>3, <2>1, <2>3 DEF StepInv, OutInStep
  <2>5. InStep(old[j], b, HeadSeq, noise)
    BY <1>1, <2>1, <2>3, <2>4, InStepSooner DEF Numbered
  <2>6. QED
    BY <2>3, <2>5
<1>6. QED
  BY <1>1, <1>4, <1>5, SendInStep

\* A step that only adds to the list, or sends.
LEMMA QueueInStep ==
  ASSUME LineInv, LineInv', StepInv, In' = In, Sends(toMcu), HeadSeq' = HeadSeq, noise' = noise,
         faults' = faults, restarts' = restarts, Consecutive(cmd_pending, cmd_seq)'
  PROVE  StepInv'
<1>1. TypeOK /\ TypeOK'
  BY DEF LineInv
<1>2. toMcu \in Seq(SentFrames) /\ Len(toMcu) \in Nat /\ Len(In) \in Nat
  BY <1>1, LineTypes, InType
<1>3. Len(In') <= Len(In)
  BY <1>2
<1>4. \A j \in 1..Len(In') : In'[j].part = 1 => \E i \in 1..Len(In) : j <= i /\ In'[j] = In[i]
  BY <1>2
<1>5. \A j \in 1..Len(toMcu) : \E i \in 1..Len(toMcu) : j <= i /\ toMcu[j] = toMcu[i]
  BY <1>2
<1>6. InInStep(In, HeadSeq, noise)' /\ OutInStep(toMcu, Len(In), HeadSeq, noise)'
  BY <1>2, <1>3, <1>4, <1>5, SoonerInStep
<1>7. (noise <= faults + 2 * restarts)'
  BY DEF StepInv
<1>8. QED
  BY <1>6, <1>7 DEF StepInv

\* A frame is taken and no command leaves the list.
LEMMA KeepInStep ==
  ASSUME LineInv, LineInv', StepInv, NEW k \in 1..Len(line), Consume(k, FALSE),
         Len(cmd_pending') = Len(cmd_pending),
         \A i \in 1..Len(cmd_pending) : cmd_pending'[i].seq = cmd_pending[i].seq
  PROVE  StepInv'
<1>1. TypeOK /\ TypeOK'
  BY DEF LineInv
<1>2. cmd_seq' = cmd_seq /\ noise' = noise /\ faults' = faults /\ restarts' = restarts
  BY DEF Consume, Read, bounds
<1>3. Consecutive(cmd_pending, cmd_seq)' /\ HeadSeq' = HeadSeq
  BY <1>1, <1>2, SameNumbers DEF StepInv
<1>4. /\ Len(In) >= 2 /\ Len(In') = Len(In) - 2 /\ \A j \in 1..Len(In') : In'[j] = In[j + 2]
  BY <1>1, ConsumeIn
<1>5. toMcu \in Seq(SentFrames) /\ Len(toMcu) \in Nat /\ Len(In) \in Nat /\ Sends(toMcu)
  BY <1>1, LineTypes, InType, ConsumeSends
<1>6. Len(In') <= Len(In)
  BY <1>4, <1>5
<1>7. ASSUME NEW j \in 1..Len(In')
      PROVE  \E i \in 1..Len(In) : j <= i /\ In'[j] = In[i]
  <2>1. j + 2 \in 1..Len(In) /\ j <= j + 2 /\ In'[j] = In[j + 2]
    BY <1>4, <1>5
  <2>2. QED
    BY <2>1
<1>8. \A j \in 1..Len(toMcu) : \E i \in 1..Len(toMcu) : j <= i /\ toMcu[j] = toMcu[i]
  BY <1>5
<1>9. InInStep(In, HeadSeq, noise)' /\ OutInStep(toMcu, Len(In), HeadSeq, noise)'
  BY <1>2, <1>3, <1>5, <1>6, <1>7, <1>8, SoonerInStep
<1>10. (noise <= faults + 2 * restarts)'
  BY <1>2 DEF StepInv
<1>11. QED
  BY <1>3, <1>9, <1>10 DEF StepInv

LEMMA RejectedNumbers ==
  ASSUME TypeOK, NEW k \in 1..Len(line), ReadRejected(k)
  PROVE  /\ Len(cmd_pending') = Len(cmd_pending)
         /\ \A i \in 1..Len(cmd_pending) :
              /\ cmd_pending'[i].id = cmd_pending[i].id /\ cmd_pending'[i].port = cmd_pending[i].port
              /\ cmd_pending'[i].on = cmd_pending[i].on /\ cmd_pending'[i].seq = cmd_pending[i].seq
<1> DEFINE c == cmd_pending[1]
           e == [c EXCEPT !.num_retries = IF mcu_error_timeout THEN @ ELSE @ + 1]
<1>1. 1 \in 1..Len(cmd_pending) /\ c \in QueuedCommands /\ cmd_pending \in Seq(QueuedCommands)
  BY LineTypes DEF ReadRejected
<1>2. e.id = c.id /\ e.port = c.port /\ e.on = c.on /\ e.seq = c.seq
  BY <1>1 DEF QueuedCommands
<1>3. cmd_pending' = [cmd_pending EXCEPT ![1] = e]
  BY DEF ReadRejected
<1>4. Len(cmd_pending') = Len(cmd_pending)
  BY RejectedList
<1> HIDE DEF e
<1>5. \A i \in 1..Len(cmd_pending) : cmd_pending'[i] = IF i = 1 THEN e ELSE cmd_pending[i]
  BY <1>1, <1>3
<1>6. QED
  BY <1>2, <1>4, <1>5

LEMMA ReadInStep ==
  ASSUME LineInv, LineInv', StepInv, FewStrays, NEW k \in 1..Len(line),
         \/ ReadShort(k) \/ ReadUnsolicited(k) \/ ReadBad(k) \/ ReadRejected(k)
         \/ ReadAborted(k) \/ ReadOther(k) \/ ReadAnswer(k)
  PROVE  StepInv'
<1>0. TypeOK /\ TypeOK'
  BY DEF LineInv
<1>1. CASE ReadShort(k)
  <2>1. In' = In
    BY <1>0, <1>1, ShortIn
  <2>2. /\ cmd_pending' = cmd_pending /\ cmd_seq' = cmd_seq /\ toMcu' = toMcu
        /\ noise' = noise /\ faults' = faults /\ restarts' = restarts
    BY <1>1 DEF ReadShort, Read, bounds
  <2>3. HeadSeq' = HeadSeq /\ Consecutive(cmd_pending, cmd_seq)'
    BY <2>2 DEF HeadSeq, StepInv, Consecutive
  <2>4. QED
    BY <2>1, <2>2, <2>3, QueueInStep DEF Sends
<1>2. CASE ReadUnsolicited(k)
  BY <1>2, KeepInStep DEF ReadUnsolicited
<1>3. CASE ReadRejected(k)
  <2>1. Consume(k, FALSE)
    BY <1>3 DEF ReadRejected
  <2>2. QED
    BY <1>0, <1>3, <2>1, RejectedNumbers, KeepInStep
<1>4. CASE ReadBad(k) \/ ReadAborted(k) \/ ReadOther(k) \/ ReadAnswer(k)
  <2>1. Consume(k, TRUE) /\ cmd_pending # <<>> /\ cmd_pending' = Tail(cmd_pending)
    BY <1>4 DEF ReadBad, ReadAborted, ReadOther, ReadAnswer, Leaves
  <2>2. QED
    BY <2>1, LeaveInStep
<1>5. QED
  BY <1>1, <1>2, <1>3, <1>4

\* The MCU's answer is where the command was.
LEMMA McuInStep ==
  ASSUME LineInv, LineInv', StepInv, McuStep
  PROVE  StepInv'
<1>1. TypeOK /\ TypeOK'
  BY DEF LineInv
<1>2. /\ cmd_pending' = cmd_pending /\ cmd_seq' = cmd_seq /\ noise' = noise
      /\ faults' = faults /\ restarts' = restarts
  BY DEF McuStep, daemon, bounds, history
<1>3. HeadSeq' = HeadSeq /\ Consecutive(cmd_pending, cmd_seq)'
  BY <1>2 DEF HeadSeq, StepInv, Consecutive
<1>4. PICK kind \in {"ok", "f0"} :
        In' = In \o <<Half(toMcu[1], kind, 1), Half(toMcu[1], kind, 2)>>
  BY <1>1, McuIn
<1> DEFINE a == Half(toMcu[1], kind, 1)
           b == Half(toMcu[1], kind, 2)
<1>5. /\ toMcu # <<>> /\ toMcu' = Tail(toMcu) /\ a \in Halves /\ b \in Halves
  BY <1>1, McuIn
<1>6. a.part = 1 /\ a.seq = toMcu[1].seq /\ a.life = toMcu[1].life /\ b.part = 2
  BY DEF Half
<1>7. In' = In \o <<a, b>>
  BY <1>4
<1> HIDE DEF a, b
<1>8. PICK n \in Nat, t \in Nat : n = Len(In) /\ t + 1 = Len(toMcu) /\ t = Len(toMcu')
  <2>1. Len(toMcu) \in Nat /\ Len(toMcu) # 0 /\ Len(toMcu') = Len(toMcu) - 1
    BY <1>1, <1>5, LineTypes, HeadTailProperties
  <2>2. Len(toMcu) - 1 \in Nat /\ (Len(toMcu) - 1) + 1 = Len(toMcu)
    BY <2>1
  <2>3. QED
    BY <1>1, <2>1, <2>2, InType
<1>9. \A j \in 1..t : toMcu'[j] = toMcu[j + 1]
  BY <1>1, <1>5, <1>8, LineTypes, HeadTailProperties
<1>10. /\ Len(In') = n + 2 /\ \A j \in 1..n : In'[j] = In[j]
       /\ In'[n + 1] = a /\ In'[n + 2] = b
  <2>1. In \in Seq(Halves) /\ <<a, b>> \in Seq(Halves) /\ Len(<<a, b>>) = 2
    BY <1>1, <1>5, InType
  <2>2. 1 \in 1..2 /\ 2 \in 1..2 /\ <<a, b>>[1] = a /\ <<a, b>>[2] = b
    OBVIOUS
  <2>3. QED
    BY <1>7, <1>8, <2>1, <2>2, InFacts
<1>11. InInStep(In, HeadSeq, noise)'
  <2> SUFFICES ASSUME NEW j \in 1..(n + 2), In'[j].part = 1
               PROVE  InStep(In'[j], j - 1, HeadSeq, noise)
    BY <1>2, <1>3, <1>10 DEF InInStep
  <2>1. CASE j \in 1..n
    BY <1>8, <1>10, <2>1 DEF StepInv, InInStep
  <2>2. CASE j = n + 1
    <3>1. 1 \in 1..Len(toMcu)
      BY <1>8
    <3>2. InStep(toMcu[1], n + 2 * (1 - 1), HeadSeq, noise)
      BY <1>8, <3>1 DEF StepInv, OutInStep
    <3>3. n + 2 * (1 - 1) = j - 1
      BY <2>2
    <3>4. InStep(toMcu[1], j - 1, HeadSeq, noise)
      BY <3>2, <3>3
    <3>5. QED
      BY <1>6, <1>10, <2>2, <3>4 DEF InStep
  <2>3. CASE j = n + 2
    BY <1>6, <1>10, <2>3
  <2>4. QED
    BY <2>1, <2>2, <2>3
<1>12. OutInStep(toMcu, Len(In), HeadSeq, noise)'
  <2> SUFFICES ASSUME NEW j \in 1..t
               PROVE  InStep(toMcu'[j], (n + 2) + 2 * (j - 1), HeadSeq, noise)
    BY <1>2, <1>3, <1>8, <1>10 DEF OutInStep
  <2>1. j + 1 \in 1..Len(toMcu) /\ n + 2 * ((j + 1) - 1) = (n + 2) + 2 * (j - 1)
    BY <1>8
  <2>2. InStep(toMcu[j + 1], n + 2 * ((j + 1) - 1), HeadSeq, noise)
    BY <1>8, <2>1 DEF StepInv, OutInStep
  <2>3. QED
    BY <1>9, <2>1, <2>2
<1>13. (noise <= faults + 2 * restarts)'
  BY <1>2 DEF StepInv
<1>14. QED
  BY <1>3, <1>11, <1>12, <1>13 DEF StepInv

\* A half from nowhere puts what is sent after it one place back.
LEMMA NoiseInStep ==
  ASSUME LineInv, LineInv', StepInv, Noise
  PROVE  StepInv'
<1>1. TypeOK /\ TypeOK' /\ HeadSeq \in SeqNumbers
  BY HeadSeqType DEF LineInv
<1>2. /\ cmd_pending' = cmd_pending /\ cmd_seq' = cmd_seq /\ noise' = noise + 1
      /\ faults' = faults + 1 /\ restarts' = restarts
  BY DEF Noise, daemon, Fault
<1>3. HeadSeq' = HeadSeq /\ Consecutive(cmd_pending, cmd_seq)'
  BY <1>2 DEF HeadSeq, StepInv, Consecutive
<1>4. In' = Append(In, Junk) /\ toMcu' = toMcu /\ Junk.part = 0
  BY <1>1, NoiseIn DEF Junk
<1>5. PICK n \in Nat, z \in Nat : n = Len(In) /\ z = noise /\ Len(In') = n + 1
  <2>1. noise \in Nat
    BY <1>1 DEF TypeOK
  <2>2. QED
    BY <1>1, <1>4, <2>1, InType
<1>6. In'[n + 1].part = 0 /\ \A j \in 1..n : In'[j] = In[j]
  BY <1>1, <1>4, <1>5, InType
<1>7. InInStep(In, HeadSeq, noise)'
  <2> SUFFICES ASSUME NEW j \in 1..(n + 1), In'[j].part = 1
               PROVE  InStep(In'[j], j - 1, HeadSeq, z + 1)
    BY <1>2, <1>3, <1>5 DEF InInStep
  <2>1. j \in 1..n
    BY <1>6
  <2>2. In[j] \in Halves /\ j - 1 \in Nat
    BY <1>1, <1>5, <2>1, InType
  <2>3. InStep(In[j], j - 1, HeadSeq, z)
    BY <1>5, <1>6, <2>1 DEF StepInv, InInStep
  <2>4. InStep(In[j], j - 1, HeadSeq, z + 1)
    BY <1>1, <2>2, <2>3, InStepNoise DEF Numbered
  <2>5. QED
    BY <1>6, <2>1, <2>4
<1>8. OutInStep(toMcu, Len(In), HeadSeq, noise)'
  <2> SUFFICES ASSUME NEW j \in 1..Len(toMcu)
               PROVE  InStep(toMcu[j], (n + 1) + 2 * (j - 1), HeadSeq, z + 1)
    BY <1>2, <1>3, <1>4, <1>5 DEF OutInStep
  <2>1. PICK a \in Nat : a = n + 2 * (j - 1) /\ a + 1 = (n + 1) + 2 * (j - 1)
    BY <1>5
  <2>2. InStep(toMcu[j], a, HeadSeq, z) /\ toMcu[j] \in SentFrames
    BY <1>1, <1>5, <2>1, LineTypes DEF StepInv, OutInStep
  <2>3. InStep(toMcu[j], a + 1, HeadSeq, z + 1)
    BY <1>1, <2>2, InStepNoise DEF Numbered
  <2>4. QED
    BY <2>1, <2>3
<1>9. (noise <= faults + 2 * restarts)'
  <2>1. noise <= faults + 2 * restarts
    BY DEF StepInv
  <2>2. noise \in Nat /\ faults \in Nat /\ restarts \in Nat
    BY <1>1, PoeSizesAssumption DEF TypeOK
  <2>3. noise + 1 <= (faults + 1) + 2 * restarts
    BY <2>1, <2>2
  <2>4. QED
    BY <1>2, <2>3
<1>10. QED
  BY <1>3, <1>7, <1>8, <1>9 DEF StepInv

LEMMA FaultInStep ==
  ASSUME LineInv, LineInv', StepInv, Damage \/ Lose
  PROVE  StepInv'
<1>1. TypeOK /\ TypeOK'
  BY DEF LineInv
<1>2. /\ cmd_pending' = cmd_pending /\ cmd_seq' = cmd_seq /\ noise' = noise
      /\ faults' = faults + 1 /\ restarts' = restarts
  BY DEF Damage, Lose, daemon, Fault, history
<1>3. HeadSeq' = HeadSeq /\ Consecutive(cmd_pending, cmd_seq)'
  BY <1>2 DEF HeadSeq, StepInv, Consecutive
<1>4. (noise <= faults + 2 * restarts)'
  <2>1. noise <= faults + 2 * restarts
    BY DEF StepInv
  <2>2. noise \in Nat /\ faults \in Nat /\ restarts \in Nat
    BY <1>1, PoeSizesAssumption DEF TypeOK
  <2>3. noise <= (faults + 1) + 2 * restarts
    BY <2>1, <2>2
  <2>4. QED
    BY <1>2, <2>3
<1>5. PICK n \in Nat : n = Len(In) /\ toMcu \in Seq(SentFrames) /\ Len(toMcu) \in Nat
  BY <1>1, InType, LineTypes
<1>6. \A j \in 1..Len(toMcu) : \E i \in 1..Len(toMcu) : j <= i /\ toMcu[j] = toMcu[i]
  BY <1>5
<1>7. CASE Damage
  <2>1. /\ Len(In') = n /\ toMcu' = toMcu /\ Junk.part = 0
        /\ \A i \in 1..n : In'[i] = In[i] \/ In'[i] = Junk
    BY <1>1, <1>5, <1>7, DamageIn DEF Junk
  <2>2. Len(In') <= Len(In)
    BY <1>5, <2>1
  <2>3. \A j \in 1..Len(In') : In'[j].part = 1 => \E i \in 1..Len(In) : j <= i /\ In'[j] = In[i]
    BY <1>5, <2>1
  <2>4. InInStep(In, HeadSeq, noise)' /\ OutInStep(toMcu, Len(In), HeadSeq, noise)'
    BY <1>2, <1>3, <1>5, <1>6, <2>1, <2>2, <2>3, SoonerInStep DEF Sends
  <2>5. QED
    BY <1>3, <1>4, <2>4 DEF StepInv
<1>8. CASE toMcu' = toMcu /\ Len(In') = Len(In) - 1 /\ In' \in Seq(Halves)
           /\ \A i \in 1..Len(In') : In'[i] = In[i] \/ In'[i] = In[i + 1]
  <2>1. Len(In') <= Len(In)
    BY <1>5, <1>8
  <2>2. ASSUME NEW j \in 1..Len(In')
        PROVE  \E i \in 1..Len(In) : j <= i /\ In'[j] = In[i]
    <3>1. j \in 1..Len(In) /\ j + 1 \in 1..Len(In) /\ j <= j + 1 /\ j <= j
      BY <1>5, <1>8
    <3>2. QED
      BY <1>8, <3>1
  <2>3. InInStep(In, HeadSeq, noise)' /\ OutInStep(toMcu, Len(In), HeadSeq, noise)'
    BY <1>2, <1>3, <1>5, <1>6, <1>8, <2>1, <2>2, SoonerInStep DEF Sends
  <2>4. QED
    BY <1>3, <1>4, <2>3 DEF StepInv
<1>9. CASE toMcu # <<>> /\ toMcu' = Tail(toMcu) /\ In' = In
  <2>1. /\ toMcu' \in Seq(SentFrames) /\ Len(toMcu') = Len(toMcu) - 1
        /\ \A j \in 1..Len(toMcu') : toMcu'[j] = toMcu[j + 1]
    BY <1>5, <1>9, HeadTailProperties
  <2>2. Len(In') <= Len(In)
    BY <1>5, <1>9
  <2>3. \A j \in 1..Len(In') : In'[j].part = 1 => \E i \in 1..Len(In) : j <= i /\ In'[j] = In[i]
    BY <1>5, <1>9
  <2>4. ASSUME NEW j \in 1..Len(toMcu')
        PROVE  \E i \in 1..Len(toMcu) : j <= i /\ toMcu'[j] = toMcu[i]
    <3>1. j + 1 \in 1..Len(toMcu) /\ j <= j + 1
      BY <1>5, <2>1
    <3>2. QED
      BY <2>1, <3>1
  <2>5. PICK old \in Seq(SentFrames) : old = toMcu'
    BY <2>1
  <2>6. Sends(old) /\ \A j \in 1..Len(old) : \E i \in 1..Len(toMcu) : j <= i /\ old[j] = toMcu[i]
    BY <2>4, <2>5 DEF Sends
  <2>7. InInStep(In, HeadSeq, noise)' /\ OutInStep(toMcu, Len(In), HeadSeq, noise)'
    BY <1>2, <1>3, <2>2, <2>3, <2>6, SoonerInStep
  <2>8. QED
    BY <1>3, <1>4, <2>7 DEF StepInv
<1>10. QED
  BY <1>1, <1>7, <1>8, <1>9, LoseIn

\* What an earlier life has left counts as noise, no more than two halves of
\* it new.
LEMMA RestartInStep ==
  ASSUME LineInv, LineInv', StepInv, Restart
  PROVE  StepInv'
<1>1. TypeOK /\ TypeOK'
  BY DEF LineInv
<1> DEFINE setup == poe_initial_setup(enable')
           f == Frame(cmd_pending'[1])
<1>2. /\ In' = line' /\ Len(In') <= Len(line)
      /\ \A i \in 1..Len(In') : In'[i].life = "former"
      /\ toMcu' = Append(Former(toMcu), f)
      /\ cmd_pending' = Stamped(setup, 0) /\ cmd_pending' # <<>>
      /\ enable' \in [Ports -> BOOLEAN] /\ cmd_seq' = Len(setup) % SeqMod
  BY <1>1, RestartIn
<1>3. setup \in Seq(Commands) /\ Len(setup) > 0 /\ Len(setup) \in Nat
  BY <1>2, SetupType
<1>4. f.life = "live" /\ f.seq = HeadSeq'
  BY <1>2 DEF Frame, HeadSeq
<1> HIDE DEF setup, f
<1>5. Consecutive(cmd_pending, cmd_seq)'
  <2>1. Consecutive(Stamped(setup, 0), (0 + Len(setup)) % SeqMod) /\ 0 + Len(setup) = Len(setup)
    BY <1>3, StampedConsecutive
  <2>2. QED
    BY <1>2, <2>1
<1>6. noise' = 2 * Len(toMcu) + Len(line') /\ faults' = faults /\ restarts' = restarts + 1
  BY <1>1, RestartLines DEF Restart
<1>7. PICK t \in Nat, l \in Nat, x \in Nat, l1 \in Nat :
        t = Len(toMcu) /\ l = Len(line) /\ x = Len(rx) /\ l1 = Len(In') /\ l1 <= l
  BY <1>1, <1>2, LineTypes, NextLines
<1>8. noise' = 2 * t + l1
  BY <1>2, <1>6, <1>7
<1>9. (noise <= faults + 2 * restarts)'
  <2>1. Owed \in {0, 2} /\ OnTheWay <= Owed + noise /\ OnTheWay = 2 * t + l + x
    BY <1>7 DEF LineInv, LineAccount, Owed, OnTheWay
  <2>2. noise \in Nat /\ faults \in Nat /\ restarts \in Nat /\ noise <= faults + 2 * restarts
    BY <1>1, PoeSizesAssumption DEF TypeOK, StepInv
  <2>3. 2 * t + l1 <= faults + 2 * (restarts + 1)
    BY <1>7, <2>1, <2>2
  <2>4. QED
    BY <1>6, <1>8, <2>3
<1>10. InInStep(In, HeadSeq, noise)'
  BY <1>2 DEF InInStep, InStep
<1>11. OutInStep(toMcu, Len(In), HeadSeq, noise)'
  <2>1. /\ Former(toMcu) \in Seq(SentFrames) /\ Len(Former(toMcu)) = t
        /\ \A j \in 1..t : Former(toMcu)[j] = [toMcu[j] EXCEPT !.life = "former"]
    BY <1>1, <1>7, LineTypes, FormerType DEF Former
  <2>2. Len(toMcu') = t + 1 /\ toMcu'[t + 1] = f /\ \A j \in 1..t : toMcu'[j] = Former(toMcu)[j]
    BY <1>2, <1>7, <2>1
  <2> SUFFICES ASSUME NEW j \in 1..(t + 1)
               PROVE  InStep(toMcu'[j], l1 + 2 * (j - 1), HeadSeq', noise')
    BY <1>7, <2>2 DEF OutInStep
  <2>3. CASE j \in 1..t
    <3>1. toMcu[j] \in SentFrames
      BY <1>1, <1>7, <2>3, LineTypes
    <3>2. toMcu'[j].life = "former"
      BY <2>1, <2>2, <2>3, <3>1 DEF SentFrames
    <3>3. QED
      BY <3>2 DEF InStep
  <2>4. CASE j = t + 1
    <3>1. l1 + 2 * (j - 1) <= 2 * t + l1
      BY <2>4
    <3>2. QED
      BY <1>4, <1>8, <2>2, <2>4, <3>1 DEF InStep
  <2>5. QED
    BY <2>3, <2>4
<1>12. QED
  BY <1>5, <1>9, <1>10, <1>11 DEF StepInv

LEMMA InitInStep == Init => StepInv
<1> SUFFICES ASSUME Init PROVE StepInv
  OBVIOUS
<1> DEFINE setup == poe_initial_setup(enable)
<1>1. /\ enable \in [Ports -> BOOLEAN] /\ cmd_pending = Stamped(setup, 0)
      /\ cmd_seq = Len(setup) % SeqMod /\ toMcu = <<Frame(Head(cmd_pending))>>
      /\ rx = <<>> /\ line = <<>> /\ faults = 0 /\ restarts = 0 /\ noise = 0
  BY DEF Init, config_load
<1>2. setup \in Seq(Commands) /\ Len(setup) > 0 /\ Len(setup) \in Nat
  BY <1>1, SetupType
<1> HIDE DEF setup
<1>3. Consecutive(cmd_pending, cmd_seq)
  <2>1. Consecutive(Stamped(setup, 0), (0 + Len(setup)) % SeqMod) /\ 0 + Len(setup) = Len(setup)
    BY <1>2, StampedConsecutive
  <2>2. QED
    BY <1>1, <2>1
<1>4. cmd_pending # <<>> /\ Head(cmd_pending) = cmd_pending[1]
  <2>1. cmd_pending \in Seq(QueuedCommands) /\ Len(cmd_pending) > 0
    BY <1>1, <1>2, StampedType
  <2>2. QED
    BY <2>1
<1>5. Len(In) = 0
  BY <1>1 DEF In
<1>6. InInStep(In, HeadSeq, noise)
  BY <1>5 DEF InInStep
<1>7. InStep(toMcu[1], 0, HeadSeq, noise) /\ Len(toMcu) = 1
  BY <1>1, <1>4 DEF InStep, Frame, HeadSeq
<1>8. OutInStep(toMcu, Len(In), HeadSeq, noise)
  <2> SUFFICES ASSUME NEW j \in 1..1 PROVE InStep(toMcu[j], 0 + 2 * (j - 1), HeadSeq, noise)
    BY <1>5, <1>7 DEF OutInStep
  <2>1. j = 1 /\ 0 + 2 * (j - 1) = 0
    OBVIOUS
  <2>2. QED
    BY <1>7, <2>1
<1>9. noise <= faults + 2 * restarts
  BY <1>1
<1>10. QED
  BY <1>3, <1>6, <1>8, <1>9 DEF StepInv

LEMMA NextInStep ==
  ASSUME LineInv, StepInv, FewStrays, [Next]_vars
  PROVE  LineInv' /\ StepInv'
<1>0. LineInv' /\ TypeOK /\ TypeOK'
  <2>1. LineInv'
    BY NextAccount
  <2>2. QED
    BY <2>1 DEF LineInv
<1>1. CASE state_timeout_cb \/ ubus_poe_manage_cb \/ ubus_poe_sendframe_cb \/ ubus_poe_reload_cb
  <2>1. PICK batch \in Seq(Commands) : Len(batch) > 0 /\ poe_cmd_queue(batch)
    BY <1>0, <1>1, CallBatches
  <2>2. noise' = noise /\ faults' = faults /\ restarts' = restarts
    BY <2>1 DEF poe_cmd_queue
  <2>3. Consecutive(cmd_pending, cmd_seq)' /\ HeadSeq' = HeadSeq
    BY <1>0, <2>1, QueueNumbers DEF StepInv
  <2>4. Sends(toMcu) /\ In' = In
    BY <1>0, <2>1, QueueOut
  <2>5. QED
    BY <1>0, <2>2, <2>3, <2>4, QueueInStep
<1>2. CASE mcu_clear_timeout
  <2>1. Sends(toMcu) /\ In' = In /\ cmd_pending' = cmd_pending
    BY <1>0, <1>2, ClearOut
  <2>2. cmd_seq' = cmd_seq /\ noise' = noise /\ faults' = faults /\ restarts' = restarts
    BY <1>2 DEF mcu_clear_timeout, history, bounds
  <2>3. HeadSeq' = HeadSeq /\ Consecutive(cmd_pending, cmd_seq)'
    BY <2>1, <2>2 DEF HeadSeq, StepInv, Consecutive
  <2>4. QED
    BY <1>0, <2>1, <2>2, <2>3, QueueInStep
<1>3. CASE ReadStep
  BY <1>0, <1>3, ReadInStep DEF ReadStep
<1>4. CASE McuStep
  BY <1>0, <1>4, McuInStep
<1>5. CASE Noise
  BY <1>0, <1>5, NoiseInStep
<1>6. CASE Damage \/ Lose
  BY <1>0, <1>6, FaultInStep
<1>7. CASE Restart
  BY <1>0, <1>7, RestartInStep
<1>8. CASE UNCHANGED vars
  <2>1. /\ cmd_pending' = cmd_pending /\ cmd_seq' = cmd_seq /\ noise' = noise /\ toMcu' = toMcu
        /\ faults' = faults /\ restarts' = restarts /\ In' = In
    BY <1>8 DEF vars, daemon, bounds, history, In
  <2>2. HeadSeq' = HeadSeq /\ Consecutive(cmd_pending, cmd_seq)'
    BY <2>1 DEF HeadSeq, StepInv, Consecutive
  <2>3. QED
    BY <1>0, <2>1, <2>2, QueueInStep DEF Sends
<1>9. QED
  BY <1>0, <1>1, <1>2, <1>3, <1>4, <1>5, <1>6, <1>7, <1>8 DEF Next

\* An answer that is taken for the first command's is not that of a command
\* that has left the list: their numbers differ.
LEMMA NoStaleAnswer ==
  ASSUME LineInv, LineInv', StepInv, NEW k \in 1..Len(line), ReadAnswer(k)
  PROVE  /\ Reply(k) = In[1] /\ Reply(k) \in Halves /\ In[1].part = 1 /\ Len(In) >= 2
         /\ In[1].life # "stale"
<1>1. TypeOK /\ TypeOK'
  BY DEF LineInv
<1>2. Consume(k, TRUE) /\ Whole(k) /\ Matches(Reply(k)) /\ cmd_pending # <<>>
  BY DEF ReadAnswer
<1>3. Len(In) >= 2 /\ In[1] = Reply(k)
  BY <1>1, <1>2, ConsumeIn DEF Reply
<1>4. In[1] \in Halves /\ In[1].part = 1 /\ 1 \in 1..Len(In)
  <2>1. 1 \in 1..Len(In)
    BY <1>1, <1>3, InType
  <2>2. In[1] \in Halves
    BY <1>1, <2>1, InType
  <2>3. QED
    BY <1>2, <1>3, <2>1, <2>2 DEF Whole, Reply
<1>5. InStep(In[1], 0, HeadSeq, noise)
  <2>1. InStep(In[1], 1 - 1, HeadSeq, noise)
    BY <1>4 DEF StepInv, InInStep
  <2>2. QED
    BY <2>1
<1>6. In[1].seq = HeadSeq
  <2>1. Head(cmd_pending) = cmd_pending[1]
    BY <1>1, <1>2, LineTypes
  <2>2. QED
    BY <1>2, <1>3, <2>1 DEF Matches, HeadSeq
<1>7. Dist(HeadSeq, HeadSeq) = 0
  BY <1>1, HeadSeqType, DistFacts
<1>8. In[1].life # "stale"
  BY <1>5, <1>6, <1>7 DEF InStep
<1>9. QED
  BY <1>3, <1>4, <1>8

AnswerInv == LineInv /\ StepInv /\ RightAnswer

LEMMA NextAnswer ==
  ASSUME AnswerInv, FewStrays, [Next]_vars
  PROVE  AnswerInv'
<1>1. LineInv /\ StepInv /\ LineInv' /\ StepInv'
  BY NextInStep DEF AnswerInv
<1>2. mixedUp' = mixedUp \/ \E k \in 1..Len(line) : ReadAnswer(k)
  BY Zenon DEF Next, vars, daemon, history, bounds, state_timeout_cb, ubus_poe_manage_cb,
    ubus_poe_sendframe_cb, ubus_poe_reload_cb, poe_cmd_queue, mcu_clear_timeout, ReadStep,
    ReadShort, ReadUnsolicited, ReadBad, ReadRejected, ReadAborted, ReadOther, McuStep,
    Noise, Damage, Lose, Restart
<1>3. ASSUME NEW k \in 1..Len(line), ReadAnswer(k) PROVE RightAnswer'
  <2>1. Reply(k).life # "stale"
    BY <1>1, <1>3, NoStaleAnswer
  <2>2. mixedUp' = (mixedUp \/ Reply(k).life = "stale")
    BY <1>3, Zenon DEF ReadAnswer
  <2>3. ~mixedUp
    BY Zenon DEF AnswerInv, RightAnswer
  <2>4. QED
    BY <2>1, <2>2, <2>3, Zenon DEF RightAnswer
<1>4. RightAnswer'
  BY <1>2, <1>3, Zenon DEF AnswerInv, RightAnswer
<1>5. QED
  BY <1>1, <1>4, Zenon DEF AnswerInv

\* No reply handler is given the answer to another command of this life of the
\* daemon, for every width of the sequence number and any number of calls,
\* rejections, losses and damaged frames, as long as the halves that come in
\* for nothing are fewer than two for each number: with as many, cmd_seq has
\* come round when the reply to the old command is read.
THEOREM AnswersKeepApart == ASSUME FewStrays PROVE Spec => []RightAnswer
<1>1. Init => AnswerInv
  <2> SUFFICES ASSUME Init PROVE AnswerInv
    OBVIOUS
  <2>1. LineInv /\ StepInv
    BY InitAccount, InitInStep
  <2>2. RightAnswer
    BY Zenon DEF Init, RightAnswer
  <2>3. QED
    BY <2>1, <2>2, Zenon DEF AnswerInv
<1>2. AnswerInv /\ [Next]_vars => AnswerInv'
  BY NextAnswer
<1>3. AnswerInv => RightAnswer
  BY Zenon DEF AnswerInv
<1>4. QED
  BY <1>1, <1>2, <1>3, PTL DEF Spec
=============================================================================
