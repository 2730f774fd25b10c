--------------------------- MODULE PoePowerProofs ---------------------------
(***************************************************************************)
(* Proofs about PoeQueue: the MCU powers a port as the last command for it *)
(* says.                                                                   *)
(***************************************************************************)
EXTENDS PoeAnswerProofs

-----------------------------------------------------------------------------
(***************************************************************************)
(* What is known of the lines: s comes in, t goes out, list is waiting,    *)
(* and on is what the MCU powers; room is the number of faults that may    *)
(* still happen.                                                           *)
(***************************************************************************)
IsSwitch(c, p) == c.id = "enable" /\ c.port = p
Alike(c, d) == c.id = d.id /\ c.port = d.port /\ c.on = d.on

\* With a halves before it, a frame of an earlier life is taken for the answer
\* to a command that switches no port: there are enough of those in front.
FormerAt(list, a) ==
  \E n \in 0..Len(list) : a < 2 * n /\ \A i \in 1..n : list[i].id # "enable"

FormerIn(s, list) ==
  \A j \in 1..Len(s) : s[j].part = 1 /\ s[j].life = "former" => FormerAt(list, j - 1)
FormerOut(t, n, list) ==
  \A j \in 1..Len(t) : t[j].life = "former" => FormerAt(list, n + 2 * (j - 1))

\* What is live belongs to the first command of the list.
LiveIn(s, list) ==
  \A j \in 1..Len(s) : s[j].life = "live" =>
    list # <<>> /\ s[j].id = list[1].id /\ s[j].port = list[1].port
LiveOut(t, list) ==
  \A j \in 1..Len(t) : t[j].life = "live" => list # <<>> /\ Alike(t[j], list[1])

\* What goes out after something live is live.
LiveLast(s, t) ==
  /\ \A i \in 1..Len(t) : \A j \in 1..Len(t) : i < j /\ t[i].life = "live" => t[j].life = "live"
  /\ \A i \in 1..Len(s) : s[i].life = "live" => \A j \in 1..Len(t) : t[j].life = "live"

\* A command that was answered was carried out.
Done(s, list, on) ==
  \A j \in 1..Len(s) :
    s[j].life = "live" /\ s[j].kind = "ok" /\ list[1].id = "enable" /\ list[1].port \in Ports
      => on[list[1].port] = list[1].on

Lines(s, t, list, on, room) ==
  /\ FormerIn(s, list) /\ FormerOut(t, Len(s) + room, list)
  /\ LiveIn(s, list) /\ LiveOut(t, list) /\ LiveLast(s, t) /\ Done(s, list, on)

\* The last command of the list for a port says what is wanted of it.
LastWanted(list, w) ==
  \A p \in Ports, k \in 1..Len(list) :
    IsSwitch(list[k], p) /\ (\A i \in (k + 1)..Len(list) : ~IsSwitch(list[i], p))
      => list[k].on = w[p]

Listed(list, p) == \E k \in 1..Len(list) : IsSwitch(list[k], p)

\* A port whose last command was answered stays as wanted: the commands for it
\* that are still on their way say the same.
Obeyed(list, on, w, sv, t) ==
  \A p \in Ports : sv[p] /\ ~Listed(list, p) =>
    on[p] = w[p] /\ \A j \in 1..Len(t) : IsSwitch(t[j], p) => t[j].on = w[p]

PowerInv ==
  /\ Lines(In, toMcu, cmd_pending, mcuOn, MaxFaults - faults)
  /\ LastWanted(cmd_pending, want)
  /\ Obeyed(cmd_pending, mcuOn, want, served, toMcu)

\* The list keeps its commands, and may get more.
Grows(list, more) ==
  Len(list) <= Len(more) /\ \A i \in 1..Len(list) : Alike(more[i], list[i])

\* The first command of the list may be sent.
Sent(old, t, list) == t = old \/ (list # <<>> /\ t = Append(old, Frame(list[1])))

\* The first d frames are gone.
Shifted(t, old, d) == Len(old) + d = Len(t) /\ \A j \in 1..Len(old) : old[j] = t[j + d]

\* What comes in is junk, or comes sooner than before.
Sooner(s, s1) ==
  \A j \in 1..Len(s1) : s1[j] = Junk \/ \E i \in 1..Len(s) : j <= i /\ s1[j] = s[i]

LEMMA FormerSooner ==
  ASSUME NEW list \in Seq(QueuedCommands), NEW a \in Nat, NEW b \in Nat, b <= a, FormerAt(list, a)
  PROVE  FormerAt(list, b)
<1>1. PICK n \in 0..Len(list) : a < 2 * n /\ \A i \in 1..n : list[i].id # "enable"
  BY DEF FormerAt
<1>2. b < 2 * n
  BY <1>1
<1>3. QED
  BY <1>1, <1>2 DEF FormerAt

LEMMA FormerGrows ==
  ASSUME NEW list \in Seq(QueuedCommands), NEW more \in Seq(QueuedCommands), Grows(list, more),
         NEW a \in Nat, FormerAt(list, a)
  PROVE  FormerAt(more, a)
<1>1. PICK n \in 0..Len(list) : a < 2 * n /\ \A i \in 1..n : list[i].id # "enable"
  BY DEF FormerAt
<1>2. n \in 0..Len(more) /\ \A i \in 1..n : i \in 1..Len(list)
  BY DEF Grows
<1>3. \A i \in 1..n : more[i].id # "enable"
  BY <1>1, <1>2 DEF Grows, Alike
<1>4. QED
  BY <1>1, <1>2, <1>3 DEF FormerAt

LEMMA FormerLeaves ==
  ASSUME NEW list \in Seq(QueuedCommands), list # <<>>, NEW a \in Nat, a >= 2, FormerAt(list, a)
  PROVE  FormerAt(Tail(list), a - 2)
<1>1. PICK n \in 0..Len(list) : a < 2 * n /\ \A i \in 1..n : list[i].id # "enable"
  BY DEF FormerAt
<1>2. /\ Len(Tail(list)) = Len(list) - 1 /\ Len(list) \in Nat
      /\ \A i \in 1..Len(Tail(list)) : Tail(list)[i] = list[i + 1]
  BY HeadTailProperties
<1>3. PICK m \in Nat : n = m + 1 /\ m \in 0..Len(Tail(list)) /\ a - 2 < 2 * m
  <2>1. n - 1 \in Nat /\ n = (n - 1) + 1 /\ n - 1 \in 0..Len(Tail(list)) /\ a - 2 < 2 * (n - 1)
    BY <1>1, <1>2
  <2>2. QED
    BY <2>1
<1>4. ASSUME NEW i \in 1..m PROVE Tail(list)[i].id # "enable"
  <2>1. i \in 1..Len(Tail(list)) /\ i + 1 \in 1..n
    BY <1>2, <1>3
  <2>2. QED
    BY <1>1, <1>2, <2>1
<1>5. QED
  BY <1>3, <1>4 DEF FormerAt

\* What is on its way out after a frame may have been sent.
LEMMA SentFacts ==
  ASSUME NEW old \in Seq(SentFrames), NEW list \in Seq(QueuedCommands), NEW t, Sent(old, t, list)
  PROVE  /\ t \in Seq(SentFrames) /\ Len(t) \in Nat /\ Len(old) \in Nat
         /\ \A j \in 1..Len(t) :
              \/ j \in 1..Len(old) /\ t[j] = old[j]
              \/ /\ j = Len(old) + 1 /\ Len(t) = j /\ list # <<>> /\ t[j] = Frame(list[1])
                 /\ t[j].life = "live" /\ Alike(t[j], list[1])
<1>1. CASE t = old
  BY <1>1
<1>2. CASE list # <<>> /\ t = Append(old, Frame(list[1]))
  <2> DEFINE f == Frame(list[1])
  <2>1. list[1] \in QueuedCommands
    BY <1>2
  <2>2. f \in SentFrames /\ f.life = "live" /\ Alike(f, list[1])
    BY <2>1 DEF Frame, QueuedCommands, SentFrames, Lives, Alike
  <2> HIDE DEF f
  <2>3. t = Append(old, f)
    BY <1>2 DEF f
  <2>4. /\ t \in Seq(SentFrames) /\ Len(t) = Len(old) + 1 /\ Len(old) \in Nat
        /\ \A j \in 1..Len(old) : t[j] = old[j]
        /\ t[Len(old) + 1] = f
    BY <2>2, <2>3, AppendProperties
  <2>5. ASSUME NEW j \in 1..Len(t) PROVE j \in 1..Len(old) \/ (j = Len(old) + 1 /\ Len(t) = j)
    BY <2>4
  <2>6. QED
    BY <1>2, <2>2, <2>4, <2>5 DEF f
<1>3. QED
  BY <1>1, <1>2 DEF Sent

-----------------------------------------------------------------------------
(***************************************************************************)
(* How the steps keep what is known of the lines.                          *)
(***************************************************************************)

\* Nothing leaves the list; what is on the lines comes sooner, if at all, or
\* as soon as before plus the faults that can no longer happen.
LEMMA QuietLines ==
  ASSUME NEW s \in Seq(Halves), NEW s1 \in Seq(Halves), NEW t \in Seq(SentFrames),
         NEW old \in Seq(SentFrames), NEW t1, NEW list \in Seq(QueuedCommands),
         NEW list1 \in Seq(QueuedCommands), NEW on, NEW room \in Nat, NEW room1 \in Nat,
         Lines(s, t, list, on, room), Sent(old, t1, list1), Grows(list, list1),
         NEW d \in {0, 1}, Shifted(t, old, d), Len(s1) + room1 <= Len(s) + room, Sooner(s, s1)
  PROVE  Lines(s1, t1, list1, on, room1)
<1>0. PICK n \in Nat, n1 \in Nat, m \in Nat, m0 \in Nat, m1 \in Nat :
        n = Len(s) /\ n1 = Len(s1) /\ m = Len(t) /\ m0 = Len(old) /\ m1 = Len(t1)
  BY SentFacts
<1>1. \A j \in 1..m1 :
        \/ j \in 1..m0 /\ j + d \in 1..m /\ t1[j] = t[j + d]
        \/ j = m0 + 1 /\ m1 = j /\ list1 # <<>> /\ t1[j].life = "live" /\ Alike(t1[j], list1[1])
  <2>1. \A j \in 1..m1 :
          \/ j \in 1..m0 /\ t1[j] = old[j]
          \/ j = m0 + 1 /\ m1 = j /\ list1 # <<>> /\ t1[j].life = "live" /\ Alike(t1[j], list1[1])
    <3>1. \A j \in 1..Len(t1) :
            \/ j \in 1..Len(old) /\ t1[j] = old[j]
            \/ /\ j = Len(old) + 1 /\ Len(t1) = j /\ list1 # <<>>
               /\ t1[j].life = "live" /\ Alike(t1[j], list1[1])
      BY SentFacts
    <3>2. QED
      BY <1>0, <3>1
  <2>2. \A j \in 1..m0 : j + d \in 1..m /\ old[j] = t[j + d]
    <3>1. Len(old) + d = Len(t) /\ \A j \in 1..Len(old) : old[j] = t[j + d]
      BY DEF Shifted
    <3>2. m0 + d = m /\ \A j \in 1..m0 : old[j] = t[j + d]
      BY <1>0, <3>1
    <3>3. \A j \in 1..m0 : j + d \in 1..m
      <4>1. m0 + d = m /\ d \in Nat /\ m \in Nat /\ m0 \in Nat
        BY <3>2
      <4>2. QED
        BY <4>1
    <3>4. QED
      BY <3>2, <3>3
  <2>3. ASSUME NEW j \in 1..m1
        PROVE  \/ j \in 1..m0 /\ j + d \in 1..m /\ t1[j] = t[j + d]
               \/ j = m0 + 1 /\ m1 = j /\ list1 # <<>> /\ t1[j].life = "live" /\ Alike(t1[j], list1[1])
    <3>1. CASE j \in 1..m0 /\ t1[j] = old[j]
      BY <2>2, <3>1
    <3>2. QED
      BY <2>1, <3>1
  <2>4. QED
    BY <2>3
<1>2. \A j \in 1..n1 : s1[j].life = "live" \/ s1[j].part = 1
                         => \E i \in 1..n : j <= i /\ s1[j] = s[i]
  <2>1. Junk.life = "former" /\ Junk.part = 0
    BY DEF Junk
  <2>2. \A j \in 1..Len(s1) : s1[j] = Junk \/ \E i \in 1..Len(s) : j <= i /\ s1[j] = s[i]
    BY DEF Sooner
  <2>3. \A j \in 1..n1 : s1[j] = Junk \/ \E i \in 1..n : j <= i /\ s1[j] = s[i]
    BY <1>0, <2>2
  <2>4. QED
    BY <2>1, <2>3
<1>3. list # <<>> => list1 # <<>> /\ Alike(list1[1], list[1])
  <2> SUFFICES ASSUME list # <<>> PROVE list1 # <<>> /\ Alike(list1[1], list[1])
    OBVIOUS
  <2>1. 1 \in 1..Len(list) /\ Len(list) \in Nat /\ Len(list1) \in Nat /\ Len(list) > 0
    OBVIOUS
  <2>2. Len(list1) > 0
    BY <2>1 DEF Grows
  <2>3. QED
    BY <2>1, <2>2 DEF Grows
<1>4. FormerIn(s1, list1)
  <2> SUFFICES ASSUME NEW j \in 1..n1, s1[j].part = 1, s1[j].life = "former"
               PROVE  FormerAt(list1, j - 1)
    BY <1>0 DEF FormerIn
  <2>1. PICK i \in 1..n : j <= i /\ s1[j] = s[i]
    BY <1>2
  <2>2. FormerAt(list, i - 1)
    BY <1>0, <2>1 DEF Lines, FormerIn
  <2>3. i - 1 \in Nat /\ j - 1 \in Nat /\ j - 1 <= i - 1
    BY <2>1
  <2>4. QED
    BY <2>2, <2>3, FormerSooner, FormerGrows
<1>5. FormerOut(t1, n1 + room1, list1)
  <2> SUFFICES ASSUME NEW j \in 1..m1, t1[j].life = "former"
               PROVE  FormerAt(list1, n1 + room1 + 2 * (j - 1))
    BY <1>0 DEF FormerOut
  <2>1. j + d \in 1..m /\ t1[j] = t[j + d]
    BY <1>1
  <2>2. PICK a \in Nat, b \in Nat : a = n + room + 2 * ((j + d) - 1) /\ b = n1 + room1 + 2 * (j - 1)
                                    /\ b <= a
    <3>1. n1 + room1 <= n + room /\ d \in Nat /\ j \in Nat /\ j >= 1
      BY <1>0
    <3>2. QED
      BY <3>1
  <2>3. FormerAt(list, a)
    BY <1>0, <2>1, <2>2 DEF Lines, FormerOut
  <2>4. FormerAt(list1, b)
    <3>1. FormerAt(list, b)
      BY <2>2, <2>3, FormerSooner
    <3>2. QED
      BY <2>2, <3>1, FormerGrows
  <2>5. QED
    BY <2>2, <2>4
<1>6. LiveIn(s1, list1)
  BY <1>0, <1>2, <1>3 DEF LiveIn, Lines, Alike
<1>7. LiveOut(t1, list1)
  <2> SUFFICES ASSUME NEW j \in 1..m1, t1[j].life = "live"
               PROVE  list1 # <<>> /\ Alike(t1[j], list1[1])
    BY <1>0 DEF LiveOut
  <2>1. CASE j + d \in 1..m /\ t1[j] = t[j + d]
    BY <1>0, <1>3, <2>1 DEF LiveOut, Lines, Alike
  <2>2. QED
    BY <1>1, <2>1
<1>8. LiveLast(s1, t1)
  <2>1. ASSUME NEW i \in 1..m1, NEW j \in 1..m1, i < j, t1[i].life = "live"
        PROVE  t1[j].life = "live"
    <3>1. CASE j + d \in 1..m /\ t1[j] = t[j + d]
      <4>1. i \in 1..m0 /\ i + d \in 1..m /\ t1[i] = t[i + d] /\ i + d < j + d
        <5>1. i + d < j + d /\ i # m1
          BY <2>1
        <5>2. QED
          BY <1>1, <5>1
      <4>2. QED
        BY <1>0, <2>1, <3>1, <4>1 DEF Lines, LiveLast
    <3>2. QED
      BY <1>1, <3>1
  <2>2. ASSUME NEW i \in 1..n1, s1[i].life = "live", NEW j \in 1..m1
        PROVE  t1[j].life = "live"
    <3>1. PICK h \in 1..n : s1[i] = s[h]
      BY <1>2, <2>2
    <3>2. \A e \in 1..m : t[e].life = "live"
      BY <1>0, <2>2, <3>1 DEF Lines, LiveLast
    <3>3. QED
      BY <1>1, <3>2
  <2>3. QED
    BY <1>0, <2>1, <2>2 DEF LiveLast
<1>9. Done(s1, list1, on)
  <2> SUFFICES ASSUME NEW j \in 1..n1, s1[j].life = "live", s1[j].kind = "ok",
                      list1[1].id = "enable", list1[1].port \in Ports
               PROVE  on[list1[1].port] = list1[1].on
    BY <1>0 DEF Done
  <2>1. PICK i \in 1..n : s1[j] = s[i]
    BY <1>2
  <2>2. list # <<>>
    BY <1>0, <2>1 DEF Lines, LiveIn
  <2>3. list[1].id = "enable" /\ list[1].port = list1[1].port /\ list[1].on = list1[1].on
    BY <1>3, <2>2 DEF Alike
  <2>4. on[list[1].port] = list[1].on
    BY <1>0, <2>1, <2>3 DEF Lines, Done
  <2>5. QED
    BY <2>3, <2>4
<1>10. QED
  BY <1>0, <1>4, <1>5, <1>6, <1>7, <1>8, <1>9 DEF Lines

\* A frame is taken and a command leaves the list: nothing that was under way
\* is live any more.
LEMMA LeaveLines ==
  ASSUME NEW s \in Seq(Halves), NEW s1 \in Seq(Halves), NEW t \in Seq(SentFrames),
         NEW t1, NEW list \in Seq(QueuedCommands), list # <<>>, NEW on, NEW room \in Nat,
         Lines(s, t, list, on, room), Sent(Outdated(t), t1, Tail(list)),
         Len(s1) + 2 = Len(s), \A j \in 1..Len(s1) : s1[j] = Mark(s[j + 2])
  PROVE  Lines(s1, t1, Tail(list), on, room)
<1> DEFINE old == Outdated(t)
<1>1. /\ old \in Seq(SentFrames) /\ Len(old) = Len(t) /\ Len(t) \in Nat
      /\ \A j \in 1..Len(t) : old[j] = Mark(t[j])
  BY OutdatedType, OutdatedAt
<1>2. Tail(list) \in Seq(QueuedCommands) /\ Sent(old, t1, Tail(list))
  OBVIOUS
<1> HIDE DEF old
<1>0. PICK n1 \in Nat, m \in Nat, m1 \in Nat :
        n1 + 2 = Len(s) /\ n1 = Len(s1) /\ m = Len(t) /\ m1 = Len(t1)
  <2>1. Len(t1) \in Nat
    BY <1>1, <1>2, SentFacts
  <2>2. QED
    BY <1>1, <2>1
<1>3. \A j \in 1..n1 : /\ j + 2 \in 1..Len(s) /\ s[j + 2] \in Halves /\ s1[j].part = s[j + 2].part
                       /\ s1[j].life # "live" /\ (s1[j].life = "former" => s[j + 2].life = "former")
  <2> SUFFICES ASSUME NEW j \in 1..n1
               PROVE  /\ j + 2 \in 1..Len(s) /\ s[j + 2] \in Halves /\ s1[j].part = s[j + 2].part
                      /\ s1[j].life # "live" /\ (s1[j].life = "former" => s[j + 2].life = "former")
    OBVIOUS
  <2>1. j + 2 \in 1..Len(s)
    BY <1>0
  <2>2. s[j + 2] \in Halves /\ s1[j] = Mark(s[j + 2])
    BY <1>0, <2>1
  <2>3. s1[j].part = s[j + 2].part
    BY <2>2 DEF Mark, Halves
  <2>4. s1[j].life = IF s[j + 2].life = "live" THEN "stale" ELSE s[j + 2].life
    BY <2>2, MarkFacts DEF Numbered
  <2>5. QED
    BY <2>1, <2>2, <2>3, <2>4
<1>4. \A j \in 1..m : old[j].life # "live" /\ (old[j].life = "former" => t[j].life = "former")
  <2> SUFFICES ASSUME NEW j \in 1..m
               PROVE  old[j].life # "live" /\ (old[j].life = "former" => t[j].life = "former")
    OBVIOUS
  <2>1. t[j] \in SentFrames /\ old[j] = Mark(t[j])
    BY <1>0, <1>1
  <2>2. old[j].life = IF t[j].life = "live" THEN "stale" ELSE t[j].life
    BY <2>1, MarkFacts DEF Numbered
  <2>3. QED
    BY <2>2
<1>5. \A j \in 1..m1 :
        \/ j \in 1..m /\ t1[j] = old[j]
        \/ j = m + 1 /\ m1 = j /\ Tail(list) # <<>> /\ t1[j].life = "live" /\ Alike(t1[j], Tail(list)[1])
  <2>1. \A j \in 1..Len(t1) :
          \/ j \in 1..Len(old) /\ t1[j] = old[j]
          \/ /\ j = Len(old) + 1 /\ Len(t1) = j /\ Tail(list) # <<>>
             /\ t1[j].life = "live" /\ Alike(t1[j], Tail(list)[1])
    <3>1. PICK rest \in Seq(QueuedCommands) : rest = Tail(list)
      BY <1>2
    <3>2. \A j \in 1..Len(t1) :
            \/ j \in 1..Len(old) /\ t1[j] = old[j]
            \/ /\ j = Len(old) + 1 /\ Len(t1) = j /\ rest # <<>>
               /\ t1[j].life = "live" /\ Alike(t1[j], rest[1])
      <4>1. Sent(old, t1, rest) /\ old \in Seq(SentFrames)
        BY <1>1, <1>2, <3>1
      <4>2. QED
        BY <4>1, SentFacts
    <3>3. QED
      BY <3>1, <3>2
  <2>2. QED
    BY <1>0, <1>1, <2>1
<1>6. FormerIn(s1, Tail(list))
  <2> SUFFICES ASSUME NEW j \in 1..n1, s1[j].part = 1, s1[j].life = "former"
               PROVE  FormerAt(Tail(list), j - 1)
    BY <1>0 DEF FormerIn
  <2>1. FormerAt(list, (j + 2) - 1)
    BY <1>3 DEF Lines, FormerIn
  <2>2. PICK a \in Nat : a = (j + 2) - 1 /\ a >= 2 /\ a - 2 = j - 1
    OBVIOUS
  <2>3. FormerAt(Tail(list), a - 2)
    BY <2>1, <2>2, FormerLeaves
  <2>4. QED
    BY <2>2, <2>3
<1>7. FormerOut(t1, n1 + room, Tail(list))
  <2> SUFFICES ASSUME NEW j \in 1..m1, t1[j].life = "former"
               PROVE  FormerAt(Tail(list), n1 + room + 2 * (j - 1))
    BY <1>0 DEF FormerOut
  <2>1. j \in 1..m /\ t[j].life = "former"
    BY <1>4, <1>5
  <2>2. PICK a \in Nat : a = n1 + 2 + room + 2 * (j - 1) /\ a >= 2 /\ a - 2 = n1 + room + 2 * (j - 1)
    <3>1. j \in Nat /\ j >= 1
      OBVIOUS
    <3>2. QED
      BY <3>1
  <2>3. FormerAt(list, a)
    BY <1>0, <2>1, <2>2 DEF Lines, FormerOut
  <2>4. FormerAt(Tail(list), a - 2)
    BY <2>2, <2>3, FormerLeaves
  <2>5. QED
    BY <2>2, <2>4
<1>8. LiveIn(s1, Tail(list)) /\ Done(s1, Tail(list), on)
  BY <1>0, <1>3 DEF LiveIn, Done
<1>9. LiveOut(t1, Tail(list))
  BY <1>0, <1>4, <1>5 DEF LiveOut
<1>10. LiveLast(s1, t1)
  <2>1. ASSUME NEW i \in 1..m1, NEW j \in 1..m1, i < j, t1[i].life = "live" PROVE FALSE
    <3>1. i = m1
      BY <1>4, <1>5, <2>1
    <3>2. QED
      BY <2>1, <3>1
  <2>2. QED
    BY <1>0, <1>3, <2>1 DEF LiveLast
<1>11. QED
  BY <1>0, <1>6, <1>7, <1>8, <1>9, <1>10 DEF Lines

LEMMA LastTwo ==
  ASSUME NEW n \in Nat, NEW j \in 1..(n + 2) PROVE j \in 1..n \/ j = n + 1 \/ j = n + 2
OBVIOUS

\* What the MCU powers after it has handled c.
Powered(c, kind, on) ==
  [p \in Ports |-> IF kind = "ok" /\ c.id = "enable" /\ c.port = p THEN c.on ELSE on[p]]

\* The MCU answers: if the first command of the list was answered before, every
\* frame that is still on its way to the MCU repeats it.
LEMMA McuLines ==
  ASSUME NEW s \in Seq(Halves), NEW t \in Seq(SentFrames), t # <<>>,
         NEW list \in Seq(QueuedCommands), NEW on, NEW room \in Nat, NEW kind,
         NEW a \in Halves, NEW b \in Halves, Lines(s, t, list, on, room),
         a.part = 1 /\ a.kind = kind /\ a.id = t[1].id /\ a.port = t[1].port /\ a.life = t[1].life,
         b.part = 2 /\ b.kind = kind /\ b.id = t[1].id /\ b.port = t[1].port /\ b.life = t[1].life
  PROVE  Lines(s \o <<a, b>>, Tail(t), list, Powered(t[1], kind, on), room)
<1> DEFINE s1 == s \o <<a, b>>
           t1 == Tail(t)
           on1 == Powered(t[1], kind, on)
<1>0. PICK n \in Nat, m \in Nat : n = Len(s) /\ m + 1 = Len(t) /\ m = Len(t1)
  <2>1. Len(t) \in Nat /\ Len(t) # 0 /\ Len(t1) = Len(t) - 1 /\ Len(s) \in Nat
    BY HeadTailProperties
  <2>2. Len(t) - 1 \in Nat /\ (Len(t) - 1) + 1 = Len(t)
    BY <2>1
  <2>3. QED
    BY <2>1, <2>2
<1>1. /\ Len(s1) = n + 2 /\ \A j \in 1..n : s1[j] = s[j]
      /\ s1[n + 1] = a /\ s1[n + 2] = b
  <2>1. <<a, b>> \in Seq(Halves) /\ Len(<<a, b>>) = 2
    OBVIOUS
  <2>2. 1 \in 1..2 /\ 2 \in 1..2 /\ <<a, b>>[1] = a /\ <<a, b>>[2] = b
    OBVIOUS
  <2>3. QED
    BY <1>0, <2>1, <2>2, InFacts
<1>2. \A j \in 1..m : j + 1 \in 1..Len(t) /\ t1[j] = t[j + 1]
  <2>1. \A j \in 1..m : t1[j] = t[j + 1]
    BY <1>0, HeadTailProperties
  <2>2. QED
    BY <1>0, <2>1
<1>3. 1 \in 1..Len(t)
  BY <1>0
<1>4. \A p \in Ports : on1[p] = IF kind = "ok" /\ t[1].id = "enable" /\ t[1].port = p
                                THEN t[1].on ELSE on[p]
  BY DEF Powered
<1> HIDE DEF s1, t1, on1
<1>5. \A j \in 1..(n + 2) : j \in 1..n \/ j = n + 1 \/ j = n + 2
  BY LastTwo
<1>6. FormerIn(s1, list)
  <2> SUFFICES ASSUME NEW j \in 1..(n + 2), s1[j].part = 1, s1[j].life = "former"
               PROVE  FormerAt(list, j - 1)
    BY <1>1 DEF FormerIn
  <2>1. CASE j \in 1..n
    BY <1>0, <1>1, <2>1 DEF Lines, FormerIn
  <2>2. CASE j = n + 1
    <3>1. FormerAt(list, (n + room) + 2 * (1 - 1))
      BY <1>0, <1>1, <1>3, <2>2 DEF Lines, FormerOut
    <3>2. PICK e \in Nat, f \in Nat : e = (n + room) + 2 * (1 - 1) /\ f = j - 1 /\ f <= e
      BY <2>2
    <3>3. FormerAt(list, f)
      BY <3>1, <3>2, FormerSooner
    <3>4. QED
      BY <3>2, <3>3
  <2>3. QED
    BY <1>1, <1>5, <2>1, <2>2
<1>7. FormerOut(t1, (n + 2) + room, list)
  <2> SUFFICES ASSUME NEW j \in 1..m, t1[j].life = "former"
               PROVE  FormerAt(list, (n + 2) + room + 2 * (j - 1))
    BY <1>0 DEF FormerOut
  <2>1. FormerAt(list, (n + room) + 2 * ((j + 1) - 1))
    BY <1>0, <1>2 DEF Lines, FormerOut
  <2>2. (n + room) + 2 * ((j + 1) - 1) = (n + 2) + room + 2 * (j - 1)
    BY <1>0
  <2>3. QED
    BY <2>1, <2>2
<1>8. LiveIn(s1, list)
  <2> SUFFICES ASSUME NEW j \in 1..(n + 2), s1[j].life = "live"
               PROVE  list # <<>> /\ s1[j].id = list[1].id /\ s1[j].port = list[1].port
    BY <1>1 DEF LiveIn
  <2>1. CASE j \in 1..n
    BY <1>0, <1>1, <2>1 DEF Lines, LiveIn
  <2>2. CASE j = n + 1 \/ j = n + 2
    BY <1>1, <1>3, <2>2 DEF Lines, LiveOut, Alike
  <2>3. QED
    BY <1>5, <2>1, <2>2
<1>9. LiveOut(t1, list)
  <2>1. \A j \in 1..Len(t) : t[j].life = "live" => list # <<>> /\ Alike(t[j], list[1])
    BY DEF Lines, LiveOut
  <2>2. \A j \in 1..m : t1[j].life = "live" => list # <<>> /\ Alike(t1[j], list[1])
    BY <1>2, <2>1
  <2>3. QED
    BY <1>0, <2>2 DEF LiveOut
<1>10. LiveLast(s1, t1)
  <2>1. ASSUME NEW i \in 1..m, NEW j \in 1..m, i < j, t1[i].life = "live"
        PROVE  t1[j].life = "live"
    <3>1. i + 1 < j + 1
      BY <2>1
    <3>2. QED
      BY <1>2, <2>1, <3>1 DEF Lines, LiveLast
  <2>2. ASSUME NEW i \in 1..(n + 2), s1[i].life = "live", NEW j \in 1..m
        PROVE  t1[j].life = "live"
    <3>1. CASE i \in 1..n
      BY <1>0, <1>1, <1>2, <2>2, <3>1 DEF Lines, LiveLast
    <3>2. CASE i = n + 1 \/ i = n + 2
      <4>1. t[1].life = "live" /\ 1 < j + 1
        BY <1>1, <2>2, <3>2
      <4>2. QED
        BY <1>2, <1>3, <4>1 DEF Lines, LiveLast
    <3>3. QED
      BY <1>5, <3>1, <3>2
  <2>3. QED
    BY <1>0, <1>1, <2>1, <2>2 DEF LiveLast
<1>11. Done(s1, list, on1)
  <2> SUFFICES ASSUME NEW j \in 1..(n + 2), s1[j].life = "live", s1[j].kind = "ok",
                      list[1].id = "enable", list[1].port \in Ports
               PROVE  on1[list[1].port] = list[1].on
    BY <1>1 DEF Done
  <2>1. t[1].life = "live"
    <3>1. CASE j \in 1..n
      BY <1>0, <1>1, <1>3, <3>1 DEF Lines, LiveLast
    <3>2. CASE j = n + 1 \/ j = n + 2
      BY <1>1, <3>2
    <3>3. QED
      BY <1>5, <3>1, <3>2
  <2>2. t[1].id = "enable" /\ t[1].port = list[1].port /\ t[1].on = list[1].on
    BY <1>3, <2>1 DEF Lines, LiveOut, Alike
  <2>3. CASE kind = "ok"
    BY <1>4, <2>2, <2>3
  <2>4. CASE kind # "ok"
    <3>1. j \in 1..n
      BY <1>1, <1>5, <2>4
    <3>2. on[list[1].port] = list[1].on
      BY <1>0, <1>1, <3>1 DEF Lines, Done
    <3>3. QED
      BY <1>4, <2>4, <3>2
  <2>5. QED
    BY <2>3, <2>4
<1>12. Lines(s1, t1, list, on1, room)
  BY <1>1, <1>6, <1>7, <1>8, <1>9, <1>10, <1>11 DEF Lines
<1>13. QED
  BY <1>12 DEF s1, t1, on1

-----------------------------------------------------------------------------
(***************************************************************************)
(* What is wanted and what was answered.                                   *)
(***************************************************************************)

\* A list with the same commands.
LEMMA SameWanted ==
  ASSUME NEW list \in Seq(QueuedCommands), NEW list1 \in Seq(QueuedCommands),
         Len(list1) = Len(list), Grows(list, list1), NEW w, LastWanted(list, w)
  PROVE  LastWanted(list1, w) /\ \A p : Listed(list1, p) <=> Listed(list, p)
<1>0. PICK n \in Nat : n = Len(list) /\ n = Len(list1)
  OBVIOUS
<1>1. \A i \in 1..n : list1[i].on = list[i].on /\ \A p : IsSwitch(list1[i], p) <=> IsSwitch(list[i], p)
  BY <1>0 DEF Grows, Alike, IsSwitch
<1>2. \A p : Listed(list1, p) <=> Listed(list, p)
  BY <1>0, <1>1 DEF Listed
<1>3. ASSUME NEW p \in Ports, NEW k \in 1..n, IsSwitch(list1[k], p),
             \A i \in (k + 1)..n : ~IsSwitch(list1[i], p)
      PROVE  list1[k].on = w[p]
  <2>1. \A i \in (k + 1)..n : i \in 1..n
    BY <1>0
  <2>2. \A i \in (k + 1)..n : ~IsSwitch(list[i], p)
    BY <1>1, <1>3, <2>1
  <2>3. list[k].on = w[p]
    BY <1>0, <1>1, <1>3, <2>2 DEF LastWanted
  <2>4. QED
    BY <1>1, <2>3
<1>4. QED
  BY <1>0, <1>2, <1>3 DEF LastWanted

\* The frames under way are some of those before, or the first of the list.
LEMMA SameObeyed ==
  ASSUME NEW list \in Seq(QueuedCommands), NEW list1 \in Seq(QueuedCommands),
         NEW t, NEW t1, NEW old \in Seq(SentFrames), Sent(old, t1, list1), NEW on, NEW w, NEW sv,
         Obeyed(list, on, w, sv, t), \A p : Listed(list1, p) <=> Listed(list, p),
         \A j \in 1..Len(old) : \E i \in 1..Len(t) : old[j] = t[i]
  PROVE  Obeyed(list1, on, w, sv, t1)
<1> SUFFICES ASSUME NEW p \in Ports, sv[p], ~Listed(list1, p)
             PROVE  on[p] = w[p] /\ \A j \in 1..Len(t1) : IsSwitch(t1[j], p) => t1[j].on = w[p]
  BY Zenon DEF Obeyed
<1>1. on[p] = w[p] /\ \A j \in 1..Len(t) : IsSwitch(t[j], p) => t[j].on = w[p]
  BY Zenon DEF Obeyed
<1>2. ASSUME NEW j \in 1..Len(t1), IsSwitch(t1[j], p) PROVE t1[j].on = w[p]
  <2>1. CASE j \in 1..Len(old) /\ t1[j] = old[j]
    BY <1>1, <1>2, <2>1
  <2>2. CASE list1 # <<>> /\ Alike(t1[j], list1[1])
    <3>1. 1 \in 1..Len(list1)
      BY <2>2
    <3>2. IsSwitch(list1[1], p)
      BY <1>2, <2>2 DEF Alike, IsSwitch
    <3>3. QED
      BY <3>1, <3>2 DEF Listed
  <2>3. QED
    BY <2>1, <2>2, SentFacts
<1>3. QED
  BY <1>1, <1>2

\* No batch switches a port twice.
OnceEach(batch) ==
  \A i \in 1..Len(batch) : \A j \in 1..Len(batch) :
    batch[i].id = "enable" /\ batch[j].id = "enable" /\ batch[i].port = batch[j].port => i = j

LEMMA WantedFacts ==
  ASSUME NEW batch \in Seq(Commands), OnceEach(batch), NEW w, NEW p \in Ports
  PROVE  /\ \A k \in 1..Len(batch) : IsSwitch(batch[k], p) => Wanted(batch, w)[p] = batch[k].on
         /\ (\A k \in 1..Len(batch) : ~IsSwitch(batch[k], p)) => Wanted(batch, w)[p] = w[p]
<1>1. Wanted(batch, w)[p] = IF \E k \in 1..Len(batch) : batch[k].id = "enable" /\ batch[k].port = p
                            THEN \E k \in 1..Len(batch) : batch[k].id = "enable" /\ batch[k].port = p
                                                          /\ batch[k].on
                            ELSE w[p]
  BY Zenon DEF Wanted
<1>2. ASSUME NEW k \in 1..Len(batch), IsSwitch(batch[k], p)
      PROVE  Wanted(batch, w)[p] = batch[k].on
  <2>1. batch[k] \in Commands
    OBVIOUS
  <2>2. batch[k].on \in BOOLEAN
    BY <2>1 DEF Commands
  <2>3. Wanted(batch, w)[p] = \E i \in 1..Len(batch) : batch[i].id = "enable" /\ batch[i].port = p
                                                        /\ batch[i].on
    BY <1>1, <1>2, Zenon DEF IsSwitch
  <2>4. \A i \in 1..Len(batch) : batch[i].id = "enable" /\ batch[i].port = p => i = k
    BY <1>2 DEF IsSwitch, OnceEach
  <2>5. (\E i \in 1..Len(batch) : batch[i].id = "enable" /\ batch[i].port = p /\ batch[i].on)
          <=> batch[k].on
    BY <1>2, <2>4, Zenon DEF IsSwitch
  <2>6. CASE batch[k].on = TRUE
    <3>1. Wanted(batch, w)[p] = TRUE
      BY <2>3, <2>5, <2>6, Zenon
    <3>2. QED
      BY <2>6, <3>1, Zenon
  <2>7. CASE batch[k].on = FALSE
    <3>1. Wanted(batch, w)[p] = FALSE
      BY <2>3, <2>5, <2>7, Zenon
    <3>2. QED
      BY <2>7, <3>1, Zenon
  <2>8. QED
    BY <2>2, <2>6, <2>7
<1>3. ASSUME \A k \in 1..Len(batch) : ~IsSwitch(batch[k], p) PROVE Wanted(batch, w)[p] = w[p]
  BY <1>1, <1>3, Zenon DEF IsSwitch
<1>4. QED
  BY <1>2, <1>3

LEMMA StampedAlike ==
  ASSUME NEW batch \in Seq(Commands), NEW seq \in Nat
  PROVE  \A k \in 1..Len(batch) : Alike(Stamped(batch, seq)[k], batch[k])
BY DEF Stamped, Alike

\* The list with a batch behind it.
LEMMA Joined ==
  ASSUME NEW list \in Seq(QueuedCommands), NEW batch \in Seq(Commands), NEW seq \in Nat
  PROVE  /\ list \o Stamped(batch, seq) \in Seq(QueuedCommands)
         /\ Len(list \o Stamped(batch, seq)) = Len(list) + Len(batch)
         /\ \A i \in 1..Len(list) : (list \o Stamped(batch, seq))[i] = list[i]
         /\ \A i \in 1..Len(batch) : Alike((list \o Stamped(batch, seq))[Len(list) + i], batch[i])
         /\ Grows(list, list \o Stamped(batch, seq))
<1> DEFINE new == Stamped(batch, seq)
<1>1. new \in Seq(QueuedCommands) /\ Len(new) = Len(batch) /\ \A i \in 1..Len(batch) : Alike(new[i], batch[i])
  BY StampedType, StampedAlike
<1> HIDE DEF new
<1>2. PICK m \in Nat, n \in Nat : m = Len(list) /\ n = Len(batch) /\ n = Len(new)
  BY <1>1
<1>3. /\ list \o new \in Seq(QueuedCommands) /\ Len(list \o new) = m + n
      /\ \A i \in 1..(m + n) : (list \o new)[i] = IF i <= m THEN list[i] ELSE new[i - m]
  <2>1. list \in Seq(QueuedCommands) /\ new \in Seq(QueuedCommands)
    BY <1>1
  <2>2. QED
    BY <1>2, <2>1, ConcatProperties
<1>4. \A i \in 1..m : (list \o new)[i] = list[i]
  BY <1>3
<1>5. \A i \in 1..n : (list \o new)[m + i] = new[i]
  BY <1>3
<1>6. Grows(list, list \o new)
  <2>1. m <= m + n
    BY <1>2
  <2>2. QED
    BY <1>2, <1>3, <1>4, <2>1 DEF Grows, Alike
<1>7. QED
  BY <1>1, <1>2, <1>3, <1>4, <1>5, <1>6 DEF new

LEMMA QueueWanted ==
  ASSUME NEW list \in Seq(QueuedCommands), NEW batch \in Seq(Commands), NEW seq \in Nat,
         NEW w, LastWanted(list, w), OnceEach(batch)
  PROVE  LastWanted(list \o Stamped(batch, seq), Wanted(batch, w))
<1> DEFINE list1 == list \o Stamped(batch, seq)
<1>1. PICK m \in Nat, n \in Nat : m = Len(list) /\ n = Len(batch)
  OBVIOUS
<1>2. /\ Len(list1) = m + n /\ \A i \in 1..m : list1[i] = list[i]
      /\ \A i \in 1..n : Alike(list1[m + i], batch[i])
  BY <1>1, Joined
<1> HIDE DEF list1
<1>3. ASSUME NEW p \in Ports, NEW k \in 1..(m + n), IsSwitch(list1[k], p),
             \A i \in (k + 1)..(m + n) : ~IsSwitch(list1[i], p)
      PROVE  list1[k].on = Wanted(batch, w)[p]
  <2>1. CASE k \in 1..m
    <3>1. ASSUME NEW i \in 1..n PROVE ~IsSwitch(batch[i], p)
      <4>1. m + i \in (k + 1)..(m + n)
        BY <1>1, <2>1
      <4>2. ~IsSwitch(list1[m + i], p)
        BY <1>3, <4>1
      <4>3. QED
        BY <1>2, <4>2 DEF Alike, IsSwitch
    <3>2. Wanted(batch, w)[p] = w[p]
      BY <1>1, <3>1, WantedFacts
    <3>3. \A i \in (k + 1)..m : i \in 1..m /\ i \in (k + 1)..(m + n)
      BY <1>1, <2>1
    <3>4. \A i \in (k + 1)..m : ~IsSwitch(list[i], p)
      BY <1>2, <1>3, <3>3
    <3>5. list[k].on = w[p]
      BY <1>1, <1>2, <1>3, <2>1, <3>4 DEF LastWanted
    <3>6. QED
      BY <1>2, <2>1, <3>2, <3>5
  <2>2. CASE ~(k \in 1..m)
    <3>1. PICK i \in 1..n : k = m + i
      <4>1. k - m \in 1..n /\ k = m + (k - m)
        BY <1>1, <2>2
      <4>2. QED
        BY <4>1
    <3>2. IsSwitch(batch[i], p) /\ list1[k].on = batch[i].on
      BY <1>2, <1>3, <3>1 DEF Alike, IsSwitch
    <3>3. Wanted(batch, w)[p] = batch[i].on
      BY <1>1, <3>1, <3>2, WantedFacts
    <3>4. QED
      BY <3>2, <3>3
  <2>3. QED
    BY <2>1, <2>2
<1>4. LastWanted(list1, Wanted(batch, w))
  BY <1>2, <1>3 DEF LastWanted
<1>5. QED
  BY <1>4 DEF list1

LEMMA QueueObeyed ==
  ASSUME NEW list \in Seq(QueuedCommands), NEW batch \in Seq(Commands), NEW seq \in Nat,
         NEW t \in Seq(SentFrames), NEW t1, Sent(t, t1, list \o Stamped(batch, seq)),
         NEW on, NEW w, NEW sv, Obeyed(list, on, w, sv, t), OnceEach(batch)
  PROVE  Obeyed(list \o Stamped(batch, seq), on, Wanted(batch, w), sv, t1)
<1>1. PICK list1 \in Seq(QueuedCommands) : list1 = list \o Stamped(batch, seq)
  BY Joined
<1>2. PICK m \in Nat, n \in Nat : m = Len(list) /\ n = Len(batch)
  OBVIOUS
<1>3. /\ Len(list1) = m + n /\ \A i \in 1..m : list1[i] = list[i]
      /\ \A i \in 1..n : Alike(list1[m + i], batch[i])
  BY <1>1, <1>2, Joined
<1>4. Sent(t, t1, list1)
  BY <1>1
<1>5. ASSUME NEW p \in Ports, sv[p], ~Listed(list1, p)
      PROVE  /\ on[p] = Wanted(batch, w)[p]
             /\ \A j \in 1..Len(t1) : IsSwitch(t1[j], p) => t1[j].on = Wanted(batch, w)[p]
  <2>1. ~Listed(list, p)
    <3>1. \A i \in 1..m : i \in 1..(m + n)
      BY <1>2
    <3>2. QED
      BY <1>2, <1>3, <1>5, <3>1 DEF Listed
  <2>2. ASSUME NEW i \in 1..n PROVE ~IsSwitch(batch[i], p)
    <3>1. m + i \in 1..(m + n)
      BY <1>2
    <3>2. ~IsSwitch(list1[m + i], p)
      BY <1>3, <1>5, <3>1 DEF Listed
    <3>3. Alike(list1[m + i], batch[i])
      BY <1>3
    <3>4. QED
      BY <3>2, <3>3 DEF Alike, IsSwitch
  <2>3. Wanted(batch, w)[p] = w[p]
    BY <1>2, <2>2, WantedFacts
  <2>4. on[p] = w[p] /\ \A j \in 1..Len(t) : IsSwitch(t[j], p) => t[j].on = w[p]
    BY <1>5, <2>1, Zenon DEF Obeyed
  <2>5. ASSUME NEW j \in 1..Len(t1), IsSwitch(t1[j], p) PROVE t1[j].on = w[p]
    <3>1. CASE j \in 1..Len(t) /\ t1[j] = t[j]
      BY <2>4, <2>5, <3>1
    <3>2. CASE list1 # <<>> /\ Alike(t1[j], list1[1])
      <4>1. 1 \in 1..Len(list1)
        BY <3>2
      <4>2. IsSwitch(list1[1], p)
        BY <2>5, <3>2 DEF Alike, IsSwitch
      <4>3. QED
        BY <1>5, <4>1, <4>2 DEF Listed
    <3>3. QED
      <4>1. \A i \in 1..Len(t1) : (i \in 1..Len(t) /\ t1[i] = t[i])
                                   \/ (list1 # <<>> /\ Alike(t1[i], list1[1]))
        BY <1>4, SentFacts
      <4>2. QED
        BY <3>1, <3>2, <4>1
  <2>6. QED
    BY <2>3, <2>4, <2>5
<1>6. Obeyed(list1, on, Wanted(batch, w), sv, t1)
  BY <1>5, Zenon DEF Obeyed
<1>7. QED
  BY <1>1, <1>6

LEMMA TailFacts ==
  ASSUME NEW list \in Seq(QueuedCommands), list # <<>>
  PROVE  \E n \in Nat : /\ Len(list) = n + 1 /\ Len(Tail(list)) = n
                        /\ Tail(list) \in Seq(QueuedCommands)
                        /\ \A i \in 1..n : Tail(list)[i] = list[i + 1]
<1>1. /\ Len(list) \in Nat /\ Len(list) # 0 /\ Len(Tail(list)) = Len(list) - 1
      /\ \A i \in 1..Len(Tail(list)) : Tail(list)[i] = list[i + 1]
      /\ Tail(list) \in Seq(QueuedCommands)
  BY HeadTailProperties
<1>2. PICK n \in Nat : Len(list) = n + 1
  <2>1. Len(list) - 1 \in Nat /\ Len(list) = (Len(list) - 1) + 1
    BY <1>1
  <2>2. QED
    BY <2>1
<1>3. Len(Tail(list)) = n
  BY <1>1, <1>2
<1>4. QED
  BY <1>1, <1>2, <1>3

LEMMA LeaveWanted ==
  ASSUME NEW list \in Seq(QueuedCommands), list # <<>>, NEW w, LastWanted(list, w)
  PROVE  /\ LastWanted(Tail(list), w)
         /\ \A p : Listed(list, p) <=> IsSwitch(list[1], p) \/ Listed(Tail(list), p)
         /\ \A p \in Ports : IsSwitch(list[1], p) /\ ~Listed(Tail(list), p) => list[1].on = w[p]
<1>1. PICK n \in Nat : Len(list) = n + 1 /\ Len(Tail(list)) = n
                       /\ \A i \in 1..n : Tail(list)[i] = list[i + 1]
  BY TailFacts
<1>2. \A i \in 1..n : i + 1 \in 1..(n + 1) /\ i + 1 # 1
  BY <1>1
<1>3. \A j \in 1..(n + 1) : j = 1 \/ \E i \in 1..n : j = i + 1
  <2> SUFFICES ASSUME NEW j \in 1..(n + 1), j # 1 PROVE \E i \in 1..n : j = i + 1
    OBVIOUS
  <2>1. j - 1 \in 1..n /\ j = (j - 1) + 1
    BY <1>1
  <2>2. QED
    BY <2>1
<1>4. 1 \in 1..(n + 1)
  BY <1>1
<1>5. ASSUME NEW p PROVE Listed(list, p) <=> IsSwitch(list[1], p) \/ Listed(Tail(list), p)
  BY <1>1, <1>2, <1>3, <1>4 DEF Listed
<1>6. ASSUME NEW p \in Ports, NEW k \in 1..n, IsSwitch(Tail(list)[k], p),
             \A i \in (k + 1)..n : ~IsSwitch(Tail(list)[i], p)
      PROVE  Tail(list)[k].on = w[p]
  <2>1. ASSUME NEW j \in ((k + 1) + 1)..(n + 1) PROVE ~IsSwitch(list[j], p)
    <3>1. j - 1 \in (k + 1)..n /\ j - 1 \in 1..n /\ (j - 1) + 1 = j
      BY <1>1
    <3>2. QED
      BY <1>1, <1>6, <3>1
  <2>2. IsSwitch(list[k + 1], p) /\ k + 1 \in 1..(n + 1)
    BY <1>1, <1>2, <1>6
  <2>3. list[k + 1].on = w[p]
    BY <1>1, <2>1, <2>2 DEF LastWanted
  <2>4. QED
    BY <1>1, <2>3
<1>7. ASSUME NEW p \in Ports, IsSwitch(list[1], p), ~Listed(Tail(list), p)
      PROVE  list[1].on = w[p]
  <2>1. ASSUME NEW j \in (1 + 1)..(n + 1) PROVE ~IsSwitch(list[j], p)
    <3>1. PICK i \in 1..n : j = i + 1
      <4>1. j \in 1..(n + 1) /\ j # 1
        BY <1>1
      <4>2. QED
        BY <1>3, <4>1
    <3>2. QED
      BY <1>1, <1>7, <3>1 DEF Listed
  <2>2. QED
    BY <1>1, <1>4, <1>7, <2>1 DEF LastWanted
<1>8. QED
  BY <1>1, <1>5, <1>6, <1>7 DEF LastWanted

\* A command leaves the list; if it was answered, the answer was its own or its
\* id is not that of a switch.
LEMMA LeaveObeyed ==
  ASSUME NEW s, NEW t \in Seq(SentFrames), NEW t1, NEW list \in Seq(QueuedCommands), list # <<>>,
         NEW on, NEW room, NEW w, NEW sv, NEW answered \in BOOLEAN, NEW sv1,
         Sent(Outdated(t), t1, Tail(list)), Lines(s, t, list, on, room), LastWanted(list, w),
         Obeyed(list, on, w, sv, t), 1 \in 1..Len(s),
         \A p \in Ports : sv1[p] = IF IsSwitch(list[1], p) THEN answered ELSE sv[p],
         answered /\ list[1].id = "enable" => s[1].life = "live" /\ s[1].kind = "ok"
  PROVE  Obeyed(Tail(list), on, w, sv1, t1)
<1>1. PICK rest \in Seq(QueuedCommands) : rest = Tail(list)
  BY TailFacts
<1>2. PICK old \in Seq(SentFrames) : old = Outdated(t) /\ Len(old) = Len(t)
  BY OutdatedType
<1>3. \A j \in 1..Len(old) : j \in 1..Len(t) /\ Alike(old[j], t[j])
  <2> SUFFICES ASSUME NEW j \in 1..Len(t) PROVE Alike(old[j], t[j])
    BY <1>2
  <2>1. t[j] \in SentFrames /\ old[j] = Mark(t[j])
    BY <1>2, OutdatedAt
  <2>2. QED
    BY <2>1 DEF Mark, SentFrames, Alike
<1>4. \A j \in 1..Len(t1) : (j \in 1..Len(old) /\ t1[j] = old[j])
                            \/ (rest # <<>> /\ Alike(t1[j], rest[1]))
  <2>1. Sent(old, t1, rest)
    BY <1>1, <1>2
  <2>2. QED
    BY <2>1, SentFacts
<1>5. ASSUME NEW p \in Ports, sv1[p], ~Listed(rest, p)
      PROVE  on[p] = w[p] /\ \A j \in 1..Len(t1) : IsSwitch(t1[j], p) => t1[j].on = w[p]
  <2>1. on[p] = w[p] /\ \A j \in 1..Len(t) : IsSwitch(t[j], p) => t[j].on = w[p]
    <3>1. CASE IsSwitch(list[1], p)
      <4>1. answered
        BY <1>5, <3>1, Zenon
      <4>2. list[1].id = "enable" /\ list[1].port = p
        BY <3>1 DEF IsSwitch
      <4>3. s[1].life = "live" /\ s[1].kind = "ok"
        BY <4>1, <4>2, Zenon
      <4>4. list[1].on = w[p]
        BY <1>1, <1>5, <3>1, LeaveWanted
      <4>5. on[p] = list[1].on
        BY <4>2, <4>3 DEF Lines, Done
      <4>6. \A j \in 1..Len(t) : t[j].on = list[1].on
        BY <4>3 DEF Lines, LiveLast, LiveOut, Alike
      <4>7. QED
        BY <4>4, <4>5, <4>6
    <3>2. CASE ~IsSwitch(list[1], p)
      <4>1. sv[p]
        BY <1>5, <3>2, Zenon
      <4>2. ~Listed(list, p)
        BY <1>1, <1>5, <3>2, LeaveWanted
      <4>3. QED
        BY <4>1, <4>2, Zenon DEF Obeyed
    <3>3. QED
      BY <3>1, <3>2
  <2>2. ASSUME NEW j \in 1..Len(t1), IsSwitch(t1[j], p) PROVE t1[j].on = w[p]
    <3>1. CASE j \in 1..Len(old) /\ t1[j] = old[j]
      BY <1>3, <2>1, <2>2, <3>1 DEF IsSwitch, Alike
    <3>2. CASE rest # <<>> /\ Alike(t1[j], rest[1])
      <4>1. 1 \in 1..Len(rest)
        BY <3>2
      <4>2. IsSwitch(rest[1], p)
        BY <2>2, <3>2 DEF Alike, IsSwitch
      <4>3. QED
        BY <1>5, <4>1, <4>2 DEF Listed
    <3>3. QED
      BY <1>4, <3>1, <3>2
  <2>3. QED
    BY <2>1, <2>2
<1>6. Obeyed(rest, on, w, sv1, t1)
  BY <1>5, Zenon DEF Obeyed
<1>7. QED
  BY <1>1, <1>6

LEMMA McuObeyed ==
  ASSUME NEW t \in Seq(SentFrames), t # <<>>, NEW list, NEW on, NEW w, NEW sv, NEW kind,
         Obeyed(list, on, w, sv, t)
  PROVE  Obeyed(list, Powered(t[1], kind, on), w, sv, Tail(t))
<1>1. 1 \in 1..Len(t) /\ \A j \in 1..Len(Tail(t)) : j + 1 \in 1..Len(t) /\ Tail(t)[j] = t[j + 1]
  <2>1. /\ Len(t) \in Nat /\ Len(t) # 0 /\ Len(Tail(t)) = Len(t) - 1
        /\ \A i \in 1..Len(Tail(t)) : Tail(t)[i] = t[i + 1]
    BY HeadTailProperties
  <2>2. QED
    BY <2>1
<1>2. ASSUME NEW p \in Ports, sv[p], ~Listed(list, p)
      PROVE  /\ Powered(t[1], kind, on)[p] = w[p]
             /\ \A j \in 1..Len(Tail(t)) : IsSwitch(Tail(t)[j], p) => Tail(t)[j].on = w[p]
  <2>1. on[p] = w[p] /\ \A j \in 1..Len(t) : IsSwitch(t[j], p) => t[j].on = w[p]
    BY <1>2, Zenon DEF Obeyed
  <2>2. Powered(t[1], kind, on)[p] = w[p]
    BY <1>1, <2>1 DEF Powered, IsSwitch
  <2>3. QED
    BY <1>1, <2>1, <2>2
<1>3. QED
  BY <1>2, Zenon DEF Obeyed

-----------------------------------------------------------------------------
(***************************************************************************)
(* The batches: n commands that switch nothing, then each port once.       *)
(***************************************************************************)
SetupOf(batch, en, n) ==
  /\ Len(batch) = n + PortCount /\ \A i \in 1..n : batch[i].id # "enable"
  /\ \A i \in 1..PortCount : batch[n + i] = Switch(i - 1, en[i - 1])

\* poet_setup sends at least one group of each kind of command.
LEMMA GroupsPositive ==
  ASSUME NEW en \in [Ports -> BOOLEAN]
  PROVE  Groups(en) \in Nat /\ Groups(en) >= 1
<1> DEFINE on == {p \in Ports : en[p]}
<1>1. IsFiniteSet(Ports)
  BY FS_Interval, PoeSizesAssumption DEF Ports
<1>2. IsFiniteSet(on)
  <2>1. on \in SUBSET Ports
    OBVIOUS
  <2>2. QED
    BY <1>1, <2>1, FS_Subset
<1>3. Cardinality(on) \in Nat /\ (on # {} => Cardinality(on) # 0)
  <2>1. Cardinality(on) \in Nat
    BY <1>2, FS_CardinalityType
  <2>2. Cardinality(on) = 0 <=> on = {}
    BY <1>2, FS_EmptySet
  <2>3. QED
    BY <2>1, <2>2
<1>4. PICK c \in Nat : c = Cardinality(on) /\ (on # {} => c # 0)
  BY <1>3
<1>5. Groups(en) = IF on # {} /\ c % 4 = 0 /\ en[PortCount - 1] THEN c \div 4 ELSE c \div 4 + 1
  BY <1>4 DEF Groups
<1> HIDE DEF on
<1>6. c \div 4 \in Nat /\ (c # 0 /\ c % 4 = 0 => c \div 4 >= 1)
  OBVIOUS
<1>7. QED
  BY <1>4, <1>5, <1>6

NoSwitch(batch) == \A i \in 1..Len(batch) : batch[i].id # "enable"

LEMMA Concat ==
  ASSUME NEW a \in Seq(Commands), NEW b \in Seq(Commands)
  PROVE  /\ a \o b \in Seq(Commands) /\ Len(a \o b) = Len(a) + Len(b)
         /\ \A i \in 1..Len(a) : (a \o b)[i] = a[i]
         /\ \A i \in 1..Len(b) : (a \o b)[Len(a) + i] = b[i]
         /\ \A i \in 1..(Len(a) + Len(b)) : i \in 1..Len(a) \/ \E j \in 1..Len(b) : i = Len(a) + j
<1>1. PICK m \in Nat, n \in Nat : m = Len(a) /\ n = Len(b)
  OBVIOUS
<1>2. /\ a \o b \in Seq(Commands) /\ Len(a \o b) = m + n
      /\ \A i \in 1..(m + n) : (a \o b)[i] = IF i <= m THEN a[i] ELSE b[i - m]
  BY <1>1, ConcatProperties
<1>3. (\A i \in 1..m : (a \o b)[i] = a[i]) /\ (\A i \in 1..n : (a \o b)[m + i] = b[i])
  BY <1>2
<1>4. ASSUME NEW i \in 1..(m + n), ~(i \in 1..m) PROVE \E j \in 1..n : i = m + j
  <2>1. i - m \in 1..n /\ i = m + (i - m)
    BY <1>4
  <2>2. QED
    BY <2>1
<1>5. QED
  BY <1>1, <1>2, <1>3, <1>4

LEMMA NoSwitchConcat ==
  ASSUME NEW a \in Seq(Commands), NEW b \in Seq(Commands), NoSwitch(a), NoSwitch(b)
  PROVE  NoSwitch(a \o b)
<1> SUFFICES ASSUME NEW i \in 1..(Len(a) + Len(b)) PROVE (a \o b)[i].id # "enable"
  BY Concat DEF NoSwitch
<1>1. CASE i \in 1..Len(a)
  BY <1>1, Concat DEF NoSwitch
<1>2. ASSUME NEW j \in 1..Len(b), i = Len(a) + j PROVE (a \o b)[i].id # "enable"
  BY <1>2, Concat DEF NoSwitch
<1>3. i \in 1..Len(a) \/ \E j \in 1..Len(b) : i = Len(a) + j
  BY Concat
<1>4. QED
  BY <1>1, <1>2, <1>3

LEMMA SetupConcat ==
  ASSUME NEW a \in Seq(Commands), NEW b \in Seq(Commands), NoSwitch(a), NEW en, NEW n \in Nat,
         NEW m \in Nat, m = Len(a), SetupOf(b, en, n)
  PROVE  SetupOf(a \o b, en, m + n)
<1>1. PICK c \in Nat : c = PortCount /\ Len(b) = n + c
  BY PoeSizesAssumption DEF SetupOf
<1>2. /\ Len(a \o b) = m + (n + c)
      /\ \A i \in 1..m : (a \o b)[i] = a[i]
      /\ \A i \in 1..(n + c) : (a \o b)[m + i] = b[i]
  <2>1. /\ Len(a \o b) = Len(a) + Len(b)
        /\ \A i \in 1..Len(a) : (a \o b)[i] = a[i]
        /\ \A i \in 1..Len(b) : (a \o b)[Len(a) + i] = b[i]
    BY Concat
  <2>2. QED
    BY <1>1, <2>1
<1>3. ASSUME NEW i \in 1..(m + n) PROVE (a \o b)[i].id # "enable"
  <2>1. CASE i \in 1..m
    BY <1>2, <2>1 DEF NoSwitch
  <2>2. CASE ~(i \in 1..m)
    <3>1. i - m \in 1..n /\ i - m \in 1..(n + c) /\ m + (i - m) = i
      BY <1>1, <2>2
    <3>2. b[i - m].id # "enable" /\ (a \o b)[m + (i - m)] = b[i - m]
      BY <1>2, <3>1 DEF SetupOf
    <3>3. QED
      BY <3>1, <3>2
  <2>3. QED
    BY <2>1, <2>2
<1>4. ASSUME NEW i \in 1..c PROVE (a \o b)[(m + n) + i] = Switch(i - 1, en[i - 1])
  <2>1. n + i \in 1..(n + c) /\ m + (n + i) = (m + n) + i
    BY <1>1
  <2>2. (a \o b)[m + (n + i)] = b[n + i] /\ b[n + i] = Switch(i - 1, en[i - 1])
    BY <1>1, <1>2, <2>1 DEF SetupOf
  <2>3. QED
    BY <2>1, <2>2
<1>5. Len(a \o b) = (m + n) + c
  BY <1>1, <1>2
<1>6. QED
  BY <1>1, <1>3, <1>4, <1>5 DEF SetupOf

LEMMA SetupShape ==
  ASSUME NEW en \in [Ports -> BOOLEAN]
  PROVE  \E n \in Nat : /\ n >= 3 /\ SetupOf(poe_port_setup(en), en, n)
                        /\ SetupOf(poe_initial_setup(en), en, 4 + n)
<1> DEFINE ids == <<"priority", "classification", "limit_type">>
           switches == [k \in 1..PortCount |-> Switch(k - 1, en[k - 1])]
           first == <<Plain("status"), Plain("mgmt_mode"), Plain("port_mapping"),
                      Plain("power_budget")>>
<1>1. PICK n \in Nat : n = 3 * Groups(en) /\ n >= 3
  <2>1. PICK g \in Nat : g = Groups(en) /\ g >= 1
    BY GroupsPositive
  <2>2. 3 * g \in Nat /\ 3 * g >= 3
    BY <2>1
  <2>3. QED
    BY <2>1, <2>2
<1>2. \A k \in 1..n : ids[((k - 1) % 3) + 1] \in CommandIds /\ ids[((k - 1) % 3) + 1] # "enable"
  <2>1. \A k \in 1..n : ((k - 1) % 3) + 1 \in 1..3
    BY <1>1
  <2>2. \A j \in 1..3 : ids[j] \in CommandIds /\ ids[j] # "enable"
    BY DEF CommandIds
  <2>3. QED
    BY <2>1, <2>2
<1>3. poet_setup(en) = [k \in 1..n |-> Plain(ids[((k - 1) % 3) + 1])]
  BY <1>1 DEF poet_setup
<1>4. PICK g \in Seq(Commands) : g = poet_setup(en) /\ Len(g) = n /\ NoSwitch(g)
  <2>1. poet_setup(en) \in Seq(Commands)
    BY <1>2, <1>3, PlainType
  <2>2. Len(poet_setup(en)) = n
    BY <1>3
  <2>3. \A k \in 1..n : poet_setup(en)[k].id # "enable"
    BY <1>2, <1>3 DEF Plain
  <2>4. QED
    BY <2>1, <2>2, <2>3 DEF NoSwitch
<1>5. PICK sw \in Seq(Commands) : sw = switches /\ SetupOf(sw, en, 0)
  <2>1. \A k \in 1..PortCount : Switch(k - 1, en[k - 1]) \in Commands
    BY PoeSizesAssumption DEF Switch, Commands, CommandIds, Ports
  <2>2. switches \in Seq(Commands) /\ Len(switches) = PortCount
    BY <2>1, PoeSizesAssumption
  <2>3. \A k \in 1..PortCount : switches[0 + k] = Switch(k - 1, en[k - 1])
    BY PoeSizesAssumption
  <2>4. Len(switches) = 0 + PortCount /\ \A i \in 1..0 : switches[i].id # "enable"
    BY <2>2, PoeSizesAssumption
  <2>5. SetupOf(switches, en, 0)
    <3> HIDE DEF switches
    <3> QED
      BY <2>3, <2>4 DEF SetupOf
  <2>6. QED
    BY <2>2, <2>5
<1>6. PICK f \in Seq(Commands) : f = first /\ Len(f) = 4 /\ NoSwitch(f)
  <2>1. first \in Seq(Commands) /\ Len(first) = 4
    BY PlainType DEF CommandIds
  <2>2. \A k \in 1..4 : first[k].id # "enable"
    BY DEF Plain
  <2>3. QED
    BY <2>1, <2>2 DEF NoSwitch
<1>7. poe_port_setup(en) = g \o sw /\ poe_initial_setup(en) = f \o (g \o sw)
  BY <1>4, <1>5, <1>6 DEF poe_port_setup, poe_initial_setup
<1> HIDE DEF ids, switches, first
<1>8. g \o sw \in Seq(Commands)
  BY Concat
<1>9. SetupOf(g \o sw, en, n)
  <2>1. SetupOf(g \o sw, en, n + 0) /\ n + 0 = n
    BY <1>4, <1>5, SetupConcat
  <2>2. QED
    BY <2>1
<1>10. SetupOf(f \o (g \o sw), en, 4 + n)
  BY <1>6, <1>8, <1>9, SetupConcat
<1>11. QED
  BY <1>1, <1>7, <1>9, <1>10

LEMMA SetupOnce ==
  ASSUME NEW batch, NEW en, NEW n \in Nat, SetupOf(batch, en, n)
  PROVE  /\ OnceEach(batch)
         /\ \A p \in Ports, i \in 1..Len(batch) : IsSwitch(batch[i], p) => batch[i].on = en[p]
<1>1. PICK c \in Nat : c = PortCount /\ Len(batch) = n + c
  BY PoeSizesAssumption DEF SetupOf
<1>2. ASSUME NEW i \in 1..(n + c), batch[i].id = "enable"
      PROVE  batch[i] = Switch((i - n) - 1, en[(i - n) - 1])
  <2>1. ~(i \in 1..n)
    BY <1>2 DEF SetupOf
  <2>2. i - n \in 1..c /\ n + (i - n) = i
    BY <1>1, <2>1
  <2>3. batch[n + (i - n)] = Switch((i - n) - 1, en[(i - n) - 1])
    BY <1>1, <2>2 DEF SetupOf
  <2>4. QED
    BY <2>2, <2>3
<1>3. ASSUME NEW i \in 1..(n + c), batch[i].id = "enable"
      PROVE  batch[i].port = (i - n) - 1 /\ batch[i].on = en[(i - n) - 1]
  <2>1. PICK k : k = (i - n) - 1 /\ batch[i] = Switch(k, en[k])
    BY <1>2, <1>3
  <2>2. QED
    BY <2>1 DEF Switch
<1>4. OnceEach(batch)
  BY <1>1, <1>3 DEF OnceEach
<1>5. QED
  BY <1>1, <1>3, <1>4 DEF IsSwitch

\* The list after the setup.
LEMMA SetupList ==
  ASSUME NEW en \in [Ports -> BOOLEAN], NEW list, list = Stamped(poe_initial_setup(en), 0)
  PROVE  /\ LastWanted(list, en) /\ list \in Seq(QueuedCommands) /\ list # <<>>
         /\ \A a \in Nat : a < 14 => FormerAt(list, a)
<1>1. PICK m \in Nat : m >= 3 /\ SetupOf(poe_initial_setup(en), en, 4 + m)
  BY SetupShape
<1>2. PICK b \in Seq(Commands), n \in Nat, c \in Nat :
        /\ b = poe_initial_setup(en) /\ n = 4 + m /\ n >= 7 /\ SetupOf(b, en, n)
        /\ c = PortCount /\ Len(b) = n + c
  <2>1. poe_initial_setup(en) \in Seq(Commands)
    BY SetupType
  <2>2. 4 + m \in Nat /\ 4 + m >= 7
    BY <1>1
  <2>3. QED
    BY <1>1, <2>1, <2>2, PoeSizesAssumption DEF SetupOf
<1>3. /\ list \in Seq(QueuedCommands) /\ Len(list) = n + c
      /\ \A k \in 1..(n + c) : Alike(list[k], b[k])
  BY <1>2, StampedType, StampedAlike
<1>4. list # <<>>
  <2>1. Len(list) > 0
    BY <1>2, <1>3
  <2>2. QED
    BY <2>1
<1>5. LastWanted(list, en)
  <2>1. \A p \in Ports, i \in 1..(n + c) : IsSwitch(b[i], p) => b[i].on = en[p]
    BY <1>2, SetupOnce
  <2>2. \A p \in Ports, i \in 1..(n + c) : IsSwitch(list[i], p) => list[i].on = en[p]
    BY <1>3, <2>1 DEF Alike, IsSwitch
  <2>3. QED
    BY <1>3, <2>2 DEF LastWanted
<1>6. ASSUME NEW a \in Nat, a < 14 PROVE FormerAt(list, a)
  <2>1. n \in 0..Len(list) /\ a < 2 * n
    BY <1>2, <1>3, <1>6
  <2>2. \A i \in 1..n : i \in 1..(n + c) /\ b[i].id # "enable"
    BY <1>2 DEF SetupOf
  <2>3. \A i \in 1..n : list[i].id # "enable"
    BY <1>3, <2>2 DEF Alike
  <2>4. QED
    BY <2>1, <2>3 DEF FormerAt
<1>7. QED
  BY <1>3, <1>4, <1>5, <1>6

LEMMA PollOnce == OnceEach(PollBatch)
<1> DEFINE g == (PortCount + 3) \div 4
           groups == [j \in 1..g |-> OfPort("4_port_status", j - 1)]
           ids == <<"port_config", "ext_config", "port_power_stats">>
           each == [k \in 1..(3 * PortCount) |->
                      OfPort(ids[((k - 1) % 3) + 1], (k - 1) \div 3)]
<1>1. PICK n \in Nat, c \in Nat : n = g /\ c = 3 * PortCount
  BY PoeSizesAssumption
<1>2. PICK x \in Seq(Commands) : x = groups /\ NoSwitch(x)
  <2>1. groups \in Seq(Commands) /\ Len(groups) = n
    BY <1>1, PlainType DEF CommandIds
  <2>2. \A i \in 1..n : groups[i].id # "enable"
    BY <1>1 DEF OfPort
  <2>3. QED
    BY <2>1, <2>2 DEF NoSwitch
<1>3. \A j \in 1..3 : ids[j] \in CommandIds /\ ids[j] # "enable"
  BY DEF CommandIds
<1>4. \A k \in 1..c : ((k - 1) % 3) + 1 \in 1..3 /\ (k - 1) \div 3 \in Nat
  BY <1>1
<1> HIDE DEF ids
<1>5. PICK y \in Seq(Commands) : y = each /\ NoSwitch(y)
  <2>0. \A k \in 1..c : OfPort(ids[((k - 1) % 3) + 1], (k - 1) \div 3) \in Commands
    BY <1>3, <1>4, PlainType
  <2>1. each \in Seq(Commands) /\ Len(each) = c
    BY <1>1, <2>0
  <2>2. \A i \in 1..c : each[i].id # "enable"
    BY <1>1, <1>3, <1>4 DEF OfPort
  <2>3. QED
    BY <2>1, <2>2 DEF NoSwitch
<1>6. PICK z \in Seq(Commands) : z = <<Plain("power_stats")>> /\ NoSwitch(z)
  <2>1. <<Plain("power_stats")>> \in Seq(Commands)
    BY PlainType DEF CommandIds
  <2>2. NoSwitch(<<Plain("power_stats")>>)
    BY DEF Plain, NoSwitch
  <2>3. QED
    BY <2>1, <2>2
<1>7. PollBatch = (z \o x) \o y
  BY <1>2, <1>5, <1>6 DEF PollBatch, ids
<1> HIDE DEF groups, each, g
<1>8. z \o x \in Seq(Commands) /\ NoSwitch(z \o x)
  BY <1>2, <1>6, Concat, NoSwitchConcat
<1>9. NoSwitch((z \o x) \o y)
  BY <1>5, <1>8, NoSwitchConcat
<1>10. QED
  BY <1>7, <1>9 DEF NoSwitch, OnceEach

LEMMA CallSwitches ==
  ASSUME TypeOK,
         state_timeout_cb \/ ubus_poe_manage_cb \/ ubus_poe_sendframe_cb \/ ubus_poe_reload_cb
  PROVE  \E batch \in Seq(Commands) : Len(batch) > 0 /\ OnceEach(batch) /\ poe_cmd_queue(batch)
<1>1. CASE state_timeout_cb
  BY <1>1, PollType, PollOnce DEF state_timeout_cb
<1>2. CASE ubus_poe_manage_cb
  <2>1. PICK p \in Ports, on \in BOOLEAN : poe_cmd_queue(<<Switch(p, on)>>)
    BY <1>2 DEF ubus_poe_manage_cb
  <2>2. Switch(p, on) \in Commands
    BY PoeSizesAssumption DEF Switch, Commands, CommandIds, Ports
  <2>3. <<Switch(p, on)>> \in Seq(Commands) /\ Len(<<Switch(p, on)>>) = 1
    BY <2>2
  <2>4. OnceEach(<<Switch(p, on)>>)
    BY <2>3 DEF OnceEach
  <2>5. QED
    BY <2>1, <2>3, <2>4
<1>3. CASE ubus_poe_sendframe_cb
  <2>1. PICK c \in RawCommands : poe_cmd_queue(<<c>>)
    BY <1>3 DEF ubus_poe_sendframe_cb
  <2>2. c \in Commands
    BY PoeSizesAssumption
  <2>3. <<c>> \in Seq(Commands) /\ Len(<<c>>) = 1
    BY <2>2
  <2>4. OnceEach(<<c>>)
    BY <2>3 DEF OnceEach
  <2>5. Len(<<c>>) > 0
    BY <2>3
  <2>6. QED
    BY <2>1, <2>3, <2>4, <2>5
<1>4. CASE ubus_poe_reload_cb
  <2>1. enable' \in [Ports -> BOOLEAN] /\ poe_cmd_queue(poe_port_setup(enable'))
    BY <1>4 DEF ubus_poe_reload_cb, config_load
  <2>2. poe_port_setup(enable') \in Seq(Commands) /\ Len(poe_port_setup(enable')) > 0
    BY <2>1, SetupType
  <2>3. OnceEach(poe_port_setup(enable'))
    BY <2>1, SetupShape, SetupOnce
  <2>4. QED
    BY <2>1, <2>2, <2>3
<1>5. QED
  BY <1>1, <1>2, <1>3, <1>4

-----------------------------------------------------------------------------
(***************************************************************************)
(* The steps.                                                              *)
(***************************************************************************)
LEMMA RoomType == ASSUME NEW m \in Nat, NEW f \in 0..m PROVE m - f \in Nat
OBVIOUS

LEMMA PowerTypes ==
  ASSUME TypeOK
  PROVE  /\ In \in Seq(Halves) /\ Len(In) \in Nat /\ toMcu \in Seq(SentFrames) /\ Len(toMcu) \in Nat
         /\ cmd_pending \in Seq(QueuedCommands) /\ Len(cmd_pending) \in Nat
         /\ MaxFaults - faults \in Nat /\ faults \in Nat /\ MaxFaults \in Nat /\ cmd_seq \in Nat
<1>1. faults \in 0..MaxFaults /\ MaxFaults \in Nat /\ cmd_seq \in Nat
  BY PoeSizesAssumption DEF TypeOK
<1>2. MaxFaults - faults \in Nat /\ faults \in Nat
  BY <1>1
<1>3. QED
  BY <1>1, <1>2, InType, LineTypes

LEMMA NextPowerTypes ==
  ASSUME TypeOK'
  PROVE  /\ In' \in Seq(Halves) /\ Len(In') \in Nat /\ toMcu' \in Seq(SentFrames)
         /\ cmd_pending' \in Seq(QueuedCommands) /\ Len(cmd_pending') \in Nat
         /\ MaxFaults - faults' \in Nat
<1>1. faults' \in 0..MaxFaults /\ MaxFaults \in Nat
  BY PoeSizesAssumption DEF TypeOK
<1>2. MaxFaults - faults' \in Nat
  <2>1. PICK m \in Nat : m = MaxFaults
    BY <1>1
  <2>2. PICK f \in 0..m : f = faults'
    BY <1>1, <2>1
  <2>3. QED
    BY <2>1, <2>2, RoomType
<1>3. QED
  BY <1>2, NextLines

\* A step that changes neither the list, except for the retries, nor what is
\* wanted and powered.
LEMMA SameListPower ==
  ASSUME TypeOK, TypeOK', PowerInv, NEW d \in {0, 1}, NEW old \in Seq(SentFrames), Sends(old),
         Shifted(toMcu, old, d), Sooner(In, In'),
         Len(In') + (MaxFaults - faults') <= Len(In) + (MaxFaults - faults),
         Len(cmd_pending') = Len(cmd_pending), Grows(cmd_pending, cmd_pending'),
         UNCHANGED <<mcuOn, want, served>>
  PROVE  PowerInv'
<1>1. PICK s \in Seq(Halves), t \in Seq(SentFrames), list \in Seq(QueuedCommands), room \in Nat :
        s = In /\ t = toMcu /\ list = cmd_pending /\ room = MaxFaults - faults
  BY PowerTypes
<1>2. PICK s1 \in Seq(Halves), t1 \in Seq(SentFrames), list1 \in Seq(QueuedCommands), room1 \in Nat :
        s1 = In' /\ t1 = toMcu' /\ list1 = cmd_pending' /\ room1 = MaxFaults - faults'
  BY NextPowerTypes
<1>3. Lines(s, t, list, mcuOn, room) /\ LastWanted(list, want) /\ Obeyed(list, mcuOn, want, served, t)
  BY <1>1 DEF PowerInv
<1>4. Sent(old, t1, list1)
  BY <1>2 DEF Sends, Sent
<1>5. Lines(s1, t1, list1, mcuOn, room1)
  <2>1. Shifted(t, old, d) /\ Sooner(s, s1) /\ Grows(list, list1)
        /\ Len(s1) + room1 <= Len(s) + room
    BY <1>1, <1>2
  <2>2. QED
    BY <1>3, <1>4, <2>1, QuietLines
<1>6. LastWanted(list1, want) /\ \A p : Listed(list1, p) <=> Listed(list, p)
  BY <1>1, <1>2, <1>3, SameWanted
<1>7. Obeyed(list1, mcuOn, want, served, t1)
  <2>1. ASSUME NEW j \in 1..Len(old) PROVE \E i \in 1..Len(t) : old[j] = t[i]
    <3>1. j + d \in 1..Len(t) /\ old[j] = t[j + d]
      BY <1>1 DEF Shifted
    <3>2. QED
      BY <3>1
  <2>2. QED
    BY <1>3, <1>4, <1>6, <2>1, SameObeyed
<1>8. mcuOn' = mcuOn /\ want' = want /\ served' = served
  OBVIOUS
<1>9. QED
  BY <1>2, <1>5, <1>6, <1>7, <1>8 DEF PowerInv

LEMMA QueuePower ==
  ASSUME TypeOK, TypeOK', PowerInv, NEW batch \in Seq(Commands), Len(batch) > 0, OnceEach(batch),
         poe_cmd_queue(batch)
  PROVE  PowerInv'
<1>1. PICK s \in Seq(Halves), t \in Seq(SentFrames), list \in Seq(QueuedCommands), room \in Nat,
           seq \in Nat :
        s = In /\ t = toMcu /\ list = cmd_pending /\ room = MaxFaults - faults /\ seq = cmd_seq
  BY PowerTypes
<1>2. /\ In' = s /\ cmd_pending' = list \o Stamped(batch, seq) /\ want' = Wanted(batch, want)
      /\ mcuOn' = mcuOn /\ served' = served /\ faults' = faults /\ Sends(toMcu)
  BY <1>1, QueueOut DEF poe_cmd_queue
<1>3. PICK list1 \in Seq(QueuedCommands) : list1 = cmd_pending'
  BY NextPowerTypes
<1>4. Lines(s, t, list, mcuOn, room) /\ LastWanted(list, want) /\ Obeyed(list, mcuOn, want, served, t)
  BY <1>1 DEF PowerInv
<1>5. Sent(t, toMcu', list1)
  BY <1>1, <1>2, <1>3 DEF Sends, Sent
<1>6. Grows(list, list1)
  BY <1>2, <1>3, Joined
<1>7. Lines(s, toMcu', list1, mcuOn, room)
  <2>1. 0 \in {0, 1} /\ Shifted(t, t, 0) /\ Sooner(s, s) /\ Len(s) + room <= Len(s) + room
    BY DEF Shifted, Sooner
  <2>2. QED
    BY <1>4, <1>5, <1>6, <2>1, QuietLines
<1>8. LastWanted(list1, want')
  BY <1>2, <1>3, <1>4, QueueWanted
<1>9. Obeyed(list1, mcuOn, want', served, toMcu')
  BY <1>2, <1>3, <1>4, <1>5, QueueObeyed
<1>10. MaxFaults - faults' = room
  BY <1>1, <1>2
<1>11. QED
  BY <1>2, <1>3, <1>7, <1>8, <1>9, <1>10 DEF PowerInv

\* A command leaves the list.
LEMMA LeavePower ==
  ASSUME TypeOK, TypeOK', PowerInv, NEW k \in 1..Len(line), NEW answered \in BOOLEAN,
         Consume(k, TRUE), cmd_pending # <<>>, Leaves(answered),
         answered /\ cmd_pending[1].id = "enable" => In[1].life = "live" /\ In[1].kind = "ok"
  PROVE  PowerInv'
<1>1. PICK s \in Seq(Halves), t \in Seq(SentFrames), list \in Seq(QueuedCommands), room \in Nat :
        s = In /\ t = toMcu /\ list = cmd_pending /\ room = MaxFaults - faults
  BY PowerTypes
<1>2. PICK s1 \in Seq(Halves), t1 \in Seq(SentFrames) : s1 = In' /\ t1 = toMcu'
  BY NextPowerTypes
<1>3. Lines(s, t, list, mcuOn, room) /\ LastWanted(list, want) /\ Obeyed(list, mcuOn, want, served, t)
  BY <1>1 DEF PowerInv
<1>4. mcuOn' = mcuOn /\ want' = want /\ faults' = faults /\ cmd_pending' = Tail(list)
  BY <1>1 DEF Consume, Read, bounds, Leaves
<1>5. Sent(Outdated(t), t1, Tail(list))
  <2>1. Sends(Outdated(toMcu))
    BY ConsumeSends
  <2>2. QED
    BY <1>1, <1>2, <1>4, <2>1 DEF Sends, Sent
<1>6. Len(s1) + 2 = Len(s) /\ 1 \in 1..Len(s) /\ \A j \in 1..Len(s1) : s1[j] = Mark(s[j + 2])
  <2>1. /\ Len(In) >= 2 /\ Len(In') = Len(In) - 2
        /\ \A j \in 1..Len(In') : In'[j] = Mark(In[j + 2])
    BY ConsumeIn
  <2>2. Len(s) \in Nat /\ Len(s1) \in Nat
    OBVIOUS
  <2>3. QED
    BY <1>1, <1>2, <2>1, <2>2
<1>7. Lines(s1, t1, Tail(list), mcuOn, room)
  BY <1>1, <1>3, <1>5, <1>6, LeaveLines
<1>8. LastWanted(Tail(list), want)
  BY <1>1, <1>3, LeaveWanted
<1>9. \A p \in Ports : served'[p] = IF IsSwitch(list[1], p) THEN answered ELSE served[p]
  <2>1. Head(cmd_pending) = list[1]
    BY <1>1
  <2>2. served' = [p \in Ports |-> IF list[1].id = "enable" /\ list[1].port = p THEN answered
                                                                              ELSE served[p]]
    BY <2>1, Zenon DEF Leaves
  <2>3. QED
    BY <2>2, Zenon DEF IsSwitch
<1>10. Obeyed(Tail(list), mcuOn, want, served', t1)
  <2>1. answered /\ list[1].id = "enable" => s[1].life = "live" /\ s[1].kind = "ok"
    BY <1>1
  <2>2. list # <<>>
    BY <1>1
  <2>3. QED
    BY <1>3, <1>5, <1>6, <1>9, <2>1, <2>2, LeaveObeyed
<1>11. MaxFaults - faults' = room
  BY <1>1, <1>4
<1>12. QED
  BY <1>2, <1>4, <1>7, <1>8, <1>10, <1>11 DEF PowerInv

\* An answer that is taken for that to a switch is live: a former life's would
\* be taken for another command's.
LEMMA SwitchAnswered ==
  ASSUME LineInv, LineInv', StepInv, PowerInv, NEW k \in 1..Len(line), ReadAnswer(k),
         cmd_pending[1].id = "enable"
  PROVE  In[1].life = "live" /\ In[1].kind = "ok"
<1>1. /\ Reply(k) = In[1] /\ In[1] \in Halves /\ In[1].part = 1 /\ Len(In) >= 2
      /\ In[1].life # "stale"
  BY NoStaleAnswer
<1>2. In[1].kind = "ok"
  BY <1>1 DEF ReadAnswer
<1>3. Len(In) \in Nat
  BY PowerTypes DEF LineInv
<1>4. In[1].life # "former"
  <2> SUFFICES ASSUME In[1].life = "former" PROVE FALSE
    OBVIOUS
  <2>1. FormerAt(cmd_pending, 1 - 1)
    <3>1. 1 \in 1..Len(In)
      BY <1>1, <1>3
    <3>2. QED
      BY <1>1, <3>1 DEF PowerInv, Lines, FormerIn
  <2>2. PICK n \in 0..Len(cmd_pending) :
          1 - 1 < 2 * n /\ \A i \in 1..n : cmd_pending[i].id # "enable"
    BY <2>1 DEF FormerAt
  <2>3. 1 \in 1..n
    BY <2>2
  <2>4. QED
    BY <2>2, <2>3
<1>5. In[1].life \in Lives
  BY <1>1 DEF Halves
<1>6. QED
  BY <1>1, <1>2, <1>4, <1>5 DEF Lives

LEMMA ReadPower ==
  ASSUME LineInv, LineInv', StepInv, PowerInv, NEW k \in 1..Len(line),
         \/ ReadShort(k) \/ ReadUnsolicited(k) \/ ReadBad(k) \/ ReadRejected(k)
         \/ ReadAborted(k) \/ ReadOther(k) \/ ReadAnswer(k)
  PROVE  PowerInv'
<1>0. TypeOK /\ TypeOK'
  BY DEF LineInv
<1>1. toMcu \in Seq(SentFrames) /\ 0 \in {0, 1} /\ Shifted(toMcu, toMcu, 0)
  BY <1>0, PowerTypes DEF Shifted
<1>2. CASE ReadShort(k)
  <2>1. /\ In' = In /\ toMcu' = toMcu /\ faults' = faults /\ cmd_pending' = cmd_pending
        /\ mcuOn' = mcuOn /\ want' = want /\ served' = served
    BY <1>0, <1>2, ShortIn DEF ReadShort, Read, bounds
  <2>2. /\ Len(In') + (MaxFaults - faults') <= Len(In) + (MaxFaults - faults)
        /\ Sooner(In, In')
    <3>1. Len(In) \in Nat /\ MaxFaults - faults \in Nat
      BY <1>0, PowerTypes
    <3>2. QED
      BY <2>1, <3>1 DEF Sooner
  <2>3. Grows(cmd_pending, cmd_pending') /\ Len(cmd_pending') = Len(cmd_pending)
    <3>1. Len(cmd_pending) \in Nat
      BY <1>0, PowerTypes
    <3>2. QED
      BY <2>1, <3>1 DEF Grows, Alike
  <2>4. Sends(toMcu)
    BY <2>1 DEF Sends
  <2>5. QED
    BY <1>0, <1>1, <2>1, <2>2, <2>3, <2>4, SameListPower
<1>3. CASE ReadUnsolicited(k) \/ ReadRejected(k)
  <2>1. Consume(k, FALSE) /\ served' = served
    BY <1>3 DEF ReadUnsolicited, ReadRejected
  <2>2. mcuOn' = mcuOn /\ want' = want /\ faults' = faults
    BY <2>1 DEF Consume, Read, bounds
  <2>3. /\ Len(In) >= 2 /\ Len(In') = Len(In) - 2 /\ \A j \in 1..Len(In') : In'[j] = In[j + 2]
    BY <1>0, <2>1, ConsumeIn
  <2>4. /\ Len(In') + (MaxFaults - faults') <= Len(In) + (MaxFaults - faults)
    <3>1. Len(In) \in Nat /\ MaxFaults - faults \in Nat
      BY <1>0, PowerTypes
    <3>2. QED
      BY <2>2, <2>3, <3>1
  <2>5. Sooner(In, In')
    <3> SUFFICES ASSUME NEW j \in 1..Len(In')
                 PROVE  \E i \in 1..Len(In) : j <= i /\ In'[j] = In[i]
      BY DEF Sooner
    <3>1. j + 2 \in 1..Len(In) /\ j <= j + 2 /\ In'[j] = In[j + 2]
      BY <1>0, <2>3, PowerTypes
    <3>2. QED
      BY <3>1
  <2>6. Grows(cmd_pending, cmd_pending') /\ Len(cmd_pending') = Len(cmd_pending)
    <3>1. Len(cmd_pending) \in Nat
      BY <1>0, PowerTypes
    <3>2. CASE ReadUnsolicited(k)
      BY <3>1, <3>2 DEF ReadUnsolicited, Grows, Alike
    <3>3. CASE ReadRejected(k)
      BY <1>0, <3>1, <3>3, RejectedNumbers DEF Grows, Alike
    <3>4. QED
      BY <1>3, <3>2, <3>3
  <2>7. Sends(toMcu)
    BY <1>0, <2>1, ConsumeSends
  <2>8. QED
    BY <1>0, <1>1, <2>1, <2>2, <2>4, <2>5, <2>6, <2>7, SameListPower
<1>4. CASE ReadBad(k) \/ ReadAborted(k) \/ ReadOther(k)
  <2>1. Consume(k, TRUE) /\ cmd_pending # <<>> /\ Leaves(FALSE)
    BY <1>4 DEF ReadBad, ReadAborted, ReadOther
  <2>2. QED
    BY <1>0, <2>1, LeavePower
<1>5. CASE ReadAnswer(k)
  <2>1. Consume(k, TRUE) /\ cmd_pending # <<>> /\ Leaves(TRUE)
    BY <1>5 DEF ReadAnswer
  <2>2. cmd_pending[1].id = "enable" => In[1].life = "live" /\ In[1].kind = "ok"
    BY <1>5, SwitchAnswered
  <2>3. QED
    BY <1>0, <2>1, <2>2, LeavePower
<1>6. QED
  BY <1>2, <1>3, <1>4, <1>5

\* The list stays as it is.
LEMMA SameList ==
  ASSUME TypeOK, cmd_pending' = cmd_pending
  PROVE  Len(cmd_pending') = Len(cmd_pending) /\ Grows(cmd_pending, cmd_pending')
<1>1. Len(cmd_pending) \in Nat
  BY PowerTypes
<1>2. QED
  BY <1>1 DEF Grows, Alike

\* The pause after a rejection ends, or nothing happens.
LEMMA ClearPower ==
  ASSUME TypeOK, TypeOK', PowerInv, mcu_clear_timeout \/ UNCHANGED vars
  PROVE  PowerInv'
<1>1. /\ Sends(toMcu) /\ In' = In /\ cmd_pending' = cmd_pending /\ faults' = faults
      /\ mcuOn' = mcuOn /\ want' = want /\ served' = served
  <2>1. CASE mcu_clear_timeout
    BY <2>1, ClearOut DEF mcu_clear_timeout, bounds, history
  <2>2. CASE UNCHANGED vars
    BY <2>2 DEF vars, daemon, bounds, history, Sends, In
  <2>3. QED
    BY <2>1, <2>2
<1>2. toMcu \in Seq(SentFrames) /\ Len(toMcu) \in Nat /\ Len(In) \in Nat /\ MaxFaults - faults \in Nat
  BY PowerTypes
<1>3. /\ 0 \in {0, 1} /\ Shifted(toMcu, toMcu, 0)
      /\ Len(In') + (MaxFaults - faults') <= Len(In) + (MaxFaults - faults)
  BY <1>1, <1>2 DEF Shifted
<1>4. Sooner(In, In')
  BY <1>1, <1>2 DEF Sooner
<1>5. Len(cmd_pending') = Len(cmd_pending) /\ Grows(cmd_pending, cmd_pending')
  BY <1>1, SameList
<1>6. QED
  BY <1>1, <1>2, <1>3, <1>4, <1>5, SameListPower

\* A fault adds junk, or takes away.
LEMMA FaultPower ==
  ASSUME TypeOK, TypeOK', PowerInv, Noise \/ Damage \/ Lose
  PROVE  PowerInv'
<1>1. /\ cmd_pending' = cmd_pending /\ faults' = faults + 1
      /\ mcuOn' = mcuOn /\ want' = want /\ served' = served
  BY DEF Noise, Damage, Lose, Fault, daemon, history
<1>2. PICK n \in Nat, n1 \in Nat, f \in Nat, max \in Nat :
        n = Len(In) /\ n1 = Len(In') /\ f = faults /\ max = MaxFaults
  BY PowerTypes, NextPowerTypes
<1>3. /\ In \in Seq(Halves) /\ In' \in Seq(Halves) /\ toMcu \in Seq(SentFrames)
      /\ Len(toMcu) \in Nat /\ toMcu' \in Seq(SentFrames)
  BY PowerTypes, NextPowerTypes
<1>4. Len(cmd_pending') = Len(cmd_pending) /\ Grows(cmd_pending, cmd_pending')
  BY <1>1, SameList
<1>5. n1 <= n + 1 => Len(In') + (MaxFaults - faults') <= Len(In) + (MaxFaults - faults)
  <2>1. n1 <= n + 1 => n1 + (max - (f + 1)) <= n + (max - f)
    OBVIOUS
  <2>2. QED
    BY <1>1, <1>2, <2>1
<1>6. CASE toMcu' = toMcu /\ n1 <= n + 1 /\ Sooner(In, In')
  <2>1. 0 \in {0, 1} /\ Shifted(toMcu, toMcu, 0) /\ Sends(toMcu)
    BY <1>3, <1>6 DEF Shifted, Sends
  <2>2. Len(In') + (MaxFaults - faults') <= Len(In) + (MaxFaults - faults)
    BY <1>5, <1>6
  <2>3. QED
    BY <1>1, <1>3, <1>4, <1>6, <2>1, <2>2, SameListPower
<1>7. CASE Noise
  <2>1. In' = Append(In, Junk) /\ toMcu' = toMcu
    BY <1>7, NoiseIn
  <2>2. n1 = n + 1 /\ In'[n + 1] = Junk /\ \A j \in 1..n : In'[j] = In[j]
    BY <1>2, <1>3, <2>1, JunkType, AppendProperties
  <2>3. \A j \in 1..n1 : In'[j] = Junk \/ (j \in 1..n /\ j <= j /\ In'[j] = In[j])
    BY <2>2
  <2>4. Sooner(In, In')
    BY <1>2, <2>3 DEF Sooner
  <2>5. QED
    BY <1>6, <2>1, <2>2, <2>4
<1>8. CASE Damage
  <2>1. Len(In') = Len(In) /\ toMcu' = toMcu /\ \A i \in 1..Len(In) : In'[i] = In[i] \/ In'[i] = Junk
    BY <1>8, DamageIn
  <2>2. n1 = n /\ \A j \in 1..n1 : In'[j] = Junk \/ (j \in 1..n /\ j <= j /\ In'[j] = In[j])
    BY <1>2, <2>1
  <2>3. Sooner(In, In')
    BY <1>2, <2>2 DEF Sooner
  <2>4. QED
    BY <1>6, <2>1, <2>2, <2>3
<1>9. CASE Lose
  <2>1. CASE /\ toMcu' = toMcu /\ Len(In') = Len(In) - 1
             /\ \A i \in 1..Len(In') : In'[i] = In[i] \/ In'[i] = In[i + 1]
    <3>1. n1 + 1 = n /\ \A j \in 1..n1 : In'[j] = In[j] \/ In'[j] = In[j + 1]
      BY <1>2, <2>1
    <3>2. n1 <= n + 1 /\ \A j \in 1..n1 : j \in 1..n /\ j + 1 \in 1..n /\ j <= j /\ j <= j + 1
      BY <3>1
    <3>3. \A j \in 1..n1 : \E i \in 1..n : j <= i /\ In'[j] = In[i]
      BY <3>1, <3>2
    <3>4. Sooner(In, In')
      BY <1>2, <3>3 DEF Sooner
    <3>5. QED
      BY <1>6, <2>1, <3>2, <3>4
  <2>2. CASE toMcu # <<>> /\ toMcu' = Tail(toMcu) /\ In' = In
    <3>1. /\ Len(toMcu') = Len(toMcu) - 1 /\ \A j \in 1..Len(toMcu') : toMcu'[j] = toMcu[j + 1]
      BY <1>3, <2>2, HeadTailProperties
    <3>2. 1 \in {0, 1} /\ Shifted(toMcu, toMcu', 1) /\ Sends(toMcu')
      BY <1>3, <3>1 DEF Shifted, Sends
    <3>3. n1 = n /\ Sooner(In, In')
      BY <1>2, <2>2 DEF Sooner
    <3>4. Len(In') + (MaxFaults - faults') <= Len(In) + (MaxFaults - faults)
      BY <1>5, <3>3
    <3>5. QED
      BY <1>1, <1>3, <1>4, <3>2, <3>3, <3>4, SameListPower
  <2>3. QED
    BY <1>9, <2>1, <2>2, LoseIn
<1>10. QED
  BY <1>7, <1>8, <1>9

\* The MCU carries out a command and answers it.
LEMMA McuPower ==
  ASSUME TypeOK, TypeOK', PowerInv, McuStep
  PROVE  PowerInv'
<1>1. PICK s \in Seq(Halves), t \in Seq(SentFrames), list \in Seq(QueuedCommands), room \in Nat :
        s = In /\ t = toMcu /\ list = cmd_pending /\ room = MaxFaults - faults
  BY PowerTypes
<1>2. Lines(s, t, list, mcuOn, room) /\ LastWanted(list, want) /\ Obeyed(list, mcuOn, want, served, t)
  BY <1>1 DEF PowerInv
<1>3. PICK kind \in {"ok", "f0"} :
        /\ In' = In \o <<Half(toMcu[1], kind, 1), Half(toMcu[1], kind, 2)>>
        /\ mcuOn' = [p \in Ports |-> IF kind = "ok" /\ toMcu[1].id = "enable" /\ toMcu[1].port = p
                                     THEN toMcu[1].on ELSE mcuOn[p]]
  BY McuIn
<1>4. PICK a \in Halves, b \in Halves : a = Half(t[1], kind, 1) /\ b = Half(t[1], kind, 2)
  <2>1. Half(toMcu[1], kind, 1) \in Halves /\ Half(toMcu[1], kind, 2) \in Halves
    BY McuIn
  <2>2. QED
    BY <1>1, <2>1
<1>5. /\ a.part = 1 /\ a.kind = kind /\ a.id = t[1].id /\ a.port = t[1].port /\ a.life = t[1].life
      /\ b.part = 2 /\ b.kind = kind /\ b.id = t[1].id /\ b.port = t[1].port /\ b.life = t[1].life
  BY <1>4 DEF Half
<1>6. t # <<>> /\ toMcu' = Tail(t) /\ In' = s \o <<a, b>>
  BY <1>1, <1>3, <1>4, McuIn
<1>7. mcuOn' = Powered(t[1], kind, mcuOn)
  BY <1>1, <1>3 DEF Powered
<1>8. Lines(s \o <<a, b>>, Tail(t), list, Powered(t[1], kind, mcuOn), room)
  BY <1>2, <1>5, <1>6, McuLines
<1>9. Obeyed(list, Powered(t[1], kind, mcuOn), want, served, Tail(t))
  BY <1>2, <1>6, McuObeyed
<1>10. /\ cmd_pending' = list /\ want' = want /\ served' = served /\ MaxFaults - faults' = room
  BY <1>1 DEF McuStep, daemon, bounds, history
<1>11. QED
  BY <1>2, <1>6, <1>7, <1>8, <1>9, <1>10 DEF PowerInv

-----------------------------------------------------------------------------
(***************************************************************************)
(* The start of a life.                                                    *)
(***************************************************************************)

\* The frames of earlier lives are read before the first switch of the setup,
\* which is the eighth command at the earliest.
FewFormer == MaxRestarts = 0 \/ MaxFaults + 2 * MaxRestarts <= 14

AllFormer(s) == \A i \in 1..Len(s) : s[i].life = "former"
RoomForFormer(list) == \A a \in Nat : a < 14 => FormerAt(list, a)

LEMMA FreshLines ==
  ASSUME NEW s \in Seq(Halves), NEW old \in Seq(SentFrames), NEW list \in Seq(QueuedCommands),
         list # <<>>, NEW t, Sent(old, t, list), NEW on, NEW room \in Nat,
         AllFormer(s), AllFormer(old), RoomForFormer(list), Len(s) <= 14,
         Len(old) > 0 => Len(s) + room + 2 * Len(old) <= 14
  PROVE  Lines(s, t, list, on, room)
<1>1. PICK n \in Nat, m \in Nat :
        n = Len(s) /\ m = Len(old) /\ n <= 14 /\ (m > 0 => n + room + 2 * m <= 14)
  OBVIOUS
<1>2. Len(t) \in Nat /\ \A j \in 1..Len(t) :
        \/ j \in 1..m /\ t[j].life = "former"
        \/ j = m + 1 /\ Len(t) = j /\ t[j].life = "live" /\ Alike(t[j], list[1])
  <2>1. Len(t) \in Nat
    BY SentFacts
  <2>2. \A j \in 1..Len(t) :
          \/ j \in 1..Len(old) /\ t[j] = old[j]
          \/ /\ j = Len(old) + 1 /\ Len(t) = j /\ list # <<>> /\ t[j] = Frame(list[1])
             /\ t[j].life = "live" /\ Alike(t[j], list[1])
    BY SentFacts
  <2>3. QED
    BY <1>1, <2>1, <2>2 DEF AllFormer
<1>3. FormerIn(s, list)
  <2> SUFFICES ASSUME NEW j \in 1..n PROVE FormerAt(list, j - 1)
    BY <1>1 DEF FormerIn
  <2>1. j - 1 \in Nat /\ j - 1 < 14
    BY <1>1
  <2>2. QED
    BY <2>1 DEF RoomForFormer
<1>4. FormerOut(t, Len(s) + room, list)
  <2> SUFFICES ASSUME NEW j \in 1..Len(t), t[j].life = "former"
               PROVE  FormerAt(list, n + room + 2 * (j - 1))
    BY <1>1 DEF FormerOut
  <2>1. j \in 1..m
    BY <1>2
  <2>2. n + room + 2 * (j - 1) \in Nat /\ n + room + 2 * (j - 1) < 14
    BY <1>1, <2>1
  <2>3. QED
    BY <2>2 DEF RoomForFormer
<1>5. LiveIn(s, list) /\ Done(s, list, on)
  BY DEF LiveIn, Done, AllFormer
<1>6. LiveOut(t, list)
  BY <1>2 DEF LiveOut
<1>7. LiveLast(s, t)
  <2>1. ASSUME NEW i \in 1..Len(t), NEW j \in 1..Len(t), i < j, t[i].life = "live"
        PROVE  t[j].life = "live"
    <3>1. i = Len(t)
      BY <1>2, <2>1
    <3>2. QED
      BY <1>2, <2>1, <3>1
  <2>2. \A i \in 1..Len(s) : s[i].life # "live"
    BY DEF AllFormer
  <2>3. QED
    BY <2>1, <2>2 DEF LiveLast
<1>8. QED
  BY <1>3, <1>4, <1>5, <1>6, <1>7 DEF Lines

LEMMA InitPower == Init => PowerInv
<1> SUFFICES ASSUME Init PROVE PowerInv
  OBVIOUS
<1>1. /\ enable \in [Ports -> BOOLEAN] /\ cmd_pending = Stamped(poe_initial_setup(enable), 0)
      /\ toMcu = <<Frame(Head(cmd_pending))>> /\ rx = <<>> /\ line = <<>> /\ want = enable
      /\ faults = 0
  BY DEF Init, config_load
<1>2. PICK list \in Seq(QueuedCommands) :
        list = cmd_pending /\ list # <<>> /\ RoomForFormer(list) /\ LastWanted(list, enable)
  BY <1>1, SetupList DEF RoomForFormer
<1>3. PICK s \in Seq(Halves), old \in Seq(SentFrames), room \in Nat :
        /\ s = In /\ Len(s) = 0 /\ old = <<>> /\ Len(old) = 0 /\ room = MaxFaults - faults
  <2>1. In = <<>> \o <<>> /\ <<>> \in Seq(Halves) /\ <<>> \in Seq(SentFrames) /\ Len(<<>>) = 0
    BY <1>1 DEF In
  <2>2. <<>> \o <<>> = <<>>
    BY <2>1, ConcatEmptySeq
  <2>3. MaxFaults - faults \in Nat
    BY <1>1, PoeSizesAssumption
  <2>4. QED
    BY <2>1, <2>2, <2>3
<1>4. Sent(old, toMcu, list)
  BY <1>1, <1>2, <1>3 DEF Sent
<1>5. AllFormer(s) /\ AllFormer(old) /\ Len(s) <= 14
      /\ (Len(old) > 0 => Len(s) + room + 2 * Len(old) <= 14)
  BY <1>3 DEF AllFormer
<1>6. Lines(s, toMcu, list, mcuOn, room)
  BY <1>2, <1>4, <1>5, FreshLines
<1>7. Obeyed(list, mcuOn, want, served, toMcu)
  <2>1. \A p \in Ports : ~served[p]
    BY Zenon DEF Init
  <2>2. QED
    BY <2>1, Zenon DEF Obeyed
<1>8. QED
  BY <1>1, <1>2, <1>3, <1>6, <1>7 DEF PowerInv

LEMMA RestartPower ==
  ASSUME LineInv, LineInv', StepInv', FewFormer, Restart
  PROVE  PowerInv'
<1>0. TypeOK /\ TypeOK'
  BY DEF LineInv
<1>1. /\ In' = line' /\ \A i \in 1..Len(In') : In'[i].life = "former"
      /\ toMcu' = Append(Former(toMcu), Frame(cmd_pending'[1]))
      /\ cmd_pending' = Stamped(poe_initial_setup(enable'), 0)
      /\ enable' \in [Ports -> BOOLEAN] /\ want' = enable'
  BY <1>0, RestartIn
<1>2. PICK list \in Seq(QueuedCommands) :
        list = cmd_pending' /\ list # <<>> /\ RoomForFormer(list) /\ LastWanted(list, enable')
  BY <1>1, SetupList DEF RoomForFormer
<1>3. PICK s \in Seq(Halves), room \in Nat : s = In' /\ room = MaxFaults - faults'
  BY <1>0, NextPowerTypes
<1>4. PICK old \in Seq(SentFrames) : old = Former(toMcu) /\ Len(old) = Len(toMcu) /\ AllFormer(old)
  <2>1. toMcu \in Seq(SentFrames) /\ Len(toMcu) \in Nat
    BY <1>0, PowerTypes
  <2>2. Former(toMcu) \in Seq(SentFrames) /\ Len(Former(toMcu)) = Len(toMcu)
    BY <2>1, FormerType
  <2>3. ASSUME NEW i \in 1..Len(toMcu) PROVE Former(toMcu)[i].life = "former"
    <3>1. Former(toMcu)[i] = [toMcu[i] EXCEPT !.life = "former"] /\ toMcu[i] \in SentFrames
      BY <2>1 DEF Former
    <3>2. QED
      BY <3>1 DEF SentFrames
  <2>4. AllFormer(Former(toMcu))
    BY <2>2, <2>3 DEF AllFormer
  <2>5. QED
    BY <2>2, <2>4
<1>5. Sent(old, toMcu', list) /\ AllFormer(s)
  BY <1>1, <1>2, <1>3, <1>4 DEF AllFormer, Sent
<1>6. Len(s) + room + 2 * Len(old) <= 14 /\ Len(s) <= 14
  <2>1. PICK n \in Nat, m \in Nat : n = Len(s) /\ m = Len(old)
    OBVIOUS
  <2>2. noise' = 2 * m + n
    BY <1>0, <1>1, <1>3, <1>4, <2>1, RestartLines
  <2>3. noise' <= faults' + 2 * restarts'
    BY DEF StepInv
  <2>4. restarts < MaxRestarts /\ restarts' = restarts + 1
    BY DEF Restart
  <2>5. PICK f \in Nat, r \in Nat, max \in Nat, rmax \in Nat :
          f = faults' /\ r = restarts /\ max = MaxFaults /\ rmax = MaxRestarts /\ room = max - f
    <3>1. restarts \in Nat /\ faults' \in Nat
      <4>1. faults' = faults /\ restarts \in 0..MaxRestarts /\ faults \in Nat
        BY <1>0, PowerTypes DEF Restart, TypeOK
      <4>2. QED
        BY <4>1, PoeSizesAssumption
    <3>2. QED
      BY <1>3, <3>1, PoeSizesAssumption
  <2>6. max + 2 * rmax <= 14 /\ r + 1 <= rmax
    BY <2>4, <2>5 DEF FewFormer
  <2>7. 2 * m + n <= f + 2 * (r + 1)
    BY <2>2, <2>3, <2>4, <2>5
  <2>8. n + room + 2 * m <= 14 /\ n <= 14
    <3>1. room + f = max
      <4>1. room = max - f
        BY <2>5
      <4>2. QED
        BY <4>1
    <3>2. n + room + 2 * m <= max + 2 * (r + 1)
      BY <2>7, <3>1
    <3>3. max + 2 * (r + 1) <= 14
      BY <2>6
    <3>4. QED
      BY <3>2, <3>3
  <2>9. QED
    BY <2>1, <2>8
<1>7. Lines(s, toMcu', list, mcuOn', room)
  <2>1. Len(old) > 0 => Len(s) + room + 2 * Len(old) <= 14
    BY <1>6
  <2>2. QED
    BY <1>2, <1>4, <1>5, <1>6, <2>1, FreshLines
<1>8. Obeyed(list, mcuOn', want', served', toMcu')
  <2>1. \A p \in Ports : ~served'[p]
    BY Zenon DEF Restart
  <2>2. QED
    BY <2>1, Zenon DEF Obeyed
<1>9. QED
  BY <1>1, <1>2, <1>3, <1>7, <1>8 DEF PowerInv

-----------------------------------------------------------------------------
LEMMA NextPower ==
  ASSUME LineInv, LineInv', StepInv, StepInv', PowerInv, FewFormer, [Next]_vars
  PROVE  PowerInv'
<1>0. TypeOK /\ TypeOK'
  BY DEF LineInv
<1>1. CASE state_timeout_cb \/ ubus_poe_manage_cb \/ ubus_poe_sendframe_cb \/ ubus_poe_reload_cb
  <2>1. PICK batch \in Seq(Commands) : Len(batch) > 0 /\ OnceEach(batch) /\ poe_cmd_queue(batch)
    BY <1>0, <1>1, CallSwitches
  <2>2. QED
    BY <1>0, <2>1, QueuePower
<1>2. CASE mcu_clear_timeout \/ UNCHANGED vars
  BY <1>0, <1>2, ClearPower
<1>3. CASE ReadStep
  BY <1>3, ReadPower DEF ReadStep
<1>4. CASE McuStep
  BY <1>0, <1>4, McuPower
<1>5. CASE Noise \/ Damage \/ Lose
  BY <1>0, <1>5, FaultPower
<1>6. CASE Restart
  BY <1>6, RestartPower
<1>7. QED
  BY <1>1, <1>2, <1>3, <1>4, <1>5, <1>6 DEF Next

\* A port is powered as the last command for it says, once no command for it is
\* left in cmd_pending and poe_reply_consume has found an answer to the last
\* one: for every number of ports, calls, polls, retries and rejections, with
\* noise, damaged and lost frames.  Two things are asked of the line.  What
\* comes in for nothing must be less than two halves for each sequence number,
\* as for RightAnswer; and after a restart, which numbers the commands from one
\* again, what earlier lives have left must be read before the first "enable"
\* of poe_initial_setup is sent, behind at least seven other commands.
THEOREM PowerAsWanted == ASSUME FewStrays, FewFormer PROVE Spec => []ManageObeyed
<1> DEFINE Inv == LineInv /\ StepInv /\ PowerInv
<1>1. Init => Inv
  BY InitAccount, InitInStep, InitPower
<1>2. Inv /\ [Next]_vars => Inv'
  <2> SUFFICES ASSUME LineInv, StepInv, PowerInv, [Next]_vars PROVE Inv'
    OBVIOUS
  <2>1. LineInv' /\ StepInv'
    BY NextInStep
  <2>2. PowerInv'
    BY <2>1, NextPower
  <2>3. QED
    BY <2>1, <2>2
<1>3. Inv => ManageObeyed
  <2> SUFFICES ASSUME PowerInv, NEW p \in Ports, served[p], ~SwitchListed(p)
               PROVE  mcuOn[p] = want[p]
    BY Zenon DEF ManageObeyed
  <2>1. ~Listed(cmd_pending, p)
    BY Zenon DEF Listed, IsSwitch, SwitchListed
  <2>2. QED
    BY <2>1, Zenon DEF PowerInv, Obeyed
<1>4. QED
  BY <1>1, <1>2, <1>3, PTL DEF Spec
=============================================================================
