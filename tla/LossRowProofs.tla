---------------------------- MODULE LossRowProofs ----------------------------
(***************************************************************************)
(* For counters of any width, wherever they stand, any number of packets,  *)
(* of frames of other stations, of resets and of readings that fail: what  *)
(* the row of losses of LossRow is worth.                                  *)
(***************************************************************************)
EXTENDS LossRow, TLAPS

\* The order of the readings; the test is at 5, the row at 11.
Stage ==
  IF moment = "before" THEN
    IF pc = "fpga" THEN 0 ELSE IF pc = "rx" THEN 1 ELSE IF pc = "tx" THEN 2 ELSE 3
  ELSE IF moment = "start" THEN IF pc = "tx" THEN 4 ELSE 5
  ELSE IF moment = "end" THEN 6
  ELSE IF pc = "rx" THEN 7 ELSE IF pc = "tx" THEN 8 ELSE IF pc = "snmp" THEN 9
  ELSE IF pc = "fpga" THEN 10 ELSE 11

Places ==
  \/ moment = "before" /\ pc \in {"fpga", "rx", "tx", "snmp"}
  \/ moment = "start" /\ pc \in {"tx", "test"}
  \/ moment = "end" /\ pc = "tx"
  \/ moment = "after" /\ pc \in {"rx", "tx", "snmp", "fpga", "row"}

\* Frames of the program's own, the requests for status and their answers.
Own == IF Stage = 0 THEN 0 ELSE IF Stage = 11 THEN 2 ELSE 1
HostSide == Host \cup {"udpOut"}
\* Where a counter of the host stood at first.
Base(k) == count[k] - Own - passed[k]

\* What passed the counters of the host, none of which wraps around.
PassedTrue ==
  /\ sent <= Packets /\ others <= Background /\ lost <= sent
  /\ Stage < 5 => sent = 0
  /\ passed["hostTx"] = sent /\ passed["udpOut"] = sent
  /\ passed["hostRx"] = sent - lost + others
  /\ \A k \in HostSide : Base(k) \in HostCounts \cup {0}

\* A reading shows the counter, or 0 if the file could not be read.
Good(m, k) ==
  \/ snap[m][k] = Base(k) + 1 + then[m][k]
  \/ k \in Host /\ snap[m][k] = 0 /\ unread[m] > 0

\* The readings so far of the host.
HostReadings ==
  /\ Stage >= 2 => Good("before", "hostRx") /\ then["before"]["hostRx"] <= others
  /\ Stage >= 3 => Good("before", "hostTx") /\ then["before"]["hostTx"] = 0
  /\ Stage >= 4 => Good("before", "udpOut") /\ then["before"]["udpOut"] = 0
  /\ Stage >= 5 => Good("start", "hostTx") /\ then["start"]["hostTx"] = 0
  /\ Stage >= 7 => Good("end", "hostTx") /\ then["end"]["hostTx"] = sent
  /\ Stage >= 8 => /\ Good("after", "hostRx")
                   /\ sent - lost + then["before"]["hostRx"] <= then["after"]["hostRx"]
                   /\ then["after"]["hostRx"] <= sent - lost + others
  /\ Stage >= 9 => Good("after", "hostTx") /\ then["after"]["hostTx"] = sent
  /\ Stage >= 10 => Good("after", "udpOut") /\ then["after"]["udpOut"] = sent

\* A later value of a counter of the FPGA is at most what passed since the first reading
\* allows, and is that if the counter was neither reset nor wrapped around.
Undisturbed == resets = 0 /\ ~wrapped
Allowed(k, now) == snap["before"][k] + 1 + now - then["before"][k]
Bounded(k, value, now) ==
  /\ value <= Allowed(k, now)
  /\ Undisturbed => value = Allowed(k, now)
\* The request taken off a counter that has just wrapped around.
Underflow == Uint64 - 1
Decoded(m) ==
  /\ snap[m]["fpgaRx"] <= Uint40 - 2 \/ snap[m]["fpgaRx"] = Underflow
  /\ snap[m]["fpgaTx"] <= Uint40 - 1

\* The readings so far of the FPGA.
FpgaReadings ==
  /\ Stage >= 1 => /\ Decoded("before")
                   /\ \A k \in Fpga : then["before"][k] <= passed[k]
  /\ Stage \in 1..10 => \A k \in Fpga : Bounded(k, count[k], passed[k])
  /\ Stage = 11 =>
       /\ Decoded("after")
       /\ \A k \in Fpga :
            /\ then["before"][k] <= then["after"][k]
            /\ \/ Bounded(k, snap["after"][k], then["after"][k])
               \/ k = "fpgaRx" /\ snap["after"][k] = Underflow /\ ~Undisturbed

RowInv ==
  TypeOK /\ (pc # "quit" => Places /\ PassedTrue /\ HostReadings /\ FpgaReadings)
-----------------------------------------------------------------------------
(* Arithmetic of a given width.                                            *)

\* What the assumptions on the constants say of them.
LEMMA Widths ==
  /\ Uint64 \in Nat /\ Uint40 \in Nat /\ Uint40 >= 1 /\ 4 * Uint40 <= Uint64
  /\ Packets \in Nat /\ Background \in Nat /\ Resets \in Nat /\ Unreadables \in Nat
  /\ Uint64 \div 2 \in Nat /\ Packets + Background < Uint64 \div 2
  /\ \A n \in HostCounts \cup {0} : n \in Nat /\ n + 2 + Packets + Background < Uint64
<1>1. /\ Uint64 \in Nat /\ Uint40 \in Nat /\ Uint40 >= 1 /\ 4 * Uint40 <= Uint64
      /\ Packets \in Nat /\ Background \in Nat /\ Resets \in Nat /\ Unreadables \in Nat
  BY WidthAssumption
<1>2. Uint64 \div 2 \in Nat
  BY <1>1
<1> QED BY <1>1, <1>2, HostAssumption

\* The remainder of what is in range, one too large, or too small.
LEMMA Remainders ==
  ASSUME NEW w \in Nat \ {0}
  PROVE  /\ \A x \in 0..(w - 1) : x % w = x
         /\ w % w = 0
         /\ \A x \in (-w)..(-1) : x % w = x + w
<1>1. \A x \in 0..(w - 1) : x % w = x
  OBVIOUS
<1>2. w % w = 0
  OBVIOUS
<1>3. \A x \in (-w)..(-1) : x % w = x + w
  OBVIOUS
<1> QED BY <1>1, <1>2, <1>3

\* The differences of uint64_t.
LEMMA Differences ==
  ASSUME NEW a \in 0..(Uint64 - 1), NEW b \in 0..(Uint64 - 1)
  PROVE  /\ Minus(a, b) = IF a >= b THEN a - b ELSE a - b + Uint64
         /\ Minus(a, b) \in 0..(Uint64 - 1)
         /\ DeltaU64(a, b) = IF a >= b THEN a - b ELSE 0
<1>1. Uint64 \in Nat \ {0}
  BY Widths
<1>2. CASE a >= b
  <2>1. a - b \in 0..(Uint64 - 1)
    BY <1>1, <1>2
  <2>2. Minus(a, b) = a - b
    BY <1>1, <2>1, Remainders DEF Minus
  <2> QED BY <1>2, <2>1, <2>2 DEF DeltaU64
<1>3. CASE ~(a >= b)
  <2>1. a - b \in (-Uint64)..(-1)
    BY <1>1, <1>3
  <2>2. Minus(a, b) = a - b + Uint64
    BY <1>1, <2>1, Remainders DEF Minus
  <2>3. a - b + Uint64 \in 0..(Uint64 - 1)
    BY <1>1, <2>1
  <2> QED BY <1>3, <2>2, <2>3 DEF DeltaU64
<1> QED BY <1>2, <1>3

\* Reinterpreting a width's upper half as negative gives an integer; the lower stays.
LEMMA Signs ==
  ASSUME NEW a \in 0..(Uint64 - 1)
  PROVE  /\ Signed(a) \in Int
         /\ a < Uint64 \div 2 => Signed(a) = a
  BY Widths DEF Signed

\* A counter that counts a frame.
LEMMA Counting ==
  ASSUME NEW c \in [Counters -> 0..(Uint64 - 1)], \A k \in Fpga : c[k] < Uint40,
         NEW names, NEW k \in Counters
  PROVE  /\ Plus(c, names)[k] =
              IF k \in names THEN IF c[k] + 1 = Width(k) THEN 0 ELSE c[k] + 1 ELSE c[k]
         /\ Plus(c, names)[k] \in 0..(Width(k) - 1)
         /\ Width(k) \in Nat /\ Width(k) <= Uint64 /\ c[k] \in 0..(Width(k) - 1)
         /\ Width(k) = IF k \in Fpga THEN Uint40 ELSE Uint64
<1>1. /\ Width(k) \in Nat \ {0} /\ Width(k) <= Uint64 /\ c[k] \in 0..(Width(k) - 1)
      /\ Width(k) = IF k \in Fpga THEN Uint40 ELSE Uint64
  BY Widths DEF Width
<1>2. Plus(c, names)[k] = IF k \in names THEN (c[k] + 1) % Width(k) ELSE c[k]
  BY DEF Plus
<1>3. CASE c[k] + 1 = Width(k)
  <2>1. (c[k] + 1) % Width(k) = 0
    BY <1>1, <1>3, Remainders
  <2> QED BY <1>1, <1>2, <1>3, <2>1
<1>4. CASE c[k] + 1 # Width(k)
  <2>1. c[k] + 1 \in 0..(Width(k) - 1)
    BY <1>1, <1>4
  <2>2. (c[k] + 1) % Width(k) = c[k] + 1
    BY <1>1, <2>1, Remainders
  <2> QED BY <1>1, <1>2, <1>4, <2>1, <2>2
<1> QED BY <1>3, <1>4

\* Counters stay in their widths.
LEMMA CountsKept ==
  ASSUME NEW c \in [Counters -> 0..(Uint64 - 1)], \A k \in Fpga : c[k] < Uint40, NEW names
  PROVE  /\ Plus(c, names) \in [Counters -> 0..(Uint64 - 1)]
         /\ \A k \in Fpga : Plus(c, names)[k] < Uint40
<1>1. \A k \in Counters : /\ Plus(c, names)[k] \in 0..(Uint64 - 1)
                          /\ k \in Fpga => Plus(c, names)[k] < Uint40
  <2> TAKE k \in Counters
  <2>1. /\ Plus(c, names)[k] \in 0..(Width(k) - 1)
        /\ Width(k) \in Nat /\ Width(k) <= Uint64
        /\ Width(k) = IF k \in Fpga THEN Uint40 ELSE Uint64
    BY Counting
  <2> QED BY <2>1, Widths
<1>2. Plus(c, names) = [k \in Counters |-> Plus(c, names)[k]]
  BY DEF Plus
<1>3. Fpga \subseteq Counters
  BY DEF Counters
<1> QED BY <1>1, <1>2, <1>3

-----------------------------------------------------------------------------
(* Readings.                                                               *)

\* What TypeOK says, variable by variable.
LEMMA Types ==
  ASSUME TypeOK
  PROVE  /\ moment \in Moments /\ loopback \in BOOLEAN /\ wrapped \in BOOLEAN
         /\ count \in [Counters -> 0..(Uint64 - 1)] /\ (\A k \in Fpga : count[k] < Uint40)
         /\ \A k \in Counters : count[k] \in 0..(Uint64 - 1)
         /\ \A k \in Counters : passed[k] \in Nat
         /\ \A m \in Moments, k \in Counters :
              snap[m][k] \in 0..(Uint64 - 1) /\ then[m][k] \in Nat
         /\ \A m \in Moments : unread[m] \in 0..Unreadables /\ unread[m] \in Nat
         /\ sent \in Nat /\ lost \in Nat /\ others \in Nat /\ resets \in Nat
  BY Widths DEF TypeOK

\* Which counters and snapshots there are.
LEMMA Names ==
  /\ Counters = {"hostRx", "hostTx", "fpgaRx", "fpgaTx", "udpOut"}
  /\ Host = {"hostRx", "hostTx"} /\ Fpga = {"fpgaRx", "fpgaTx"}
  /\ HostSide = {"hostRx", "hostTx", "udpOut"}
  /\ Moments = {"before", "start", "end", "after"}
  BY DEF Counters, Host, Fpga, HostSide, Moments

\* One value of a snapshot is replaced.
LEMMA Storing ==
  ASSUME TypeOK, NEW j \in Counters, NEW v \in 0..(Uint64 - 1), Stored(j, v)
  PROVE  /\ snap' \in [Moments -> [Counters -> 0..(Uint64 - 1)]]
         /\ \A m \in Moments, k \in Counters :
              snap'[m][k] = IF m = moment /\ k = j THEN v ELSE snap[m][k]
  BY DEF TypeOK, Stored

\* What has passed is noted for the counters that are read.
LEMMA Noting ==
  ASSUME TypeOK, NEW ks, Noted(ks)
  PROVE  /\ then' \in [Moments -> [Counters -> Nat]]
         /\ \A m \in Moments, k \in Counters :
              then'[m][k] = IF m = moment /\ k \in ks THEN passed[k] ELSE then[m][k]
<1> DEFINE row == [k \in Counters |-> IF k \in ks THEN passed[k] ELSE then[moment][k]]
<1>1. then \in [Moments -> [Counters -> Nat]] /\ passed \in [Counters -> Nat] /\ moment \in Moments
  BY DEF TypeOK
<1>2. then' = [then EXCEPT ![moment] = row]
  BY DEF Noted
<1>3. row \in [Counters -> Nat] /\ \A k \in Counters :
        row[k] = IF k \in ks THEN passed[k] ELSE then[moment][k]
  BY <1>1
<1> HIDE DEF row
<1>4. then' \in [Moments -> [Counters -> Nat]]
  BY <1>1, <1>2, <1>3
<1>5. \A m \in Moments, k \in Counters :
        then'[m][k] = IF m = moment /\ k \in ks THEN passed[k] ELSE then[m][k]
  BY <1>1, <1>2, <1>3
<1> QED BY <1>4, <1>5

\* A counter of the host is read: it, or 0 because its file cannot be.
HostReading(k) ==
  /\ \/ Stored(k, count[k]) /\ UNCHANGED unread
     \/ /\ k \in Host /\ Stored(k, 0)
        /\ unread' = [unread EXCEPT ![moment] = @ + 1]
  /\ unread' \in [Moments -> 0..Unreadables]
  /\ Noted({k})
  /\ UNCHANGED <<loopback, count, passed, sent, lost, others, resets, wrapped>>

\* The readings of the host are such.
LEMMA FileReadings ==
  ASSUME TypeOK, NEW k \in Host, ReadFile(k), Noted({k}),
         UNCHANGED <<loopback, count, passed, sent, lost, others, resets, wrapped>>
  PROVE  HostReading(k)
<1>1. CASE Stored(k, count[k]) /\ UNCHANGED unread
  BY <1>1 DEF HostReading, TypeOK
<1>2. CASE /\ unread["before"] + unread["start"] + unread["end"] + unread["after"] < Unreadables
           /\ Stored(k, 0)
           /\ unread' = [unread EXCEPT ![moment] = @ + 1]
  <2>1. /\ unread \in [Moments -> 0..Unreadables] /\ moment \in Moments
        /\ \A m \in Moments : unread[m] \in Nat /\ unread[m] < Unreadables
    BY <1>2, Names, Widths DEF TypeOK
  <2>2. unread[moment] + 1 \in 0..Unreadables
    BY <2>1, Widths
  <2>3. unread' \in [Moments -> 0..Unreadables]
    BY <1>2, <2>1, <2>2
  <2> QED BY <1>2, <2>3 DEF HostReading
<1> QED BY <1>1, <1>2 DEF ReadFile

\* A reading of the host replaces one value, by a good one, and leaves the others good.
LEMMA ReadingIsGood ==
  ASSUME TypeOK, PassedTrue, NEW j \in HostSide, HostReading(j), Own = 1, Own' = 1
  PROVE  /\ \A m \in Moments, k \in HostSide :
              IF m = moment /\ k = j
                THEN Good(m, k)' /\ then'[m][k] = passed[k]
                ELSE (Good(m, k) => Good(m, k)') /\ then'[m][k] = then[m][k]
         /\ \A m \in Moments, k \in Fpga :
              snap'[m][k] = snap[m][k] /\ then'[m][k] = then[m][k]
         /\ snap' \in [Moments -> [Counters -> 0..(Uint64 - 1)]]
         /\ then' \in [Moments -> [Counters -> Nat]]
<1>y. /\ \A k \in Counters : count[k] \in 0..(Uint64 - 1) /\ passed[k] \in Nat
      /\ \A m \in Moments : unread[m] \in Nat
      /\ \A m \in Moments, k \in Counters : snap[m][k] \in Int /\ then[m][k] \in Int
      /\ moment \in Moments /\ unread \in [Moments -> 0..Unreadables]
  BY Types, Widths DEF TypeOK
<1>c. HostSide \subseteq Counters /\ Fpga \subseteq Counters /\ j \in Counters /\ j \notin Fpga
      /\ 0 \in 0..(Uint64 - 1)
  BY Names, Widths
<1>b. \A k \in HostSide : Base(k)' = Base(k) /\ Base(k) = count[k] - 1 - passed[k]
  BY DEF Base, HostReading
<1>1. /\ then' \in [Moments -> [Counters -> Nat]]
      /\ \A m \in Moments, k \in Counters :
           then'[m][k] = IF m = moment /\ k \in {j} THEN passed[k] ELSE then[m][k]
  BY Noting DEF HostReading
<1>2. CASE Stored(j, count[j]) /\ UNCHANGED unread
  <2>1. /\ snap' \in [Moments -> [Counters -> 0..(Uint64 - 1)]]
        /\ \A m \in Moments, k \in Counters :
             snap'[m][k] = IF m = moment /\ k = j THEN count[j] ELSE snap[m][k]
    BY <1>2, <1>c, <1>y, Storing
  <2>2. \A m \in Moments, k \in HostSide :
          IF m = moment /\ k = j
            THEN Good(m, k)' /\ then'[m][k] = passed[k]
            ELSE (Good(m, k) => Good(m, k)') /\ then'[m][k] = then[m][k]
    <3> TAKE m \in Moments, k \in HostSide
    <3>1. CASE m = moment /\ k = j
      <4>1. snap'[m][k] = count[k] /\ then'[m][k] = passed[k]
        BY <1>1, <1>c, <2>1, <3>1
      <4>2. snap'[m][k] = Base(k)' + 1 + then'[m][k]
        BY <1>b, <1>c, <1>y, <4>1
      <4> QED BY <3>1, <4>1, <4>2 DEF Good
    <3>2. CASE ~(m = moment /\ k = j)
      <4>1. snap'[m][k] = snap[m][k] /\ then'[m][k] = then[m][k] /\ unread' = unread
        BY <1>1, <1>2, <1>c, <2>1, <3>2
      <4> QED BY <1>b, <3>2, <4>1 DEF Good
    <3> QED BY <3>1, <3>2
  <2> QED BY <1>1, <1>c, <2>1, <2>2
<1>3. CASE /\ j \in Host /\ Stored(j, 0)
           /\ unread' = [unread EXCEPT ![moment] = @ + 1]
  <2>1. /\ snap' \in [Moments -> [Counters -> 0..(Uint64 - 1)]]
        /\ \A m \in Moments, k \in Counters :
             snap'[m][k] = IF m = moment /\ k = j THEN 0 ELSE snap[m][k]
    BY <1>3, <1>c, <1>y, Storing
  <2>u. /\ unread'[moment] > 0
        /\ \A m \in Moments : unread[m] > 0 => unread'[m] > 0
    BY <1>3, <1>y
  <2>2. \A m \in Moments, k \in HostSide :
          IF m = moment /\ k = j
            THEN Good(m, k)' /\ then'[m][k] = passed[k]
            ELSE (Good(m, k) => Good(m, k)') /\ then'[m][k] = then[m][k]
    <3> TAKE m \in Moments, k \in HostSide
    <3>1. CASE m = moment /\ k = j
      <4>1. snap'[m][k] = 0 /\ then'[m][k] = passed[k]
        BY <1>1, <1>c, <2>1, <3>1
      <4> QED BY <1>3, <2>u, <3>1, <4>1 DEF Good
    <3>2. CASE ~(m = moment /\ k = j)
      <4>1. snap'[m][k] = snap[m][k] /\ then'[m][k] = then[m][k]
        BY <1>1, <1>c, <2>1, <3>2
      <4> QED BY <1>b, <2>u, <3>2, <4>1 DEF Good
    <3> QED BY <3>1, <3>2
  <2> QED BY <1>1, <1>c, <2>1, <2>2
<1> QED BY <1>2, <1>3 DEF HostReading

-----------------------------------------------------------------------------
(* Every step.                                                             *)

\* The readings of the host in their order.
HostMove(j) ==
  \/ Stage = 1 /\ moment = "before" /\ j = "hostRx" /\ Stage' = 2
  \/ Stage = 2 /\ moment = "before" /\ j = "hostTx" /\ Stage' = 3
  \/ Stage = 3 /\ moment = "before" /\ j = "udpOut" /\ Stage' = 4
  \/ Stage = 4 /\ moment = "start" /\ j = "hostTx" /\ Stage' = 5
  \/ Stage = 6 /\ moment = "end" /\ j = "hostTx" /\ Stage' = 7
  \/ Stage = 7 /\ moment = "after" /\ j = "hostRx" /\ Stage' = 8
  \/ Stage = 8 /\ moment = "after" /\ j = "hostTx" /\ Stage' = 9
  \/ Stage = 9 /\ moment = "after" /\ j = "udpOut" /\ Stage' = 10

\* Such a reading keeps all that is known.
LEMMA HostReadingKeeps ==
  ASSUME TypeOK, PassedTrue, HostReadings, FpgaReadings,
         NEW j \in HostSide, HostReading(j), HostMove(j)
  PROVE  PassedTrue' /\ HostReadings' /\ FpgaReadings'
<1>o. Own = 1 /\ Own' = 1
  BY DEF HostMove, Own
<1>c. /\ UNCHANGED <<count, passed, sent, lost, others, resets, wrapped>>
      /\ {"hostRx", "hostTx", "udpOut"} = HostSide /\ {"fpgaRx", "fpgaTx"} = Fpga
      /\ {"before", "start", "end", "after"} = Moments
  BY Names DEF HostReading
<1>g. /\ \A m \in Moments, k \in HostSide :
           IF m = moment /\ k = j
             THEN Good(m, k)' /\ then'[m][k] = passed[k]
             ELSE (Good(m, k) => Good(m, k)') /\ then'[m][k] = then[m][k]
      /\ \A m \in Moments, k \in Fpga :
           snap'[m][k] = snap[m][k] /\ then'[m][k] = then[m][k]
  BY <1>o, ReadingIsGood
<1>y. sent \in Nat /\ lost \in Nat /\ others \in Nat
  BY Types
<1>1. PassedTrue'
  <2>1. \A k \in HostSide : Base(k)' = Base(k)
    BY <1>c, <1>o DEF Base
  <2>2. Stage' < 5 => sent = 0
    BY DEF HostMove, PassedTrue, HostReadings
  <2> QED BY <1>c, <2>1, <2>2 DEF PassedTrue
<1>2. HostReadings'
  <2>p. /\ passed["hostTx"] = sent /\ passed["udpOut"] = sent
        /\ passed["hostRx"] = sent - lost + others
        /\ Stage < 5 => sent = 0 /\ lost = 0
    BY <1>y DEF PassedTrue
  <2>r. \A m \in Moments, k \in HostSide :
          IF m = moment /\ k = j
            THEN Good(m, k)' /\ then'[m][k] = passed[k]
            ELSE (Good(m, k) => Good(m, k)') /\ then'[m][k] = then[m][k]
    BY <1>g
  <2> HIDE DEF Good
  <2>1. CASE Stage = 1 /\ moment = "before" /\ j = "hostRx" /\ Stage' = 2
    BY <1>c, <1>y, <2>p, <2>r, <2>1 DEF HostReadings
  <2>2. CASE Stage = 2 /\ moment = "before" /\ j = "hostTx" /\ Stage' = 3
    BY <1>c, <1>y, <2>p, <2>r, <2>2 DEF HostReadings
  <2>3. CASE Stage = 3 /\ moment = "before" /\ j = "udpOut" /\ Stage' = 4
    BY <1>c, <1>y, <2>p, <2>r, <2>3 DEF HostReadings
  <2>4. CASE Stage = 4 /\ moment = "start" /\ j = "hostTx" /\ Stage' = 5
    BY <1>c, <1>y, <2>p, <2>r, <2>4 DEF HostReadings
  <2>5. CASE Stage = 6 /\ moment = "end" /\ j = "hostTx" /\ Stage' = 7
    BY <1>c, <1>y, <2>p, <2>r, <2>5 DEF HostReadings
  <2>6. CASE Stage = 7 /\ moment = "after" /\ j = "hostRx" /\ Stage' = 8
    <3>1. /\ Good("before", "hostRx") /\ Good("before", "hostTx") /\ Good("before", "udpOut")
          /\ Good("start", "hostTx") /\ Good("end", "hostTx")
          /\ then["before"]["hostRx"] <= others /\ then["before"]["hostTx"] = 0
          /\ then["before"]["udpOut"] = 0 /\ then["start"]["hostTx"] = 0
          /\ then["end"]["hostTx"] = sent
      BY <2>6 DEF HostReadings
    <3>2. /\ Good("before", "hostRx")' /\ Good("before", "hostTx")' /\ Good("before", "udpOut")'
          /\ Good("start", "hostTx")' /\ Good("end", "hostTx")' /\ Good("after", "hostRx")'
      BY <1>c, <2>r, <2>6, <3>1
    <3>3. /\ then'["before"]["hostRx"] = then["before"]["hostRx"]
          /\ then'["before"]["hostTx"] = 0
          /\ then'["before"]["udpOut"] = 0 /\ then'["start"]["hostTx"] = 0
          /\ then'["end"]["hostTx"] = sent
          /\ then'["after"]["hostRx"] = sent - lost + others
      BY <1>c, <2>p, <2>r, <2>6, <3>1
    <3>4. then["before"]["hostRx"] \in Nat
      BY Types, Names
    <3>5. /\ sent - lost + then'["before"]["hostRx"] <= then'["after"]["hostRx"]
          /\ then'["after"]["hostRx"] <= sent - lost + others
          /\ then'["before"]["hostRx"] <= others
      BY <1>y, <3>1, <3>3, <3>4
    <3> QED BY <1>c, <2>6, <3>2, <3>3, <3>5 DEF HostReadings
  <2>7. CASE Stage = 8 /\ moment = "after" /\ j = "hostTx" /\ Stage' = 9
    BY <1>c, <1>y, <2>p, <2>r, <2>7 DEF HostReadings
  <2>8. CASE Stage = 9 /\ moment = "after" /\ j = "udpOut" /\ Stage' = 10
    BY <1>c, <1>y, <2>p, <2>r, <2>8 DEF HostReadings
  <2> QED BY <2>1, <2>2, <2>3, <2>4, <2>5, <2>6, <2>7, <2>8 DEF HostMove
<1>3. FpgaReadings'
  <2>1. Stage \in 1..10 /\ Stage' \in 1..10
    BY DEF HostMove
  <2>2. /\ Decoded("before") /\ \A k \in Fpga : then["before"][k] <= passed[k]
        /\ \A k \in Fpga : Bounded(k, count[k], passed[k])
    BY <2>1 DEF FpgaReadings
  <2>3. Decoded("before")'
    BY <1>c, <1>g, <2>2 DEF Decoded
  <2>4. \A k \in Fpga : then'["before"][k] <= passed'[k]
    BY <1>c, <1>g, <2>2
  <2>5. \A k \in Fpga : Bounded(k, count[k], passed[k])'
    BY <1>c, <1>g, <2>2 DEF Bounded, Allowed, Undisturbed
  <2> QED BY <2>1, <2>3, <2>4, <2>5 DEF FpgaReadings
<1> QED BY <1>1, <1>2, <1>3

\* The three kinds of step that read a counter of the host.
LEMMA HostMoves ==
  ASSUME TypeOK, Places, ReadIface \/ ReadTx \/ ReadSnmp
  PROVE  /\ \E j \in HostSide : HostReading(j) /\ HostMove(j)
         /\ Places' /\ pc' \in {"fpga", "rx", "tx", "snmp", "test"} /\ moment' \in Moments
<1>n. "hostRx" \in HostSide /\ "hostTx" \in HostSide /\ "udpOut" \in HostSide
  BY Names
<1>1. CASE ReadIface /\ pc = "rx"
  <2>1. HostReading("hostRx")
    BY <1>1, FileReadings, Names DEF ReadIface, Step
  <2>2. pc' = "tx" /\ moment' = moment /\ moment \in {"before", "after"}
    BY <1>1 DEF ReadIface, Step, Places
  <2> QED BY <1>1, <1>n, <2>1, <2>2, Names DEF HostMove, Stage, Places
<1>2. CASE ReadIface /\ pc = "tx"
  <2>1. HostReading("hostTx")
    BY <1>2, FileReadings, Names DEF ReadIface, Step
  <2>2. pc' = "snmp" /\ moment' = moment /\ moment \in {"before", "after"}
    BY <1>2 DEF ReadIface, Step
  <2> QED BY <1>2, <1>n, <2>1, <2>2, Names DEF HostMove, Stage, Places
<1>3. CASE ReadTx
  <2>1. HostReading("hostTx")
    BY <1>3, FileReadings, Names DEF ReadTx
  <2>2. /\ pc = "tx"
        /\ \/ moment = "start" /\ pc' = "test" /\ moment' = "start"
           \/ moment = "end" /\ pc' = "rx" /\ moment' = "after"
    BY <1>3 DEF ReadTx, Step
  <2> QED BY <1>n, <2>1, <2>2, Names DEF HostMove, Stage, Places
<1>4. CASE ReadSnmp
  <2>1. HostReading("udpOut")
    BY <1>4 DEF ReadSnmp, HostReading, TypeOK
  <2>2. /\ pc = "snmp"
        /\ \/ moment = "before" /\ pc' = "tx" /\ moment' = "start"
           \/ moment = "after" /\ pc' = "fpga" /\ moment' = "after"
    BY <1>4 DEF ReadSnmp, Step
  <2> QED BY <1>n, <2>1, <2>2, Names DEF HostMove, Stage, Places
<1> QED BY <1>1, <1>2, <1>3, <1>4 DEF ReadIface, Step

\* As long as the host's counters have not come to their end they count without wrapping.
LEMMA NoEnd ==
  ASSUME TypeOK, PassedTrue, NEW k \in HostSide
  PROVE  /\ count[k] = Base(k) + Own + passed[k] /\ Base(k) \in Nat /\ Own \in 0..2
         /\ passed[k] \in Nat
         /\ Own < 2 \/ sent + others < Packets + Background => count[k] + 1 < Uint64
<1>1. passed[k] \in Nat /\ count[k] \in Nat /\ Own \in 0..2 /\ k \in Counters
      /\ sent \in Nat /\ lost \in Nat /\ others \in Nat
  BY Types, Names, Widths DEF Own
<1>2. Base(k) \in Nat /\ Base(k) + 2 + Packets + Background < Uint64
  BY Widths DEF PassedTrue
<1>3. count[k] = Base(k) + Own + passed[k]
  BY <1>1, <1>2 DEF Base
<1>4. passed[k] <= sent + others
  BY <1>1, Names DEF PassedTrue
<1>5. sent + others <= Packets + Background
  BY <1>1, Widths DEF PassedTrue
<1>6. Own < 2 \/ sent + others < Packets + Background => count[k] + 1 < Uint64
  BY <1>1, <1>2, <1>3, <1>4, <1>5, Widths
<1> QED BY <1>1, <1>2, <1>3, <1>6

\* Frames that pass: every counter they pass counts them, but one of the FPGA that wraps.
LEMMA Frames ==
  ASSUME TypeOK, PassedTrue, FpgaReadings, NEW names \in SUBSET Counters, Frame(names),
         Stage \in 0..10, UNCHANGED <<pc, moment, snap, then, resets>>
  PROVE  /\ count' \in [Counters -> 0..(Uint64 - 1)] /\ \A k \in Fpga : count'[k] < Uint40
         /\ passed' \in [Counters -> Nat] /\ wrapped' \in BOOLEAN
         /\ \A k \in Counters : passed'[k] = IF k \in names THEN passed[k] + 1 ELSE passed[k]
         /\ \A k \in HostSide : Base(k)' = Base(k)
         /\ FpgaReadings'
<1>y. /\ count \in [Counters -> 0..(Uint64 - 1)] /\ (\A k \in Fpga : count[k] < Uint40)
      /\ \A k \in Counters : count[k] \in 0..(Uint64 - 1) /\ passed[k] \in Nat
      /\ \A m \in Moments, k \in Counters : snap[m][k] \in Nat /\ then[m][k] \in Nat
      /\ wrapped \in BOOLEAN /\ "before" \in Moments
  BY Types, Names, Widths
<1>c. HostSide \subseteq Counters /\ Fpga \subseteq Counters /\ HostSide \cap Fpga = {}
  BY Names
<1>1. count' \in [Counters -> 0..(Uint64 - 1)] /\ \A k \in Fpga : count'[k] < Uint40
  BY <1>y, CountsKept DEF Frame
<1>2. /\ passed' \in [Counters -> Nat]
      /\ \A k \in Counters : passed'[k] = IF k \in names THEN passed[k] + 1 ELSE passed[k]
  BY <1>y DEF Frame
<1>3. wrapped' \in BOOLEAN /\ (~wrapped' => ~wrapped)
      /\ (~wrapped' => \A k \in names \cap Fpga : count[k] + 1 # Width(k))
  BY <1>y DEF Frame, Wraps
<1>4. \A k \in Counters : count'[k] = IF k \in names THEN
                            IF count[k] + 1 = Width(k) THEN 0 ELSE count[k] + 1 ELSE count[k]
  BY <1>y, Counting DEF Frame
<1>s. Stage' = Stage /\ Own' = Own
  BY DEF Stage, Own
<1>5. \A k \in HostSide : Base(k)' = Base(k)
  <2> TAKE k \in HostSide
  <2>1. Own < 2
    BY DEF Own
  <2>2. count[k] + 1 < Uint64 /\ Own \in Int
    BY <2>1, NoEnd
  <2>3. Width(k) = Uint64
    BY <1>c DEF Width
  <2>4. count'[k] = IF k \in names THEN count[k] + 1 ELSE count[k]
    BY <1>c, <1>4, <1>y, <2>2, <2>3, Widths
  <2> QED BY <1>2, <1>c, <1>s, <1>y, <2>2, <2>4 DEF Base
<1>6. FpgaReadings'
  <2>1. Stage >= 1 => Decoded("before")' /\ \A k \in Fpga : then'["before"][k] <= passed'[k]
    <3>1. Stage >= 1 => Decoded("before")'
      BY DEF FpgaReadings, Decoded
    <3>2. ASSUME Stage >= 1, NEW k \in Fpga PROVE then'["before"][k] <= passed'[k]
      <4>1. then["before"][k] <= passed[k] /\ then["before"][k] \in Nat /\ passed[k] \in Nat
        BY <1>c, <1>y, <3>2 DEF FpgaReadings
      <4>2. passed'[k] \in {passed[k], passed[k] + 1}
        BY <1>2, <1>c
      <4> QED BY <4>1, <4>2
    <3> QED BY <3>1, <3>2
  <2>2. ASSUME Stage \in 1..10, NEW k \in Fpga PROVE Bounded(k, count[k], passed[k])'
    <3> DEFINE b == snap["before"][k]
               t == then["before"][k]
               c == count[k]
               p == passed[k]
    <3>1. /\ c <= b + 1 + p - t /\ (Undisturbed => c = b + 1 + p - t)
          /\ t <= p
      BY <2>2 DEF FpgaReadings, Bounded, Allowed
    <3>2. b \in Nat /\ t \in Nat /\ c \in Nat /\ p \in Nat
      BY <1>c, <1>y, Widths
    <3>3. /\ k \notin names => count'[k] = c /\ passed'[k] = p
          /\ k \in names => /\ passed'[k] = p + 1
                            /\ \/ count'[k] = c + 1
                               \/ count'[k] = 0 /\ wrapped'
      BY <1>2, <1>3, <1>4, <1>c
    <3>4. Undisturbed' => Undisturbed /\ ~wrapped'
      BY <1>3 DEF Undisturbed
    <3> HIDE DEF b, t, c, p
    <3>5. /\ count'[k] <= b + 1 + passed'[k] - t
          /\ Undisturbed' => count'[k] = b + 1 + passed'[k] - t
      BY <3>1, <3>2, <3>3, <3>4
    <3> QED BY <3>5 DEF Bounded, Allowed, b, t
  <2> QED BY <1>s, <2>1, <2>2 DEF FpgaReadings
<1> QED BY <1>1, <1>2, <1>3, <1>5, <1>6

\* The status frame: the request is counted before the values are taken, the answer after.
LEMMA StatusFrame ==
  ASSUME TypeOK, ReadFpga
  PROVE  \E asked :
           /\ asked = Plus(count, {"hostTx", "fpgaRx", "udpOut"})
           /\ count' = Plus(asked, {"fpgaTx", "hostRx"})
           /\ asked["fpgaTx"] = count["fpgaTx"]
           /\ asked["fpgaRx"] \in 0..(Uint40 - 1)
           /\ asked["fpgaRx"] = (IF count["fpgaRx"] + 1 = Uint40 THEN 0 ELSE count["fpgaRx"] + 1)
           /\ snap' \in [Moments -> [Counters -> 0..(Uint64 - 1)]]
           /\ \A m \in Moments, k \in Counters :
                snap'[m][k] =
                  IF m = moment /\ k = "fpgaRx" THEN Minus(asked["fpgaRx"], 1)
                  ELSE IF m = moment /\ k = "fpgaTx" THEN count["fpgaTx"]
                  ELSE snap[m][k]
<1>y. /\ count \in [Counters -> 0..(Uint64 - 1)] /\ (\A k \in Fpga : count[k] < Uint40)
      /\ {"fpgaRx", "fpgaTx"} \subseteq Counters /\ {"fpgaRx", "fpgaTx"} = Fpga
      /\ snap \in [Moments -> [Counters -> 0..(Uint64 - 1)]] /\ moment \in Moments
      /\ count["fpgaTx"] \in 0..(Uint64 - 1)
  BY Types, Names DEF TypeOK
<1> DEFINE asked == Plus(count, {"hostTx", "fpgaRx", "udpOut"})
<1>1. /\ asked["fpgaTx"] = count["fpgaTx"]
      /\ asked["fpgaRx"] \in 0..(Uint40 - 1)
      /\ asked["fpgaRx"] = IF count["fpgaRx"] + 1 = Uint40 THEN 0 ELSE count["fpgaRx"] + 1
  <2>1. Width("fpgaRx") = Uint40 /\ Width("fpgaTx") = Uint40
    BY <1>y DEF Width
  <2> QED BY <1>y, <2>1, Counting
<1>2. Minus(asked["fpgaRx"], 1) \in 0..(Uint64 - 1)
  <2>1. asked["fpgaRx"] \in 0..(Uint64 - 1) /\ 1 \in 0..(Uint64 - 1)
    BY <1>1, Widths
  <2> QED BY <2>1, Differences
<1>3. /\ count' = Plus(asked, {"fpgaTx", "hostRx"})
      /\ snap' = [snap EXCEPT ![moment]["fpgaRx"] = Minus(asked["fpgaRx"], 1),
                              ![moment]["fpgaTx"] = count["fpgaTx"]]
  BY <1>1 DEF ReadFpga, Decode
<1> HIDE DEF asked
<1>4. snap' \in [Moments -> [Counters -> 0..(Uint64 - 1)]]
  BY <1>y, <1>2, <1>3
<1>5. \A m \in Moments, k \in Counters :
        snap'[m][k] =
          IF m = moment /\ k = "fpgaRx" THEN Minus(asked["fpgaRx"], 1)
          ELSE IF m = moment /\ k = "fpgaTx" THEN count["fpgaTx"]
          ELSE snap[m][k]
  BY <1>y, <1>3
<1> QED BY <1>1, <1>3, <1>4, <1>5 DEF asked

\* Neither reading of the FPGA disturbs what is known.
LEMMA FpgaReadingKeeps ==
  ASSUME TypeOK, Places, PassedTrue, HostReadings, FpgaReadings, ReadFpga
  PROVE  TypeOK' /\ Places' /\ PassedTrue' /\ HostReadings' /\ FpgaReadings'
<1>y. /\ count \in [Counters -> 0..(Uint64 - 1)] /\ (\A k \in Fpga : count[k] < Uint40)
      /\ \A k \in Counters : count[k] \in 0..(Uint64 - 1) /\ count[k] \in Nat /\ passed[k] \in Nat
      /\ \A m \in Moments, k \in Counters : snap[m][k] \in Nat /\ then[m][k] \in Nat
      /\ moment \in Moments /\ wrapped \in BOOLEAN
  BY Types, Widths
<1>c. /\ {"hostRx", "hostTx", "udpOut"} = HostSide /\ {"fpgaRx", "fpgaTx"} = Fpga
      /\ {"before", "start", "end", "after"} = Moments
      /\ HostSide \subseteq Counters /\ Fpga \subseteq Counters
  BY Names
<1>p. /\ pc = "fpga" /\ moment' = moment
      /\ \/ moment = "before" /\ pc' = "rx" /\ Stage = 0 /\ Stage' = 1
         \/ moment = "after" /\ pc' = "row" /\ Stage = 10 /\ Stage' = 11
      /\ UNCHANGED <<loopback, passed, sent, lost, others, unread, resets>>
      /\ Noted(Fpga) /\ wrapped' = (wrapped \/ Wraps(Fpga))
  BY DEF ReadFpga, Step, Places, Stage
<1>o. Own' = Own + 1 /\ Own \in {0, 1}
  BY <1>p DEF Own
<1>a. PICK asked :
        /\ asked = Plus(count, {"hostTx", "fpgaRx", "udpOut"})
        /\ count' = Plus(asked, {"fpgaTx", "hostRx"})
        /\ asked["fpgaTx"] = count["fpgaTx"]
        /\ asked["fpgaRx"] \in 0..(Uint40 - 1)
        /\ asked["fpgaRx"] = (IF count["fpgaRx"] + 1 = Uint40 THEN 0 ELSE count["fpgaRx"] + 1)
        /\ snap' \in [Moments -> [Counters -> 0..(Uint64 - 1)]]
        /\ \A m \in Moments, k \in Counters :
             snap'[m][k] =
               IF m = moment /\ k = "fpgaRx" THEN Minus(asked["fpgaRx"], 1)
               ELSE IF m = moment /\ k = "fpgaTx" THEN count["fpgaTx"]
               ELSE snap[m][k]
  BY StatusFrame
<1>b. asked \in [Counters -> 0..(Uint64 - 1)] /\ \A k \in Fpga : asked[k] < Uint40
  BY <1>a, <1>y, CountsKept
<1>d. count' \in [Counters -> 0..(Uint64 - 1)] /\ \A k \in Fpga : count'[k] < Uint40
  BY <1>a, <1>b, CountsKept
<1>t. /\ then' \in [Moments -> [Counters -> Nat]]
      /\ \A m \in Moments, k \in Counters :
           then'[m][k] = IF m = moment /\ k \in Fpga THEN passed[k] ELSE then[m][k]
  BY <1>p, Noting
<1>w. wrapped' \in BOOLEAN /\ (~wrapped' => ~wrapped)
      /\ (~wrapped' => \A k \in Fpga : count[k] + 1 # Uint40)
  <2>1. \A k \in Fpga : Width(k) = Uint40
    BY DEF Width
  <2> QED BY <1>p, <1>y, <2>1 DEF Wraps
<1>f. /\ \A k \in Fpga : count'[k] <= count[k] + 1 /\ count'[k] \in Nat
      /\ ~wrapped' => \A k \in Fpga : count'[k] = count[k] + 1
  <2>1. \A k \in Fpga : Width(k) = Uint40
    BY DEF Width
  <2>2. count'["fpgaRx"] = asked["fpgaRx"]
    BY <1>a, <1>b, <1>c, Counting
  <2>3. count'["fpgaTx"] = IF count["fpgaTx"] + 1 = Uint40 THEN 0 ELSE count["fpgaTx"] + 1
    BY <1>a, <1>b, <1>c, <2>1, Counting
  <2> QED BY <1>a, <1>c, <1>w, <1>y, <2>2, <2>3
<1>h. \A k \in HostSide : count'[k] = count[k] + 1 /\ Base(k)' = Base(k)
  <2> TAKE k \in HostSide
  <2>1. count[k] + 1 < Uint64 /\ Own \in Int
    BY <1>o, NoEnd
  <2>2. Width(k) = Uint64 /\ k \in Counters
    BY <1>c, Names DEF Width
  <2>3. asked[k] = IF k \in {"hostTx", "fpgaRx", "udpOut"} THEN count[k] + 1 ELSE count[k]
    BY <1>a, <1>y, <2>1, <2>2, Counting, Widths
  <2>4. count'[k] = IF k \in {"fpgaTx", "hostRx"} THEN asked[k] + 1 ELSE asked[k]
    <3>1. k \in {"fpgaTx", "hostRx"} => asked[k] = count[k]
      BY <2>3
    <3>2. count'[k] = IF k \in {"fpgaTx", "hostRx"}
                        THEN IF asked[k] + 1 = Width(k) THEN 0 ELSE asked[k] + 1 ELSE asked[k]
      BY <1>a, <1>b, <2>2, Counting
    <3> QED BY <1>y, <2>1, <2>2, <3>1, <3>2, Widths
  <2>5. count'[k] = count[k] + 1
    BY <1>c, <2>3, <2>4
  <2> QED BY <1>o, <1>p, <1>y, <2>1, <2>2, <2>5 DEF Base
<1>1. TypeOK'
  <2>1. /\ pc' \in {"fpga", "rx", "tx", "snmp", "test", "row", "quit"} /\ moment' \in Moments
        /\ UNCHANGED <<loopback, passed, sent, lost, others, unread, resets>>
    BY <1>p, <1>y
  <2> QED BY <1>a, <1>d, <1>t, <1>w, <2>1 DEF TypeOK
<1>2. Places'
  BY <1>p DEF Places
<1>3. PassedTrue'
  <2>1. Stage' < 5 => Stage < 5
    BY <1>p
  <2> QED BY <1>h, <1>p, <2>1 DEF PassedTrue
<1>4. HostReadings'
  <2>1. \A m \in Moments, k \in HostSide :
          (Good(m, k) => Good(m, k)') /\ then'[m][k] = then[m][k]
    <3> TAKE m \in Moments, k \in HostSide
    <3>1. k \notin Fpga /\ k # "fpgaRx" /\ k # "fpgaTx" /\ k \in Counters
      BY <1>c, Names
    <3>2. then'[m][k] = then[m][k] /\ snap'[m][k] = snap[m][k]
      BY <1>a, <1>t, <3>1
    <3> QED BY <1>h, <1>p, <3>2 DEF Good
  <2>2. CASE Stage = 0 /\ Stage' = 1
    BY <2>2 DEF HostReadings
  <2>3. CASE Stage = 10 /\ Stage' = 11
    <3> HIDE DEF Good
    <3>1. UNCHANGED <<sent, lost, others>>
      BY <1>p
    <3> QED BY <1>c, <2>1, <2>3, <3>1 DEF HostReadings
  <2> QED BY <1>p, <2>2, <2>3
<1>r. /\ asked["fpgaRx"] = 0 => Minus(asked["fpgaRx"], 1) = Underflow
      /\ asked["fpgaRx"] # 0 => /\ Minus(asked["fpgaRx"], 1) = count["fpgaRx"]
                                /\ count["fpgaRx"] <= Uint40 - 2
  <2>1. asked["fpgaRx"] \in 0..(Uint64 - 1) /\ 1 \in 0..(Uint64 - 1)
    BY <1>a, Widths
  <2>2. Minus(asked["fpgaRx"], 1) =
          IF asked["fpgaRx"] >= 1 THEN asked["fpgaRx"] - 1 ELSE asked["fpgaRx"] - 1 + Uint64
    BY <2>1, Differences
  <2>3. count["fpgaRx"] < Uint40 /\ count["fpgaRx"] \in Nat
    BY <1>c, <1>y
  <2>4. CASE asked["fpgaRx"] = 0
    <3>1. Minus(asked["fpgaRx"], 1) = 0 - 1 + Uint64
      BY <2>2, <2>4
    <3> QED BY <2>4, <3>1, Widths DEF Underflow
  <2>5. CASE asked["fpgaRx"] # 0
    <3>1. asked["fpgaRx"] = count["fpgaRx"] + 1 /\ asked["fpgaRx"] <= Uint40 - 1
      BY <1>a, <2>5, Widths
    <3>2. Minus(asked["fpgaRx"], 1) = asked["fpgaRx"] - 1
      BY <2>2, <2>3, <3>1
    <3> QED BY <2>3, <2>5, <3>1, <3>2, Widths
  <2> QED BY <2>4, <2>5
<1>u. asked["fpgaRx"] = 0 => wrapped'
  BY <1>a, <1>c, <1>w, <1>y
<1>v. count["fpgaTx"] <= Uint40 - 1 /\ Uint40 \in Nat
  BY <1>c, <1>y, Widths
<1>5. CASE Stage = 0 /\ Stage' = 1 /\ moment = "before"
  <2>1. /\ snap'["before"]["fpgaRx"] = Minus(asked["fpgaRx"], 1)
        /\ snap'["before"]["fpgaTx"] = count["fpgaTx"]
        /\ \A k \in Fpga : then'["before"][k] = passed[k] /\ passed'[k] = passed[k]
    BY <1>5, <1>a, <1>c, <1>p, <1>t
  <2>2. Decoded("before")'
    BY <1>r, <1>v, <2>1 DEF Decoded, Underflow
  <2>3. \A k \in Fpga : Bounded(k, count[k], passed[k])'
    <3>1. /\ count'["fpgaRx"] <= snap'["before"]["fpgaRx"] + 1
          /\ ~wrapped' => count'["fpgaRx"] = snap'["before"]["fpgaRx"] + 1
      <4>1. count'["fpgaRx"] < Uint40 /\ count'["fpgaRx"] \in Nat
        BY <1>c, <1>d, <1>f
      <4>2. CASE asked["fpgaRx"] = 0
        BY <1>r, <1>u, <2>1, <4>1, <4>2, Widths DEF Underflow
      <4>3. CASE asked["fpgaRx"] # 0
        BY <1>c, <1>f, <1>r, <2>1, <4>3
      <4> QED BY <4>2, <4>3
    <3>2. /\ count'["fpgaTx"] <= snap'["before"]["fpgaTx"] + 1
          /\ ~wrapped' => count'["fpgaTx"] = snap'["before"]["fpgaTx"] + 1
      BY <1>c, <1>f, <2>1
    <3>3. ASSUME NEW k \in Fpga PROVE Bounded(k, count[k], passed[k])'
      <4>1. /\ count'[k] <= snap'["before"][k] + 1
            /\ ~wrapped' => count'[k] = snap'["before"][k] + 1
        BY <1>c, <3>1, <3>2
      <4>2. passed'[k] = then'["before"][k] /\ passed'[k] \in Nat
        BY <1>c, <1>y, <2>1
      <4>3. snap'["before"][k] \in Nat
        BY <1>a, <1>c, Widths
      <4>4. snap'["before"][k] + 1 + passed'[k] - then'["before"][k] = snap'["before"][k] + 1
        BY <4>2, <4>3
      <4> QED BY <4>1, <4>4 DEF Bounded, Allowed, Undisturbed
    <3> QED BY <3>3
  <2>4. \A k \in Fpga : then'["before"][k] <= passed'[k]
    BY <1>c, <1>y, <2>1
  <2> QED BY <1>1, <1>2, <1>3, <1>4, <1>5, <2>2, <2>3, <2>4 DEF FpgaReadings
<1>6. CASE Stage = 10 /\ Stage' = 11 /\ moment = "after"
  <2>1. /\ snap'["after"]["fpgaRx"] = Minus(asked["fpgaRx"], 1)
        /\ snap'["after"]["fpgaTx"] = count["fpgaTx"]
        /\ \A k \in Fpga : /\ then'["after"][k] = passed[k]
                           /\ then'["before"][k] = then["before"][k]
                           /\ snap'["before"][k] = snap["before"][k]
    BY <1>6, <1>a, <1>c, <1>p, <1>t
  <2>2. /\ Decoded("before")
        /\ \A k \in Fpga : then["before"][k] <= passed[k] /\ Bounded(k, count[k], passed[k])
    BY <1>6 DEF FpgaReadings
  <2>3. Decoded("before")' /\ Decoded("after")'
    BY <1>c, <1>r, <1>v, <2>1, <2>2 DEF Decoded, Underflow
  <2>4. Undisturbed' => Undisturbed /\ ~wrapped'
    BY <1>p, <1>w DEF Undisturbed
  <2>5. \A k \in Fpga :
          /\ then'["before"][k] <= then'["after"][k]
          /\ \/ Bounded(k, snap["after"][k], then["after"][k])'
             \/ k = "fpgaRx" /\ snap'["after"][k] = Underflow' /\ ~Undisturbed'
    <3> TAKE k \in Fpga
    <3>1. then'["before"][k] <= then'["after"][k]
      BY <2>1, <2>2
    <3>2. CASE snap'["after"][k] = count[k]
      BY <2>1, <2>2, <2>4, <3>1, <3>2 DEF Bounded, Allowed
    <3>3. CASE snap'["after"][k] # count[k]
      <4>1. k = "fpgaRx" /\ asked["fpgaRx"] = 0
        BY <1>c, <1>r, <2>1, <3>3
      <4> QED BY <1>r, <1>u, <2>1, <2>4, <3>1, <4>1 DEF Underflow
    <3> QED BY <3>1, <3>2, <3>3
  <2>6. FpgaReadings'
    <3>1. \A k \in Fpga : then'["before"][k] <= passed'[k]
      BY <1>p, <2>1, <2>2
    <3> QED BY <1>6, <2>3, <2>5, <3>1 DEF FpgaReadings
  <2> QED BY <1>1, <1>2, <1>3, <1>4, <2>6
<1> QED BY <1>p, <1>5, <1>6

-----------------------------------------------------------------------------
(* The invariant.                                                          *)

\* The command starts with everything in place.
LEMMA RowInit == Init => RowInv
<1> SUFFICES ASSUME Init PROVE RowInv
  OBVIOUS
<1>n. /\ HostCounts \subseteq Nat /\ FirstCounts \subseteq 0..(Uint40 - 1)
      /\ \A n \in HostCounts \cup {0} : n \in 0..(Uint64 - 1)
  BY Widths, HostAssumption, WidthAssumption
<1>1. count \in [Counters -> 0..(Uint64 - 1)] /\ \A k \in Fpga : count[k] < Uint40
  <2>1. count \in [Counters -> HostCounts \cup FirstCounts \cup {0}]
        /\ \A k \in Fpga : count[k] \in FirstCounts
    BY DEF Init
  <2>2. HostCounts \cup FirstCounts \cup {0} \subseteq 0..(Uint64 - 1)
    BY <1>n, Widths
  <2>3. count \in [Counters -> 0..(Uint64 - 1)]
    BY <2>1, <2>2
  <2>4. ASSUME NEW k \in Fpga PROVE count[k] < Uint40
    <3>1. count[k] \in 0..(Uint40 - 1)
      BY <1>n, <2>1
    <3> QED BY <3>1, Widths
  <2> QED BY <2>3, <2>4
<1>2. Zero \in [Counters -> Nat] /\ Zero \in [Counters -> 0..(Uint64 - 1)]
  BY Widths DEF Zero
<1>3. TypeOK
  <2>1. /\ pc = "fpga" /\ moment \in Moments /\ loopback = TRUE /\ wrapped = FALSE
        /\ snap = [s \in Moments |-> Zero] /\ then = [s \in Moments |-> Zero]
        /\ passed = Zero /\ unread = [s \in Moments |-> 0]
        /\ sent = 0 /\ lost = 0 /\ others = 0 /\ resets = 0
    BY Names DEF Init
  <2>2. unread \in [Moments -> 0..Unreadables]
    BY <2>1, Widths
  <2>3. /\ snap \in [Moments -> [Counters -> 0..(Uint64 - 1)]]
        /\ then \in [Moments -> [Counters -> Nat]] /\ passed \in [Counters -> Nat]
    BY <1>2, <2>1
  <2>4. loopback \in BOOLEAN /\ wrapped \in BOOLEAN
    BY <2>1, Zenon
  <2>5. /\ pc \in {"fpga", "rx", "tx", "snmp", "test", "row", "quit"}
        /\ {sent, lost, others, resets} \subseteq Nat
    BY <2>1
  <2> QED BY <1>1, <2>1, <2>2, <2>3, <2>4, <2>5 DEF TypeOK
<1>4. Stage = 0 /\ Own = 0 /\ Places
  BY DEF Init, Stage, Own, Places
<1>5. PassedTrue
  <2>1. passed["hostTx"] = 0 /\ passed["udpOut"] = 0 /\ passed["hostRx"] = 0
        /\ \A k \in HostSide : passed[k] = 0
    BY Names DEF Init, Zero
  <2>2. \A k \in HostSide : count[k] \in HostCounts \cup {0}
    BY Names DEF Init
  <2>3. \A k \in HostSide : Base(k) \in HostCounts \cup {0}
    <3> TAKE k \in HostSide
    <3>0. count[k] \in HostCounts \cup {0} /\ \A n \in HostCounts \cup {0} : n \in Int
      BY <1>n, <2>2
    <3>1. count[k] \in Int /\ passed[k] = 0 /\ Own = 0
      BY <1>4, <2>1, <3>0
    <3>2. Base(k) = count[k]
      BY <3>1 DEF Base
    <3> QED BY <2>2, <3>2
  <2> QED BY <2>1, <2>3, Widths DEF Init, PassedTrue
<1>6. HostReadings /\ FpgaReadings
  BY <1>4 DEF HostReadings, FpgaReadings
<1> QED BY <1>3, <1>4, <1>5, <1>6 DEF RowInv

\* Every step keeps it.
LEMMA RowNext == RowInv /\ [Next]_vars => RowInv'
<1> SUFFICES ASSUME RowInv, [Next]_vars
             PROVE  RowInv'
  OBVIOUS
<1>t. TypeOK
  BY DEF RowInv
<1>k. pc # "quit" => Places /\ PassedTrue /\ HostReadings /\ FpgaReadings
  BY DEF RowInv
<1>y. /\ moment \in Moments /\ count \in [Counters -> 0..(Uint64 - 1)]
      /\ (\A k \in Fpga : count[k] < Uint40)
      /\ \A k \in Counters : passed[k] \in Nat
      /\ \A m \in Moments, k \in Counters : snap[m][k] \in Nat /\ then[m][k] \in Nat
      /\ sent \in Nat /\ lost \in Nat /\ others \in Nat /\ resets \in Nat
  BY <1>t, Types, Widths
<1>c. /\ {"hostRx", "hostTx", "udpOut"} = HostSide /\ {"fpgaRx", "fpgaTx"} = Fpga
      /\ HostSide \cup Fpga = Counters /\ HostSide \cap Fpga = {}
      /\ {"before", "start", "end", "after"} = Moments
  BY Names
<1>1. CASE ReadFpga
  <2>1. pc # "quit"
    BY <1>1 DEF ReadFpga, Step
  <2> QED BY <1>1, <1>k, <1>t, <2>1, FpgaReadingKeeps DEF RowInv
<1>2. CASE ReadIface \/ ReadTx \/ ReadSnmp
  <2>1. pc # "quit"
    BY <1>2 DEF ReadIface, ReadTx, ReadSnmp, Step
  <2>2. PICK j \in HostSide : HostReading(j) /\ HostMove(j)
    BY <1>2, <1>k, <1>t, <2>1, HostMoves
  <2>3. Places' /\ pc' \in {"fpga", "rx", "tx", "snmp", "test"} /\ moment' \in Moments
    BY <1>2, <1>k, <1>t, <2>1, HostMoves
  <2>4. PassedTrue' /\ HostReadings' /\ FpgaReadings'
    BY <1>k, <1>t, <2>1, <2>2, HostReadingKeeps
  <2>5. /\ snap' \in [Moments -> [Counters -> 0..(Uint64 - 1)]]
        /\ then' \in [Moments -> [Counters -> Nat]]
    <3>1. Own = 1 /\ Own' = 1
      BY <2>2 DEF HostMove, Own
    <3> QED BY <1>k, <1>t, <2>1, <2>2, <3>1, ReadingIsGood
  <2>6. TypeOK'
    BY <1>t, <2>2, <2>3, <2>5 DEF TypeOK, HostReading
  <2> QED BY <2>3, <2>4, <2>6 DEF RowInv
<1>3. CASE TestEnds
  <2>1. /\ pc = "test" /\ pc' = "tx" /\ moment' = "end"
        /\ UNCHANGED <<loopback, count, snap, passed, then, sent, lost, others, unread,
                       resets, wrapped>>
    BY <1>3 DEF TestEnds, Step, history
  <2>2. Places' /\ Stage = 5 /\ Stage' = 6 /\ Own = 1 /\ Own' = 1
    BY <1>k, <2>1 DEF Places, Stage, Own
  <2>3. TypeOK'
    BY <1>c, <1>t, <2>1 DEF TypeOK
  <2>4. \A k \in HostSide : Base(k)' = Base(k)
    BY <2>1, <2>2 DEF Base
  <2>5. PassedTrue'
    BY <1>k, <2>1, <2>2, <2>4 DEF PassedTrue
  <2>6. HostReadings'
    <3>1. \A m \in Moments, k \in HostSide : Good(m, k) => Good(m, k)'
      BY <2>1, <2>4 DEF Good
    <3> HIDE DEF Good
    <3> QED BY <1>c, <1>k, <2>1, <2>2, <3>1 DEF HostReadings
  <2>7. FpgaReadings'
    BY <1>k, <2>1, <2>2 DEF FpgaReadings, Decoded, Bounded, Allowed, Undisturbed
  <2> QED BY <2>2, <2>3, <2>5, <2>6, <2>7 DEF RowInv
<1>4. CASE Quit
  <2>1. TypeOK' /\ pc' = "quit"
    BY <1>4, <1>t DEF Quit, TypeOK, history
  <2> QED BY <2>1 DEF RowInv
<1>f. ASSUME NEW names \in SUBSET Counters, Frame(names), pc \notin {"row", "quit"},
             UNCHANGED <<pc, moment, loopback, snap, then, unread, resets>>,
             sent' \in Nat, lost' \in Nat, others' \in Nat,
             sent' <= Packets, others' <= Background, lost' <= sent',
             sent' # sent => Stage = 5,
             sent' - lost' >= sent - lost, others' >= others,
             "hostTx" \in names <=> sent' = sent + 1, "udpOut" \in names <=> sent' = sent + 1,
             sent' \in {sent, sent + 1},
             sent' - lost' + others' =
               sent - lost + others + (IF "hostRx" \in names THEN 1 ELSE 0),
             Stage >= 8 => lost' = lost
      PROVE  RowInv'
  <2>1. Stage \in 0..10 /\ Stage' = Stage /\ Places'
    BY <1>f, <1>k DEF Stage, Places
  <2>2. /\ count' \in [Counters -> 0..(Uint64 - 1)] /\ \A k \in Fpga : count'[k] < Uint40
        /\ passed' \in [Counters -> Nat] /\ wrapped' \in BOOLEAN
        /\ \A k \in Counters : passed'[k] = IF k \in names THEN passed[k] + 1 ELSE passed[k]
        /\ \A k \in HostSide : Base(k)' = Base(k)
        /\ FpgaReadings'
    BY <1>f, <1>k, <1>t, <2>1, Frames
  <2>3. TypeOK'
    BY <1>f, <1>t, <2>2 DEF TypeOK
  <2>4. PassedTrue'
    <3>1. passed["hostTx"] = sent /\ passed["udpOut"] = sent
          /\ passed["hostRx"] = sent - lost + others /\ (Stage < 5 => sent = 0)
      BY <1>f, <1>k DEF PassedTrue
    <3>2. {"hostTx", "udpOut", "hostRx"} \subseteq Counters
      BY <1>c
    <3>3. passed'["hostTx"] = sent' /\ passed'["udpOut"] = sent'
      BY <1>f, <1>y, <2>2, <3>1, <3>2
    <3>4. passed'["hostRx"] = sent' - lost' + others'
      <4>1. passed'["hostRx"] =
              IF "hostRx" \in names THEN passed["hostRx"] + 1 ELSE passed["hostRx"]
        BY <2>2, <3>2
      <4>2. sent' - lost' + others' =
              sent - lost + others + (IF "hostRx" \in names THEN 1 ELSE 0)
        BY <1>f
      <4>3. CASE "hostRx" \in names
        BY <1>y, <3>1, <4>1, <4>2, <4>3
      <4>4. CASE "hostRx" \notin names
        <5>1. sent - lost + others \in Int /\ passed'["hostRx"] = sent - lost + others
          BY <1>y, <3>1, <4>1, <4>4
        <5>2. sent' - lost' + others' = sent - lost + others + 0
          BY <4>2, <4>4
        <5> QED BY <5>1, <5>2
      <4> QED BY <4>3, <4>4
    <3>5. Stage' < 5 => sent' = 0
      BY <1>f, <2>1, <3>1
    <3>6. \A k \in HostSide : Base(k)' \in HostCounts \cup {0}
      BY <1>f, <1>k, <2>2 DEF PassedTrue
    <3> QED BY <1>f, <3>3, <3>4, <3>5, <3>6 DEF PassedTrue
  <2>5. HostReadings'
    <3>1. \A m \in Moments, k \in HostSide : Good(m, k) => Good(m, k)'
      BY <1>f, <2>2 DEF Good
    <3>2. then' = then /\ (Stage > 5 => sent' = sent)
      BY <1>f, <2>1
    <3>3. HostReadings
      BY <1>f, <1>k
    <3> HIDE DEF Good
    <3>4. /\ Stage' >= 2 => Good("before", "hostRx")' /\ then'["before"]["hostRx"] <= others'
          /\ Stage' >= 3 => Good("before", "hostTx")' /\ then'["before"]["hostTx"] = 0
          /\ Stage' >= 4 => Good("before", "udpOut")' /\ then'["before"]["udpOut"] = 0
          /\ Stage' >= 5 => Good("start", "hostTx")' /\ then'["start"]["hostTx"] = 0
      <4>1. Stage >= 2 => then["before"]["hostRx"] <= others /\ then["before"]["hostRx"] \in Nat
        BY <1>c, <1>y, <3>3 DEF HostReadings
      <4>2. Stage >= 2 => then["before"]["hostRx"] <= others'
        BY <1>f, <1>y, <4>1
      <4> QED BY <1>c, <2>1, <3>1, <3>2, <3>3, <4>2 DEF HostReadings
    <3>5. /\ Stage' >= 7 => Good("end", "hostTx")' /\ then'["end"]["hostTx"] = sent'
          /\ Stage' >= 9 => Good("after", "hostTx")' /\ then'["after"]["hostTx"] = sent'
          /\ Stage' >= 10 => Good("after", "udpOut")' /\ then'["after"]["udpOut"] = sent'
      BY <1>c, <2>1, <3>1, <3>2, <3>3 DEF HostReadings
    <3>6. Stage' >= 8 =>
            /\ Good("after", "hostRx")'
            /\ sent' - lost' + then'["before"]["hostRx"] <= then'["after"]["hostRx"]
            /\ then'["after"]["hostRx"] <= sent' - lost' + others'
      <4> SUFFICES ASSUME Stage >= 8
                   PROVE  /\ Good("after", "hostRx")'
                          /\ sent' - lost' + then["before"]["hostRx"] <= then["after"]["hostRx"]
                          /\ then["after"]["hostRx"] <= sent' - lost' + others'
        BY <2>1, <3>2
      <4>1. /\ Good("after", "hostRx")
            /\ sent - lost + then["before"]["hostRx"] <= then["after"]["hostRx"]
            /\ then["after"]["hostRx"] <= sent - lost + others
        BY <3>3 DEF HostReadings
      <4>2. then["before"]["hostRx"] \in Nat /\ then["after"]["hostRx"] \in Nat
        BY <1>c, <1>y
      <4>3. sent' = sent /\ lost' = lost
        BY <1>f, <2>1, <3>2
      <4> QED BY <1>c, <1>f, <1>y, <3>1, <4>1, <4>2, <4>3
    <3> QED BY <3>4, <3>5, <3>6 DEF HostReadings
  <2> QED BY <2>1, <2>2, <2>3, <2>4, <2>5 DEF RowInv
<1>5. CASE Packet
  <2>0. PassedTrue /\ Stage = 5
    BY <1>5, <1>k DEF Packet, Stage, Places
  <2>1. /\ sent' = sent + 1 /\ sent' <= Packets /\ others' = others /\ sent' \in Nat
        /\ others \in Nat /\ others <= Background /\ lost <= sent
    BY <1>5, <1>y, <2>0, Widths DEF Packet, PassedTrue
  <2>2. PICK names \in SUBSET Counters :
          /\ Frame(names)
          /\ "hostTx" \in names /\ "udpOut" \in names
          /\ \/ "hostRx" \in names /\ lost' = lost
             \/ "hostRx" \notin names /\ lost' = lost + 1
    BY <1>5, Names DEF Packet
  <2>3. /\ lost' \in Nat /\ lost' <= sent' /\ sent' - lost' >= sent - lost
        /\ sent' - lost' + others' =
             sent - lost + others + (IF "hostRx" \in names THEN 1 ELSE 0)
    BY <1>y, <2>1, <2>2
  <2>4. /\ pc \notin {"row", "quit"}
        /\ UNCHANGED <<pc, moment, loopback, snap, then, unread, resets>>
    BY <1>5 DEF Packet
  <2>5. /\ others' \in Nat /\ others' <= Background /\ others' >= others
        /\ sent' # sent /\ sent' \in {sent, sent + 1}
        /\ "hostTx" \in names <=> sent' = sent + 1
        /\ "udpOut" \in names <=> sent' = sent + 1
        /\ ~(Stage >= 8)
    BY <1>y, <2>0, <2>1, <2>2
  <2> QED BY <1>f, <2>0, <2>1, <2>2, <2>3, <2>4, <2>5
<1>6. CASE Broadcast
  <2>1. /\ others' = others + 1 /\ others' <= Background /\ sent' = sent /\ lost' = lost
        /\ others' \in Nat /\ sent <= Packets /\ lost <= sent
    BY <1>6, <1>k, <1>y, Widths DEF Broadcast, PassedTrue
  <2>2. /\ pc \notin {"row", "quit"} /\ Frame({"hostRx", "fpgaRx"})
        /\ UNCHANGED <<pc, moment, loopback, snap, then, unread, resets>>
    BY <1>6 DEF Broadcast
  <2>3. {"hostRx", "fpgaRx"} \in SUBSET Counters
    BY Names
  <2>4. sent' - lost' + others' =
          sent - lost + others + (IF "hostRx" \in {"hostRx", "fpgaRx"} THEN 1 ELSE 0)
    BY <1>y, <2>1
  <2>5. sent' # sent + 1 /\ sent' - lost' >= sent - lost /\ others' >= others
    BY <1>y, <2>1
  <2> QED BY <1>f, <1>y, <2>1, <2>2, <2>3, <2>4, <2>5
<1>7. CASE Reset
  <2>1. /\ pc \notin {"row", "quit"} /\ resets' = resets + 1 /\ loopback' = FALSE
        /\ count' = [count EXCEPT !["fpgaRx"] = 0, !["fpgaTx"] = 0]
        /\ UNCHANGED <<pc, moment, snap, passed, then, sent, lost, others, unread, wrapped>>
    BY <1>7 DEF Reset
  <2>2. Places' /\ Stage' = Stage /\ Own' = Own /\ Stage \in 0..10
    BY <1>k, <2>1 DEF Places, Stage, Own
  <2>3. /\ count' \in [Counters -> 0..(Uint64 - 1)]
        /\ \A k \in Fpga : count'[k] = 0
        /\ \A k \in HostSide : count'[k] = count[k]
    BY <1>c, <1>y, <2>1, Widths
  <2>4. resets' \in Nat /\ ~Undisturbed'
    BY <1>y, <2>1 DEF Undisturbed
  <2>5. TypeOK'
    <3>1. \A k \in Fpga : count'[k] < Uint40
      BY <2>3, Widths
    <3>2. loopback' \in BOOLEAN
      BY <2>1, Zenon
    <3> QED BY <1>t, <2>1, <2>3, <2>4, <3>1, <3>2 DEF TypeOK
  <2>6. \A k \in HostSide : Base(k)' = Base(k)
    BY <2>1, <2>2, <2>3 DEF Base
  <2>7. PassedTrue'
    BY <1>k, <2>1, <2>2, <2>6 DEF PassedTrue
  <2>8. HostReadings'
    <3>1. \A m \in Moments, k \in HostSide : Good(m, k) => Good(m, k)'
      BY <2>1, <2>6 DEF Good
    <3> HIDE DEF Good
    <3> QED BY <1>c, <1>k, <2>1, <2>2, <3>1 DEF HostReadings
  <2>9. FpgaReadings'
    <3>1. Stage >= 1 => Decoded("before") /\ \A k \in Fpga : then["before"][k] <= passed[k]
      BY <1>k, <2>1 DEF FpgaReadings
    <3>2. ASSUME Stage >= 1, NEW k \in Fpga PROVE Bounded(k, count[k], passed[k])'
      <4>1. /\ then["before"][k] <= passed[k] /\ then["before"][k] \in Nat /\ passed[k] \in Nat
            /\ snap["before"][k] \in Nat
        BY <1>c, <1>y, <3>1, <3>2
      <4>2. 0 <= snap["before"][k] + 1 + passed[k] - then["before"][k]
        BY <4>1
      <4> QED BY <2>1, <2>3, <2>4, <4>2 DEF Bounded, Allowed
    <3>3. Stage >= 1 => Decoded("before")' /\ \A k \in Fpga : then'["before"][k] <= passed'[k]
      BY <2>1, <3>1 DEF Decoded
    <3>4. Stage \in 1..10 => \A k \in Fpga : Bounded(k, count[k], passed[k])'
      BY <3>2
    <3> QED BY <2>2, <3>3, <3>4 DEF FpgaReadings
  <2> QED BY <2>2, <2>5, <2>7, <2>8, <2>9 DEF RowInv
<1>8. CASE UNCHANGED vars
  <2>1. UNCHANGED <<pc, moment, loopback, count, snap, passed, then, sent, lost, others, unread,
                    resets, wrapped>>
    BY <1>8 DEF vars, history
  <2>2. TypeOK' /\ Stage' = Stage /\ Own' = Own
    BY <1>t, <2>1 DEF TypeOK, Stage, Own
  <2> QED BY <1>k, <2>1, <2>2 DEF RowInv, Places, PassedTrue, HostReadings, FpgaReadings, Base,
             Good, Decoded, Bounded, Allowed, Undisturbed
<1> QED BY <1>1, <1>2, <1>3, <1>4, <1>5, <1>6, <1>7, <1>8 DEF Next

\* The invariant of the readings.
THEOREM RowInvariance == Spec => []RowInv
BY RowInit, RowNext, PTL DEF Spec

\* Every variable keeps its type.
THEOREM TypeCorrect == Spec => []TypeOK
<1>1. RowInv => TypeOK
  BY DEF RowInv
<1> QED BY <1>1, RowInvariance, PTL

-----------------------------------------------------------------------------
(* The row.                                                                *)

\* What is known when the row is computed.
LEMMA AtRow ==
  ASSUME RowInv, pc = "row"
  PROVE  /\ PassedTrue /\ HostReadings /\ FpgaReadings /\ Stage = 11
         /\ \A m \in Moments, k \in Counters :
              snap[m][k] \in 0..(Uint64 - 1) /\ snap[m][k] \in Nat /\ then[m][k] \in Nat
         /\ \A m \in Moments : unread[m] \in Nat
         /\ sent \in Nat /\ lost \in Nat /\ others \in Nat
<1>1. TypeOK /\ Places /\ PassedTrue /\ HostReadings /\ FpgaReadings
  BY DEF RowInv
<1>2. Stage = 11
  BY <1>1 DEF Places, Stage
<1> QED BY <1>1, <1>2, Types, Widths

\* The difference of a counter of the host: exact, or 0 if the last reading failed.
LEMMA HostDeltas ==
  ASSUME RowInv, pc = "row", NEW k \in HostSide
  PROVE  /\ Reported(k) = Delta(k) /\ Delta(k) \in 0..(Uint64 - 1) /\ True(k) \in Nat
         /\ unread["before"] = 0 => Delta(k) \in {True(k), 0}
         /\ unread["before"] = 0 /\ unread["after"] = 0 => Delta(k) = True(k)
<1> DEFINE b == snap["before"][k]
           a == snap["after"][k]
           tb == then["before"][k]
           ta == then["after"][k]
<1>k. k \in Counters /\ k \notin Fpga /\ k \in {"hostRx", "hostTx", "udpOut"}
      /\ "before" \in Moments /\ "after" \in Moments
  BY Names
<1>r. /\ PassedTrue /\ HostReadings /\ Stage = 11
      /\ sent \in Nat /\ lost \in Nat /\ others \in Nat
      /\ unread["before"] \in Nat /\ unread["after"] \in Nat
      /\ a \in 0..(Uint64 - 1) /\ b \in 0..(Uint64 - 1) /\ a \in Nat /\ b \in Nat
      /\ ta \in Nat /\ tb \in Nat
  BY <1>k, AtRow
<1>1. Reported(k) = Delta(k) /\ Delta(k) = IF a >= b THEN a - b ELSE 0
  BY <1>k, <1>r, Differences, Names DEF Reported, Delta
<1>2. Good("before", k) /\ Good("after", k)
  BY <1>k, <1>r DEF HostReadings
<1>3. tb <= ta
  <2>1. CASE k = "hostRx"
    <3>1. sent - lost + tb <= ta /\ lost <= sent
      BY <1>r, <2>1 DEF HostReadings, PassedTrue
    <3> QED BY <1>r, <3>1
  <2>2. CASE k \in {"hostTx", "udpOut"}
    BY <1>r, <2>2 DEF HostReadings
  <2> QED BY <1>k, <2>1, <2>2
<1>4. Base(k) \in Nat
  BY <1>r, Widths DEF PassedTrue
<1>5. /\ b = Base(k) + 1 + tb \/ (b = 0 /\ unread["before"] > 0)
      /\ a = Base(k) + 1 + ta \/ (a = 0 /\ unread["after"] > 0)
  BY <1>2 DEF Good
<1> HIDE DEF a, b, ta, tb
<1>6. unread["before"] = 0 => Delta(k) \in {ta - tb, 0}
  BY <1>1, <1>3, <1>4, <1>5, <1>r
<1>7. unread["before"] = 0 /\ unread["after"] = 0 => Delta(k) = ta - tb
  BY <1>1, <1>3, <1>4, <1>5, <1>r
<1>8. Delta(k) \in 0..(Uint64 - 1)
  BY <1>1, <1>r, Widths
<1>9. True(k) = ta - tb /\ True(k) \in Nat
  BY <1>3, <1>r DEF True, ta, tb
<1> QED BY <1>1, <1>6, <1>7, <1>8, <1>9

\* The difference of a counter of the FPGA: exact, or too small, or absurdly large.
LEMMA FpgaDeltas ==
  ASSUME RowInv, pc = "row", NEW k \in Fpga
  PROVE  /\ Reported(k) \in 0..(Uint64 - 1) /\ True(k) \in Nat
         /\ Reported(k) <= True(k) \/ Reported(k) >= Uint64 - Uint40
         /\ Undisturbed => Reported(k) = True(k)
<1> DEFINE b == snap["before"][k]
           a == snap["after"][k]
           t == True(k)
<1>k. k \in Counters /\ k \in {"fpgaRx", "fpgaTx"}
      /\ "before" \in Moments /\ "after" \in Moments
  BY Names
<1>r. /\ FpgaReadings /\ Stage = 11
      /\ a \in 0..(Uint64 - 1) /\ b \in 0..(Uint64 - 1) /\ a \in Nat /\ b \in Nat
      /\ then["after"][k] \in Nat /\ then["before"][k] \in Nat
  BY <1>k, AtRow
<1>1. Reported(k) = DeltaU64(Minus(a, 1), b)
  BY <1>k DEF Reported, FpgaRxGoodDelta, FpgaTxGoodDelta
<1>2. Minus(a, 1) = IF a >= 1 THEN a - 1 ELSE Uint64 - 1
  <2>1. 1 \in 0..(Uint64 - 1)
    BY Widths
  <2>2. Minus(a, 1) = IF a >= 1 THEN a - 1 ELSE a - 1 + Uint64
    BY <1>r, <2>1, Differences
  <2> QED BY <1>r, <2>2, Widths
<1>3. Minus(a, 1) \in 0..(Uint64 - 1)
  BY <1>r, <1>2, Widths
<1>4. Reported(k) = IF Minus(a, 1) >= b THEN Minus(a, 1) - b ELSE 0
  BY <1>1, <1>3, <1>r, Differences
<1>5. t \in Nat /\ t = then["after"][k] - then["before"][k]
  BY <1>r DEF FpgaReadings, True
<1>6. \/ a <= b + 1 + t /\ (Undisturbed => a = b + 1 + t)
      \/ k = "fpgaRx" /\ a = Uint64 - 1 /\ ~Undisturbed
  <2>1. \/ Bounded(k, a, then["after"][k])
        \/ k = "fpgaRx" /\ a = Underflow /\ ~Undisturbed
    BY <1>r DEF FpgaReadings
  <2>2. Allowed(k, then["after"][k]) = b + 1 + t
    BY <1>5, <1>r DEF Allowed
  <2> QED BY <2>1, <2>2 DEF Bounded, Underflow
<1>7. /\ b <= Uint40 - 1 \/ (k = "fpgaRx" /\ b = Uint64 - 1)
      /\ k = "fpgaRx" => b <= Uint40 - 2 \/ b = Uint64 - 1
  BY <1>k, <1>r, Widths DEF FpgaReadings, Decoded, Underflow
<1> HIDE DEF a, b, t
<1>w. Uint64 \in Nat /\ Uint40 \in Nat /\ 4 * Uint40 <= Uint64 /\ Uint40 >= 1
  BY Widths
<1>8. Reported(k) <= t \/ Reported(k) >= Uint64 - Uint40
  <2>1. CASE a = 0
    BY <1>2, <1>4, <1>5, <1>7, <1>r, <1>w, <2>1
  <2>2. CASE a >= 1 /\ a <= b + 1 + t
    BY <1>2, <1>4, <1>5, <1>r, <2>2
  <2>3. CASE k = "fpgaRx" /\ a = Uint64 - 1
    BY <1>2, <1>4, <1>5, <1>7, <1>r, <1>w, <2>3
  <2> QED BY <1>6, <1>r, <2>1, <2>2, <2>3
<1>9. Undisturbed => Reported(k) = t
  BY <1>2, <1>4, <1>5, <1>6, <1>r
<1>10. Reported(k) \in 0..(Uint64 - 1)
  BY <1>3, <1>4, <1>r, <1>w
<1> QED BY <1>5, <1>8, <1>9, <1>10 DEF t

\* Whatever passes the counters between two readings, the row shows how much it was,
\* provided that the files could be read and the counters of the FPGA were neither reset
\* nor wrapped around (append_loopback_loss_csv).
THEOREM ExactRow == Spec => []RowIsExact
<1>1. RowInv => RowIsExact
  <2> SUFFICES ASSUME RowInv, pc = "row", NoneUnread, NEW k \in Counters,
                      k \in Fpga => resets = 0 /\ ~wrapped
               PROVE  Reported(k) = True(k)
    BY DEF RowIsExact
  <2>1. CASE k \in Fpga
    BY <2>1, FpgaDeltas DEF Undisturbed
  <2>2. CASE k \in HostSide
    <3>1. unread["before"] = 0 /\ unread["after"] = 0
      BY Names DEF NoneUnread
    <3> QED BY <2>2, <3>1, HostDeltas
  <2> QED BY <2>1, <2>2, Names
<1> QED BY <1>1, RowInvariance, PTL

\* No reset, wrap or failed reading invents frames that could be taken for real ones
\* (delta_u64), nor changes what is measured for the throughput (read_iface_tx_snapshot).
THEOREM InventionShows == Spec => []InventedFramesShow
<1>1. RowInv => InventedFramesShow
  <2> SUFFICES ASSUME RowInv, pc = "row"
               PROVE  /\ unread["before"] = 0 =>
                           \A k \in Counters :
                             Reported(k) <= True(k) \/ Reported(k) >= Uint64 - Uint40
                      /\ unread["start"] = 0 => Measured = sent
    BY DEF InventedFramesShow
  <2>1. ASSUME unread["before"] = 0, NEW k \in Counters
        PROVE  Reported(k) <= True(k) \/ Reported(k) >= Uint64 - Uint40
    <3>1. CASE k \in Fpga
      BY <3>1, FpgaDeltas
    <3>2. CASE k \in HostSide
      <4>1. Reported(k) \in {True(k), 0} /\ True(k) \in Nat
        BY <2>1, <3>2, HostDeltas
      <4> QED BY <4>1
    <3> QED BY <3>1, <3>2, Names
  <2>2. ASSUME unread["start"] = 0
        PROVE  Measured = sent
    <3> DEFINE start == snap["start"]["hostTx"]
               end == snap["end"]["hostTx"]
    <3>1. /\ Good("start", "hostTx") /\ then["start"]["hostTx"] = 0
          /\ Good("end", "hostTx") /\ then["end"]["hostTx"] = sent
      BY AtRow DEF HostReadings
    <3>2. Base("hostTx") \in Nat /\ sent \in Nat
      BY AtRow, Names, Widths DEF PassedTrue
    <3>3. /\ start = Base("hostTx") + 1
          /\ end = Base("hostTx") + 1 + sent \/ end = 0
      BY <2>2, <3>1, <3>2 DEF Good
    <3>4. Measured = IF end >= start THEN end - start ELSE sent
      BY DEF Measured
    <3> HIDE DEF start, end
    <3> QED BY <3>2, <3>3, <3>4
  <2> QED BY <2>1, <2>2
<1> QED BY <1>1, RowInvariance, PTL

\* Whatever happens to the counters of the FPGA, the three gaps add up to the packets
\* lost, less what other stations sent meanwhile (append_loopback_loss_csv).
THEOREM ResetMisplaces == Spec => []ResetOnlyMisplaces
<1>1. RowInv => ResetOnlyMisplaces
  <2> SUFFICES ASSUME RowInv, pc = "row", NoneUnread
               PROVE  HostTxToFpgaRxGap + FpgaRxToTxGap + FpgaTxToHostRxGap
                        \in (lost - others)..lost
    BY DEF ResetOnlyMisplaces
  <2> DEFINE tx == Reported("hostTx")
             rx == Reported("hostRx")
             fr == Signed(FpgaRxGoodDelta)
             ft == Signed(FpgaTxGoodDelta)
  <2>n. /\ {"hostTx", "hostRx"} \subseteq HostSide /\ {"fpgaRx", "fpgaTx"} = Fpga
        /\ {"hostTx", "hostRx"} \subseteq Counters /\ "before" \in Moments /\ "after" \in Moments
    BY Names
  <2>1. fr \in Int /\ ft \in Int
    <3>1. FpgaRxGoodDelta \in 0..(Uint64 - 1) /\ FpgaTxGoodDelta \in 0..(Uint64 - 1)
      BY <2>n, FpgaDeltas DEF Reported
    <3> QED BY <3>1, Signs
  <2>2. unread["before"] = 0 /\ unread["after"] = 0
    BY Names DEF NoneUnread
  <2>3. /\ tx = True("hostTx") /\ tx \in 0..(Uint64 - 1)
        /\ rx = True("hostRx") /\ rx \in 0..(Uint64 - 1)
    BY <2>2, <2>n, HostDeltas
  <2>4. /\ sent <= Packets /\ others <= Background /\ lost <= sent
        /\ sent \in Nat /\ lost \in Nat /\ others \in Nat
        /\ then["before"]["hostRx"] \in Nat /\ then["after"]["hostRx"] \in Nat
        /\ then["before"]["hostTx"] = 0 /\ then["after"]["hostTx"] = sent
        /\ sent - lost + then["before"]["hostRx"] <= then["after"]["hostRx"]
        /\ then["after"]["hostRx"] <= sent - lost + others
    BY <2>n, AtRow DEF PassedTrue, HostReadings
  <2>5. /\ True("hostTx") = sent
        /\ True("hostRx") = then["after"]["hostRx"] - then["before"]["hostRx"]
    BY <2>4 DEF True
  <2>6. tx = sent /\ rx >= sent - lost /\ rx <= sent - lost + others
    BY <2>3, <2>4, <2>5
  <2>7. Signed(tx) = tx /\ Signed(rx) = rx
    <3>1. tx < Uint64 \div 2 /\ rx < Uint64 \div 2
      BY <2>4, <2>3, <2>6, Widths
    <3> QED BY <2>3, <3>1, Signs
  <2>8. /\ HostTxToFpgaRxGap = Signed(tx) - fr /\ FpgaRxToTxGap = fr - ft
        /\ FpgaTxToHostRxGap = ft - Signed(rx)
    BY DEF HostTxToFpgaRxGap, FpgaRxToTxGap, FpgaTxToHostRxGap, Gap
  <2> HIDE DEF tx, rx, fr, ft
  <2>9. tx \in Int /\ rx \in Int
    BY <2>3, Widths
  <2>10. HostTxToFpgaRxGap + FpgaRxToTxGap + FpgaTxToHostRxGap = tx - rx
    BY <2>1, <2>7, <2>8, <2>9
  <2> QED BY <2>4, <2>6, <2>9, <2>10
<1> QED BY <1>1, RowInvariance, PTL
=============================================================================
