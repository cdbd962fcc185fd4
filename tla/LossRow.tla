------------------------------- MODULE LossRow -------------------------------
(***************************************************************************)
(* The counters behind the row of losses of "fpga-loopback-test": how they *)
(* are read, and the arithmetic of append_loopback_loss_csv on them.  The  *)
(* interface has a file per counter (iface_stats.c), read one after the    *)
(* other; one that cannot be read counts as 0.  /proc/net/snmp is read as  *)
(* a whole or the command gives up (net_stats.c).  The FPGA sends frame    *)
(* counters of 40 bits that start at 0 with every reset, and wrap around;  *)
(* they go into a uint64_t (fpga_stats.c), and so do the differences.      *)
(* LoopbackTest has the test itself; here only what passes the counters,   *)
(* while the FPGA may be reset and readings may fail.                      *)
(***************************************************************************)
EXTENDS Integers

CONSTANTS
  Uint64,      \* scaled: 2^64
  Uint40,      \* scaled: 2^40
  FirstCounts,    \* what the counters of the FPGA may stand at before the test
  HostCounts,     \* and those of the interface
  Packets,     \* bound: packets of the test
  Background,  \* bound: frames of other stations
  Resets,      \* bound: resets of the FPGA during the test
  Unreadables  \* bound: counters of the interface that cannot be read

ASSUME WidthAssumption ==
  /\ {Uint64, Uint40} \subseteq Nat \ {0} /\ Uint64 % 2 = 0
  /\ 4 * Uint40 <= Uint64
  /\ FirstCounts \subseteq 0..(Uint40 - 1)
  /\ {Packets, Background, Resets, Unreadables} \subseteq Nat

\* A counter of 64 bits does not come to its end.
ASSUME HostAssumption ==
  /\ HostCounts \subseteq Nat
  /\ \A n \in HostCounts \cup {0} : n + 2 + Packets + Background < Uint64
  /\ Packets + Background < Uint64 \div 2

Host == {"hostRx", "hostTx"}     \* rx_packets and tx_packets of the interface
Fpga == {"fpgaRx", "fpgaTx"}     \* rx_fifo_good_frame and tx_fifo_good_frame
Counters == Host \cup Fpga \cup {"udpOut"}
\* The snapshots around the test, and those of tx_packets that the load test takes
\* itself (read_iface_tx_snapshot).
Moments == {"before", "start", "end", "after"}

VARIABLES
  pc,         \* the reading or step main.c is at
  moment,     \* the snapshot that is being taken
  loopback,   \* the loopback bit of the FPGA
  count,      \* the counters
  snap,       \* the values the program has of them
  passed,     \* history: frames that passed each counter, status frames apart
  then,       \* history: "passed" when the counter was read
  sent, lost,    \* history: packets of the test sent; those lost
  others,     \* history: frames of other stations
  unread,     \* history: readings of the interface that failed, by moment
  resets,     \* history: resets of the FPGA
  wrapped     \* history: a counter of the FPGA wrapped around

history == <<passed, then, sent, lost, others, unread, resets, wrapped>>
vars == <<pc, moment, loopback, count, snap, history>>

TypeOK ==
  /\ pc \in {"fpga", "rx", "tx", "snmp", "test", "row", "quit"}
  /\ moment \in Moments
  /\ loopback \in BOOLEAN
  /\ count \in [Counters -> 0..(Uint64 - 1)] /\ \A k \in Fpga : count[k] < Uint40
  /\ snap \in [Moments -> [Counters -> 0..(Uint64 - 1)]]
  /\ passed \in [Counters -> Nat]
  /\ then \in [Moments -> [Counters -> Nat]]
  /\ {sent, lost, others, resets} \subseteq Nat
  /\ unread \in [Moments -> 0..Unreadables]
  /\ wrapped \in BOOLEAN

Zero == [k \in Counters |-> 0]

Init ==
  /\ pc = "fpga" /\ moment = "before"
  /\ loopback = TRUE
  /\ count \in [Counters -> HostCounts \cup FirstCounts \cup {0}]
  /\ count["udpOut"] = 0
  /\ \A k \in Host : count[k] \in HostCounts
  /\ \A k \in Fpga : count[k] \in FirstCounts
  /\ snap = [s \in Moments |-> Zero]
  /\ passed = Zero /\ then = [s \in Moments |-> Zero]
  /\ sent = 0 /\ lost = 0 /\ others = 0
  /\ unread = [s \in Moments |-> 0]
  /\ resets = 0 /\ wrapped = FALSE

-----------------------------------------------------------------------------
(* Arithmetic                                                              *)

Width(k) == IF k \in Fpga THEN Uint40 ELSE Uint64
Minus(a, b) == (a - b) % Uint64                             \* of uint64_t
Signed(a) == IF a < Uint64 \div 2 THEN a ELSE a - Uint64    \* (int64_t)

\* Mutant: the smaller value is taken from the larger, whichever it is.
MutDeltaU64(after, before) == IF after >= before THEN after - before ELSE before - after

DeltaU64(after, before) == IF after >= before THEN Minus(after, before) ELSE 0

\* Mutant: gaps are clamped as differences are.
MutGap(a, b) == DeltaU64(a, b)

Gap(a, b) == Signed(a) - Signed(b)

-----------------------------------------------------------------------------
(* Readings                                                                *)

Step(from, to) == pc = from /\ pc' = to

\* The counters with frames added to those named.
Plus(c, names) == [k \in Counters |-> IF k \in names THEN (c[k] + 1) % Width(k) ELSE c[k]]
Wraps(names) == \E k \in names : count[k] + 1 = Width(k)

\* Mutant: signed arithmetic for the request that is taken off.
MutDecode(c) == [rx |-> c["fpgaRx"] - 1, tx |-> c["fpgaTx"]]

\* parse_fpga_status_frame, on the two counters: the request is taken off again.
Decode(c) == [rx |-> Minus(c["fpgaRx"], 1), tx |-> c["fpgaTx"]]

Stored(k, value) == snap' = [snap EXCEPT ![moment][k] = value]
Noted(ks) ==
  then' = [then EXCEPT ![moment] = [k \in Counters |-> IF k \in ks THEN passed[k] ELSE @[k]]]

\* log_fpga_stats_snapshot: the request is counted before the frame is made up, the
\* answer after.
ReadFpga ==
  /\ Step("fpga", IF moment = "before" THEN "rx" ELSE "row")
  /\ LET asked == Plus(count, {"hostTx", "fpgaRx", "udpOut"})
         frame == Decode(asked)
     IN /\ count' = Plus(asked, {"fpgaTx", "hostRx"})
        /\ snap' = [snap EXCEPT ![moment]["fpgaRx"] = frame.rx,
                                ![moment]["fpgaTx"] = frame.tx]
  /\ Noted(Fpga)
  /\ wrapped' = (wrapped \/ Wraps(Fpga))
  /\ UNCHANGED <<moment, loopback, passed, sent, lost, others, unread, resets>>

\* read_uint64_file for a counter of the interface: a failure leaves the 0 of memset.
ReadFile(k) ==
  \/ Stored(k, count[k]) /\ UNCHANGED unread
  \/ /\ unread["before"] + unread["start"] + unread["end"] + unread["after"] < Unreadables
     /\ Stored(k, 0)
     /\ unread' = [unread EXCEPT ![moment] = @ + 1]

\* read_iface_stats: rx_packets, then tx_packets.
ReadIface ==
  /\ \/ /\ Step("rx", "tx") /\ ReadFile("hostRx") /\ Noted({"hostRx"})
        /\ UNCHANGED moment
     \/ /\ moment \in {"before", "after"}
        /\ Step("tx", "snmp") /\ ReadFile("hostTx") /\ Noted({"hostTx"})
        /\ UNCHANGED moment
  /\ UNCHANGED <<loopback, count, passed, sent, lost, others, resets, wrapped>>

\* read_iface_tx_snapshot, at both ends of the load test.
ReadTx ==
  /\ \/ moment = "start" /\ Step("tx", "test") /\ UNCHANGED moment
     \/ moment = "end" /\ Step("tx", "rx") /\ moment' = "after"
  /\ ReadFile("hostTx") /\ Noted({"hostTx"})
  /\ UNCHANGED <<loopback, count, passed, sent, lost, others, resets, wrapped>>

\* read_net_stats: OutDatagrams and the rest.
ReadSnmp ==
  /\ \/ moment = "before" /\ Step("snmp", "tx") /\ moment' = "start"
     \/ moment = "after" /\ Step("snmp", "fpga") /\ UNCHANGED moment
  /\ Stored("udpOut", count["udpOut"])
  /\ Noted({"udpOut"})
  /\ UNCHANGED <<loopback, count, passed, sent, lost, others, unread, resets, wrapped>>

\* The packets are sent, and what came back is drained.
TestEnds ==
  /\ Step("test", "tx")
  /\ moment' = "end"
  /\ UNCHANGED <<loopback, count, snap, history>>

\* No status frame, no Ip or Udp values, or a log that cannot be written.
Quit ==
  /\ pc \in {"fpga", "snmp"}
  /\ pc' = "quit"
  /\ UNCHANGED <<moment, loopback, count, snap, history>>

-----------------------------------------------------------------------------
(* What passes the counters; external.                                     *)

Frame(names) ==
  /\ count' = Plus(count, names)
  /\ passed' = [k \in Counters |-> IF k \in names THEN passed[k] + 1 ELSE passed[k]]
  /\ wrapped' = (wrapped \/ Wraps(names \cap Fpga))

\* A packet of the test: echoed, or lost on the way, in the FPGA or on the way back.
Packet ==
  /\ pc = "test"
  /\ sent < Packets
  /\ sent' = sent + 1
  /\ \/ loopback /\ Frame(Counters) /\ UNCHANGED lost
     \/ /\ \/ Frame({"hostTx", "udpOut"})
           \/ Frame({"hostTx", "udpOut", "fpgaRx"})
           \/ loopback /\ Frame({"hostTx", "udpOut", "fpgaRx", "fpgaTx"})
        /\ lost' = lost + 1
  /\ UNCHANGED <<pc, moment, loopback, snap, then, others, unread, resets>>

Broadcast ==
  /\ pc \notin {"row", "quit"}
  /\ others < Background
  /\ others' = others + 1
  /\ Frame({"hostRx", "fpgaRx"})
  /\ UNCHANGED <<pc, moment, loopback, snap, then, sent, lost, unread, resets>>

\* The FPGA is reset: counters and modes are.
Reset ==
  /\ pc \notin {"row", "quit"}
  /\ resets < Resets
  /\ resets' = resets + 1
  /\ count' = [count EXCEPT !["fpgaRx"] = 0, !["fpgaTx"] = 0]
  /\ loopback' = FALSE
  /\ UNCHANGED <<pc, moment, snap, passed, then, sent, lost, others, unread, wrapped>>

Next ==
  \/ ReadFpga \/ ReadIface \/ ReadTx \/ ReadSnmp \/ TestEnds \/ Quit
  \/ Packet \/ Broadcast \/ Reset

Spec == Init /\ [][Next]_vars

-----------------------------------------------------------------------------
(* The row, as append_loopback_loss_csv computes it.                       *)

Delta(k) == DeltaU64(snap["after"][k], snap["before"][k])

\* The status frame is taken off the counters of the FPGA.
FpgaRxGoodDelta == DeltaU64(Minus(snap["after"]["fpgaRx"], 1), snap["before"]["fpgaRx"])
\* Mutant: the answer to the first snapshot is left in.
MutFpgaTxGoodDelta == DeltaU64(snap["after"]["fpgaTx"], snap["before"]["fpgaTx"])
FpgaTxGoodDelta == DeltaU64(Minus(snap["after"]["fpgaTx"], 1), snap["before"]["fpgaTx"])

Reported(k) ==
  CASE k = "fpgaRx" -> FpgaRxGoodDelta
    [] k = "fpgaTx" -> FpgaTxGoodDelta
    [] OTHER -> Delta(k)

\* measured_tx_packets of the row of throughput.
Measured ==
  LET start == snap["start"]["hostTx"]
      end == snap["end"]["hostTx"]
  IN IF end >= start THEN end - start ELSE sent

HostTxToFpgaRxGap == Gap(Reported("hostTx"), FpgaRxGoodDelta)
FpgaRxToTxGap == Gap(FpgaRxGoodDelta, FpgaTxGoodDelta)
FpgaTxToHostRxGap == Gap(FpgaTxGoodDelta, Reported("hostRx"))

-----------------------------------------------------------------------------
(* Properties.                                                             *)

\* Frames that passed a counter between its two readings.
True(k) == then["after"][k] - then["before"][k]

NoneUnread == unread = [s \in Moments |-> 0]

\* Whatever the counters stood at and whatever passes between two readings, a
\* difference of the row is the number of frames that passed the counter between its
\* readings; a counter of the FPGA counts no status frame.  Unless the FPGA was reset
\* or its counter wrapped, or a file could not be read.
RowIsExact ==
  pc = "row" /\ NoneUnread =>
    \A k \in Counters :
      (k \in Fpga => resets = 0 /\ ~wrapped) => Reported(k) = True(k)

\* Frames are never invented unnoticed: after a reset, at any moment, or with a
\* counter wrapped, or a final one unread, a difference is too small, or absurdly
\* large where a counter of 0 had the status frame taken off.  Only a counter of the
\* interface that could not be read before the test shows all it ever counted; and the
\* packets measured for the throughput are those sent unless the first reading of the
\* load test failed.
InventedFramesShow ==
  pc = "row" =>
    /\ unread["before"] = 0 =>
         \A k \in Counters : Reported(k) <= True(k) \/ Reported(k) >= Uint64 - Uint40
    /\ unread["start"] = 0 => Measured = sent

\* A reset of the FPGA, or a counter of it that wraps, moves losses from one segment
\* of the row to another: the three gaps still add up to the packets lost, less
\* what other stations sent meanwhile.
ResetOnlyMisplaces ==
  pc = "row" /\ NoneUnread =>
    HostTxToFpgaRxGap + FpgaRxToTxGap + FpgaTxToHostRxGap \in (lost - others)..lost
=============================================================================
