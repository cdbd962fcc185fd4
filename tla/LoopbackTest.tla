---------------------------- MODULE LoopbackTest ----------------------------
(***************************************************************************)
(* "etherbench fpga-loopback-test" (main.c) around fpga_loopback_load_test *)
(* (fpga_loopback_load.c): enable loopback, read the counters of the FPGA  *)
(* and of the host, send the packets while draining the echoes, drain      *)
(* until quiet, read the counters again, disable loopback, and write one   *)
(* row of throughput and one row of losses.  The losses of each segment    *)
(* are differences of four counters read at four different moments; this   *)
(* module keeps the true losses beside them.                               *)
(***************************************************************************)
EXTENDS Integers

CONSTANTS
  PacketCount,   \* packets asked for on the command line
  DrainEvery,    \* LOOPBACK_DRAIN_EVERY_N_PACKETS
  QuietTime,     \* quiet_time_ms, in polls of drain_rx_socket_until_quiet
  MaxWait,       \* max_wait_ms, in the same polls
  SocketRoom,    \* packets the receive buffer of the draining socket holds
  FaultBudget,   \* bound: losses, send errors and unasked-for frames per run
  Flood,         \* the FPGA was left in flood mode: it sends without bound
  CountCap       \* bound: where counters stop when the FPGA floods; 0: nowhere

ASSUME BudgetAssumption ==
  /\ {PacketCount, DrainEvery, QuietTime, MaxWait, SocketRoom} \subseteq Nat \ {0}
  /\ {FaultBudget, CountCap} \subseteq Nat
  /\ Flood \in BOOLEAN

Promise == INSTANCE TestOutcomes

Call == INSTANCE LoopbackSwitch WITH
  mode <- FALSE, busy <- FALSE, asked <- FALSE, outcome <- "none"

VARIABLES
  pc,          \* the step main.c is at
  loopback,    \* the loopback bit of the FPGA
  i,           \* index of the packet to send next
  sent, errors, drained,    \* sent_packets, send_errors, drained_packets
  quiet, total,             \* the two clocks of the last drain, in polls
  up, down,    \* packets in flight to the FPGA, and back
  queue,       \* packets queued on the draining socket
  count,       \* the counters of the interface and of the FPGA
  snap,        \* the four snapshots taken of them
  lost,        \* history: packets that truly disappeared, by place
  foreign,     \* history: broadcast frames of other stations
  unasked,     \* history: packets the FPGA sent of itself
  late,        \* history: the last drain ended before the last packet
  rows,        \* the logs that have this run's row
  exit         \* the exit status: "none", "ok" or "error"

others == <<foreign, unasked>>
transfer == <<i, sent, errors, drained, quiet, total, queue>>
vars == <<pc, loopback, transfer, up, down, count, snap, lost, others, late, rows, exit>>

Counters == {"hostTx", "hostRx", "fpgaRx", "fpgaTx"}
Snapshots == {"fpga0", "host0", "host1", "fpga1"}
Places == {"toFpga", "inFpga", "toHost", "socket"}

Bump(n) == IF CountCap = 0 \/ n < CountCap THEN n + 1 ELSE n

\* Count one more on each of the counters named.
Counted(names) == [k \in Counters |-> IF k \in names THEN Bump(count[k]) ELSE count[k]]
Faults == errors + foreign + unasked + lost["toFpga"] + lost["inFpga"] + lost["toHost"]

Init ==
  /\ pc = "enable"
  /\ loopback \in BOOLEAN
  /\ i = 0 /\ sent = 0 /\ errors = 0 /\ drained = 0
  /\ quiet = 0 /\ total = 0
  /\ up = 0 /\ down = 0 /\ queue = 0
  /\ count = [k \in Counters |-> 0]
  /\ snap = [s \in Snapshots |-> count]
  /\ lost = [p \in Places |-> 0]
  /\ foreign = 0 /\ unasked = 0
  /\ late = FALSE
  /\ rows = {}
  /\ exit = "none"

-----------------------------------------------------------------------------
(* main.c                                                                  *)

\* "return 1", "return -1": the command is over, whatever it left undone.
Quit ==
  /\ pc' = "exit"
  /\ exit' = "error"

Enable ==
  /\ pc = "enable"
  /\ \E o \in Call!CallOutcomes(loopback, TRUE) :
       /\ loopback' = o[2]
       /\ IF o[1] = "ok" THEN pc' = "fpga0" /\ exit' = exit ELSE Quit
  /\ UNCHANGED <<transfer, up, down, count, snap, lost, others, late, rows>>

\* Mutant: the request is taken off once more.
MutFpgaSnapshot(s) ==
  /\ LET atFpga == [count EXCEPT !["fpgaRx"] = Bump(@)]
     IN snap' = [snap EXCEPT ![s] = [atFpga EXCEPT !["fpgaRx"] = @ - 2]]
  /\ count' = Counted(Counters)
  /\ pc' = IF s = "fpga0" THEN "host0" ELSE "disable"
  /\ UNCHANGED exit

\* log_fpga_stats_snapshot.  The FPGA counts the request before it answers and
\* the answer after; parse_fpga_status_frame takes the request off again.
FpgaSnapshot(s) ==
  \/ /\ LET atFpga == [count EXCEPT !["fpgaRx"] = Bump(@)]
        IN snap' = [snap EXCEPT ![s] = [atFpga EXCEPT !["fpgaRx"] = @ - 1]]
     /\ count' = Counted(Counters)
     /\ pc' = IF s = "fpga0" THEN "host0" ELSE "disable"
     /\ UNCHANGED exit
  \/ /\ Quit
     /\ UNCHANGED <<count, snap>>

SnapshotFpga ==
  /\ pc \in {"fpga0", "fpga1"}
  /\ FpgaSnapshot(pc)
  /\ UNCHANGED <<loopback, transfer, up, down, lost, others, late, rows>>

\* Mutant: the final counters land in the initial snapshot.
MutSnapshotHost ==
  /\ pc \in {"host0", "host1"}
  /\ snap' = [snap EXCEPT !["host0"] = count]
  /\ pc' = IF pc = "host0" THEN "open" ELSE "fpga1"
  /\ UNCHANGED <<loopback, transfer, up, down, count, lost, others, late, exit, rows>>

\* log_host_stats_snapshot: reads the counters, fails if a log cannot be written.
SnapshotHost ==
  /\ pc \in {"host0", "host1"}
  /\ \/ /\ snap' = [snap EXCEPT ![pc] = count]
        /\ pc' = IF pc = "host0" THEN "open" ELSE "fpga1"
        /\ UNCHANGED exit
     \/ Quit /\ UNCHANGED snap
  /\ UNCHANGED <<loopback, transfer, up, down, count, lost, others, late, rows>>

\* Mutant: a call that fails is only warned about.
MutDisable ==
  /\ pc = "disable"
  /\ \E o \in Call!CallOutcomes(loopback, FALSE) : loopback' = o[2]
  /\ pc' = "loadrow"
  /\ UNCHANGED <<transfer, up, down, count, snap, lost, others, late, exit, rows>>

Disable ==
  /\ pc = "disable"
  /\ \E o \in Call!CallOutcomes(loopback, FALSE) :
       /\ loopback' = o[2]
       /\ IF o[1] = "ok" THEN pc' = "loadrow" /\ exit' = exit ELSE Quit
  /\ UNCHANGED <<transfer, up, down, count, snap, lost, others, late, rows>>

\* append_fpga_loopback_load_csv, then append_loopback_loss_csv.
WriteRow ==
  /\ pc \in {"loadrow", "lossrow"}
  /\ \/ pc = "loadrow" /\ pc' = "lossrow" /\ rows' = rows \cup {"load"}
        /\ UNCHANGED exit
     \/ pc = "lossrow" /\ pc' = "exit" /\ rows' = rows \cup {"loss"}
        /\ exit' = "ok"
     \/ Quit /\ UNCHANGED rows
  /\ UNCHANGED <<loopback, transfer, up, down, count, snap, lost, others, late>>

-----------------------------------------------------------------------------
(* fpga_loopback_load_test                                                 *)

\* Sockets and payload; any of them may fail (the port is bound exclusively).
OpenSockets ==
  /\ pc = "open"
  /\ \/ pc' = "send" /\ UNCHANGED exit
     \/ Quit
  /\ UNCHANGED <<loopback, transfer, up, down, count, snap, lost, others, late, rows>>

\* Mutant: what a drain returns replaces what earlier ones did.
MutSendPacket ==
  /\ pc = "send"
  /\ i < PacketCount
  /\ i' = i + 1
  /\ sent' = sent + 1
  /\ up' = up + 1
  /\ count' = Counted({"hostTx"})
  /\ IF i % DrainEvery = 0 THEN pc' = "inner" /\ drained' = 0
                           ELSE UNCHANGED <<pc, drained>>
  /\ UNCHANGED <<loopback, errors, quiet, total, queue, down, snap, lost, others,
                 late, exit, rows>>

\* One turn of the send loop; every DrainEvery packets drain_rx_socket is called.
SendPacket ==
  /\ pc = "send"
  /\ i < PacketCount
  /\ i' = i + 1
  /\ \/ /\ sent' = sent + 1
        /\ up' = up + 1
        /\ count' = Counted({"hostTx"})
        /\ pc' = IF i % DrainEvery = 0 THEN "inner" ELSE "send"
        /\ UNCHANGED errors
     \/ /\ Faults < FaultBudget
        /\ errors' = errors + 1
        /\ UNCHANGED <<pc, sent, up, count>>
  /\ UNCHANGED <<loopback, drained, queue, quiet, total, down, snap, lost, others,
                 late, exit, rows>>

\* One turn of drain_rx_socket, which returns when nothing is queued.
DrainInner ==
  /\ pc = "inner"
  /\ IF queue > 0
       THEN queue' = queue - 1 /\ drained' = Bump(drained) /\ UNCHANGED pc
       ELSE pc' = "send" /\ UNCHANGED <<queue, drained>>
  /\ UNCHANGED <<loopback, i, sent, errors, quiet, total, up, down, count, snap,
                 lost, others, late, exit, rows>>

\* The last pacing wait is over: drain_rx_socket_until_quiet starts.
SendLoopEnds ==
  /\ pc = "send"
  /\ i = PacketCount
  /\ pc' = "drain"
  /\ UNCHANGED <<loopback, transfer, up, down, count, snap, lost, others, late, exit, rows>>

\* A packet was queued: the quiet clock starts again, the total one stands.
DrainPacket ==
  /\ pc = "drain"
  /\ total < MaxWait
  /\ queue > 0
  /\ queue' = queue - 1
  /\ drained' = Bump(drained)
  /\ quiet' = 0
  /\ UNCHANGED <<pc, loopback, i, sent, errors, total, up, down, count, snap,
                 lost, others, late, exit, rows>>

\* Mutant: the clocks stand still while nothing is queued.
MutDrainPoll ==
  /\ pc = "drain"
  /\ queue = 0
  /\ UNCHANGED vars

\* Nothing was queued: both clocks advance.
DrainPoll ==
  /\ pc = "drain"
  /\ total < MaxWait
  /\ queue = 0
  /\ quiet' = quiet + 1
  /\ total' = total + 1
  /\ IF quiet' >= QuietTime \/ total' >= MaxWait
       THEN pc' = "host1" /\ late' = (up + down > 0)
       ELSE UNCHANGED <<pc, late>>
  /\ UNCHANGED <<loopback, i, sent, errors, drained, queue, up, down, count, snap,
                 lost, others, exit, rows>>

\* recvfrom fails: the drain ends with whatever is still queued or under way.
DrainFails ==
  /\ \/ pc = "inner" /\ pc' = "send" /\ UNCHANGED late
     \/ pc = "drain" /\ pc' = "host1" /\ late' = (up + down + queue > 0)
  /\ UNCHANGED <<loopback, transfer, up, down, count, snap, lost, others, exit, rows>>

Host ==
  \/ Enable \/ SnapshotFpga \/ SnapshotHost \/ Disable \/ WriteRow
  \/ OpenSockets \/ SendPacket \/ DrainInner \/ SendLoopEnds \/ DrainPacket \/ DrainPoll

-----------------------------------------------------------------------------
(* The wire and the FPGA: external, known by how main.c reads the counters. *)

SocketOpen == pc \in {"send", "inner", "drain"}

\* A frame for the local port reaches the interface: it is queued if the
\* draining socket is open and has room.
HostReceives ==
  /\ IF SocketOpen /\ queue < SocketRoom
       THEN queue' = queue + 1 /\ UNCHANGED lost
       ELSE queue' = queue /\ lost' = [lost EXCEPT !["socket"] = Bump(@)]

Lose(place) ==
  /\ Faults < FaultBudget
  /\ lost' = [lost EXCEPT ![place] = @ + 1]

\* A packet is lost on the way, dropped inside the FPGA, or sent back.
PacketAtFpga ==
  /\ up > 0
  /\ up' = up - 1
  /\ \/ Lose("toFpga") /\ UNCHANGED <<down, count>>
     \/ Lose("inFpga") /\ count' = Counted({"fpgaRx"}) /\ UNCHANGED down
     \/ /\ ~loopback
        /\ lost' = [lost EXCEPT !["inFpga"] = @ + 1]
        /\ count' = Counted({"fpgaRx"})
        /\ UNCHANGED down
     \/ /\ loopback
        /\ count' = Counted({"fpgaRx", "fpgaTx"})
        /\ down' = down + 1
        /\ UNCHANGED lost
  /\ UNCHANGED <<pc, loopback, transfer, snap, others, late, exit, rows>>

PacketAtHost ==
  /\ down > 0
  /\ down' = down - 1
  /\ \/ Lose("toHost") /\ UNCHANGED <<count, queue>>
     \/ HostReceives /\ count' = Counted({"hostRx"})
  /\ UNCHANGED <<pc, loopback, i, sent, errors, drained, quiet, total, up, snap,
                 others, late, exit, rows>>

\* Another station broadcasts: the FPGA and the host both count the frame.
Broadcast ==
  /\ pc \notin {"enable", "exit"}
  /\ Faults < FaultBudget
  /\ foreign' = foreign + 1
  /\ count' = Counted({"fpgaRx", "hostRx"})
  /\ UNCHANGED <<pc, loopback, transfer, up, down, snap, lost, unasked, late, exit, rows>>

\* The FPGA sends a packet of itself: the rest of an earlier test, or a flood.
FloodPacket ==
  /\ pc \notin {"enable", "exit"}
  /\ Flood \/ Faults < FaultBudget
  /\ unasked' = Bump(unasked)
  /\ HostReceives
  /\ count' = Counted({"fpgaTx", "hostRx"})
  /\ UNCHANGED <<pc, loopback, i, sent, errors, drained, quiet, total, up, down,
                 snap, foreign, late, exit, rows>>

Network == PacketAtFpga \/ PacketAtHost

Next == Host \/ DrainFails \/ Network \/ Broadcast \/ FloodPacket

Spec == Init /\ [][Next]_vars

\* The process runs on, packets in flight arrive or are lost.
FairSpec == Spec /\ WF_vars(Host) /\ WF_vars(Network)

-----------------------------------------------------------------------------
(* The loss row, as append_loopback_loss_csv computes it.                  *)

DeltaU64(after, before) == IF after >= before THEN after - before ELSE 0

HostTxDelta == DeltaU64(snap["host1"]["hostTx"], snap["host0"]["hostTx"])
HostRxDelta == DeltaU64(snap["host1"]["hostRx"], snap["host0"]["hostRx"])
FpgaRxGoodDelta == DeltaU64(snap["fpga1"]["fpgaRx"] - 1, snap["fpga0"]["fpgaRx"])
\* Mutant: the answer to the first snapshot is left in.
MutFpgaTxGoodDelta == DeltaU64(snap["fpga1"]["fpgaTx"], snap["fpga0"]["fpgaTx"])
FpgaTxGoodDelta == DeltaU64(snap["fpga1"]["fpgaTx"] - 1, snap["fpga0"]["fpgaTx"])

HostTxToFpgaRxGap == HostTxDelta - FpgaRxGoodDelta
FpgaRxToTxGap == FpgaRxGoodDelta - FpgaTxGoodDelta
FpgaTxToHostRxGap == FpgaTxGoodDelta - HostRxDelta

-----------------------------------------------------------------------------
(* Properties.                                                             *)

TypeOK ==
  /\ pc \in {"enable", "fpga0", "host0", "open", "send", "inner", "drain",
             "host1", "fpga1", "disable", "loadrow", "lossrow", "exit"}
  /\ {loopback, late} \subseteq BOOLEAN
  /\ {i, sent, errors, drained, quiet, total, up, down, queue, foreign, unasked}
       \subseteq Nat
  /\ count \in [Counters -> Nat]
  /\ snap \in [Snapshots -> [Counters -> Nat]]
  /\ lost \in [Places -> Nat]
  /\ exit \in {"none", "ok", "error"}

Near(a, b, slack) == a - b \in (-slack)..slack

\* The three gaps of the loss row are the packets that truly disappeared in
\* each segment, up to the frames that other stations, or the FPGA of itself, sent
\* meanwhile: the control frames of the two FPGA snapshots cancel out
\* (append_loopback_loss_csv), as long as the last drain did not end before the
\* last echo.
GapsLocateLosses ==
  exit = "ok" /\ ~late =>
    /\ Near(HostTxToFpgaRxGap, lost["toFpga"], foreign)
    /\ Near(FpgaRxToTxGap, lost["inFpga"], foreign + unasked)
    /\ Near(FpgaTxToHostRxGap, lost["toHost"], foreign + unasked)

\* Every packet asked for, or that came unasked, is accounted for: a send error, a
\* packet drained, one lost on a segment, or one the socket had no room for.
NothingDisappears ==
  exit = "ok" /\ ~late =>
    PacketCount + unasked = errors + drained + lost["toFpga"] + lost["inFpga"]
                  + lost["toHost"] + lost["socket"]

\* Ending the drain too early can only overstate a loss: a packet counted as
\* received was received.
LossNeverUnderstated ==
  exit = "ok" /\ foreign + unasked = 0 =>
    /\ drained <= HostRxDelta
    /\ HostRxDelta <= FpgaTxGoodDelta
    /\ FpgaTxGoodDelta <= FpgaRxGoodDelta
    /\ FpgaRxGoodDelta <= HostTxDelta

\* What the command leaves behind: a row, even the first of two, is only written
\* with loopback put back off, and exit code 0 means both rows are there.
EndsAsPromised ==
  pc = "exit" => [code |-> IF exit = "ok" THEN 0 ELSE 1, loopback |-> loopback,
                  rows |-> rows] \in Promise!LoopbackOutcomes

\* The command ends.
Terminates == <>(pc = "exit")

\* fpga_loopback_load.c on the last drain: "max wait: 1000 ms".
DrainEnds == pc = "drain" ~> pc # "drain"
=============================================================================
