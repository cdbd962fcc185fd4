------------------------- MODULE LoopbackTestProofs -------------------------
(***************************************************************************)
(* For any number of packets, faults and unasked-for frames: what the loss *)
(* row of LoopbackTest says, and what the command leaves behind.           *)
(***************************************************************************)
EXTENDS LoopbackTest, TLAPS

\* How far the command got; one that ended in an error is in none of these.
Done == exit = "ok"
Sending == pc \in {"send", "inner"}
Drained == pc \in {"host1", "fpga1", "disable", "loadrow", "lossrow"} \/ Done
HasFpga0 == pc \in {"host0", "open", "send", "inner", "drain"} \/ Drained
HasHost0 == pc \in {"open", "send", "inner", "drain"} \/ Drained
HasHost1 == pc \in {"fpga1", "disable", "loadrow", "lossrow"} \/ Done
HasFpga1 == pc \in {"disable", "loadrow", "lossrow"} \/ Done

\* The row is written last, with loopback off.
RowsInOrder ==
  /\ pc = "exit" <=> exit # "none"
  /\ pc \in {"loadrow", "lossrow"} \/ rows # {} => ~loopback
  /\ pc \notin {"lossrow", "exit"} => rows = {}
  /\ pc = "lossrow" => rows = {"load"}
  /\ exit = "error" => rows \in {{}, {"load"}}
  /\ Done => rows = {"load", "loss"}

EndInv == TypeOK /\ RowsInOrder

\* Packets that came so far, on their way to the FPGA and back to the host.
AtFpga == sent - up - lost["toFpga"]
Echoed == AtFpga - lost["inFpga"]
AtHost == Echoed - down - lost["toHost"]

\* Every packet sent or unasked for is somewhere.
PacketsKept ==
  /\ i = sent + errors /\ i <= PacketCount
  /\ 0 <= AtHost /\ AtHost + unasked = queue + drained + lost["socket"]
  /\ pc \in {"enable", "fpga0", "host0", "open"} => i = 0
  /\ pc = "drain" \/ Drained => i = PacketCount
  /\ Drained /\ ~late => up = 0 /\ down = 0 /\ queue = 0

\* Status queries so far; each is counted once by every counter.
Queries == IF pc \in {"enable", "fpga0"} THEN 0 ELSE IF HasFpga1 THEN 2 ELSE 1

\* The counters count what came, from whomever.
CountersCount ==
  pc # "exit" \/ Done =>
    /\ count["hostTx"] = sent + Queries
    /\ count["fpgaRx"] = AtFpga + foreign + Queries
    /\ count["fpgaTx"] = Echoed + unasked + Queries
    /\ count["hostRx"] = AtHost + foreign + unasked + Queries

\* What the counters were when each snapshot was taken.
SnapshotsHold ==
  /\ HasFpga0 => snap["fpga0"]["fpgaRx"] <= foreign /\ snap["fpga0"]["fpgaTx"] <= unasked
  /\ HasHost0 => /\ snap["host0"]["hostTx"] = 1
                 /\ snap["host0"]["hostRx"] \in 1..(1 + foreign + unasked)
  /\ HasHost1 => /\ snap["host1"]["hostTx"] = sent + 1
                 /\ drained + 1 <= snap["host1"]["hostRx"]
                 /\ snap["host1"]["hostRx"] <= AtHost + foreign + unasked + 1
                 /\ ~late => AtHost + snap["host0"]["hostRx"] <= snap["host1"]["hostRx"]
  /\ HasFpga1 => /\ snap["fpga1"]["fpgaRx"] <= snap["host1"]["hostTx"] + foreign
                 /\ snap["fpga1"]["fpgaTx"] <= snap["fpga1"]["fpgaRx"] + unasked
                 /\ snap["host1"]["hostRx"] <= snap["fpga1"]["fpgaTx"] + foreign
                 /\ ~late => LET rx == snap["fpga1"]["fpgaRx"] - AtFpga - 1
                                 tx == snap["fpga1"]["fpgaTx"] - Echoed - 1
                             IN /\ rx \in snap["fpga0"]["fpgaRx"]..foreign
                                /\ tx \in snap["fpga0"]["fpgaTx"]..unasked

CountInv == EndInv /\ PacketsKept /\ CountersCount /\ SnapshotsHold

-----------------------------------------------------------------------------
(* Types, and the end of the command.                                      *)

\* What the assumption on the constants says of them.
LEMMA Numbers ==
  /\ PacketCount \in Nat /\ PacketCount > 0 /\ CountCap \in Nat
  /\ \A n \in Nat : Bump(n) \in Nat
  /\ \A n \in Nat : Bump(n) - 1 \in Nat
  BY BudgetAssumption DEF Bump

\* What a call of the loopback switch may return and leave behind.
LEMMA Calls ==
  ASSUME NEW m \in BOOLEAN, NEW w \in BOOLEAN, NEW o \in Call!CallOutcomes(m, w)
  PROVE  o[2] \in BOOLEAN /\ (o[1] = "ok" => o[2] = w)
<1>1. \/ o[1] = "ok" /\ o[2] = w
      \/ o[1] = "error" /\ o[2] \in {m, w}
  BY DEF Call!CallOutcomes
<1> QED BY <1>1

\* What the two callers leave behind.
LEMMA Switching ==
  ASSUME TypeOK, Enable \/ Disable
  PROVE  /\ loopback' \in BOOLEAN
         /\ \/ Enable /\ pc' = "fpga0" /\ exit' = exit
            \/ Disable /\ pc' = "loadrow" /\ exit' = exit /\ loopback' = FALSE
            \/ pc' = "exit" /\ exit' = "error"
<1>1. loopback \in BOOLEAN
  BY DEF TypeOK
<1>2. CASE Enable
  <2>1. PICK o \in Call!CallOutcomes(loopback, TRUE) :
          /\ loopback' = o[2]
          /\ IF o[1] = "ok" THEN pc' = "fpga0" /\ exit' = exit ELSE Quit
    BY <1>2 DEF Enable
  <2>2. o[2] \in BOOLEAN
    BY <1>1, Calls
  <2>3. (pc' = "fpga0" /\ exit' = exit) \/ (pc' = "exit" /\ exit' = "error")
    BY <2>1 DEF Quit
  <2> QED BY <1>2, <2>1, <2>2, <2>3
<1>3. CASE Disable
  <2>1. PICK o \in Call!CallOutcomes(loopback, FALSE) :
          /\ loopback' = o[2]
          /\ IF o[1] = "ok" THEN pc' = "loadrow" /\ exit' = exit ELSE Quit
    BY <1>3 DEF Disable
  <2>2. o[2] \in BOOLEAN /\ (o[1] = "ok" => o[2] = FALSE)
    BY <1>1, Calls
  <2>3. (o[1] = "ok" /\ pc' = "loadrow" /\ exit' = exit) \/ (pc' = "exit" /\ exit' = "error")
    BY <2>1 DEF Quit
  <2> QED BY <1>3, <2>1, <2>2, <2>3
<1> QED BY <1>2, <1>3

\* Counting keeps the counters counters.
LEMMA CountedType ==
  ASSUME TypeOK, NEW names \in SUBSET Counters
  PROVE  Counted(names) \in [Counters -> Nat]
  BY Numbers DEF TypeOK, Counted

\* So does a snapshot.
LEMMA FpgaSnapshotType ==
  ASSUME TypeOK, NEW s \in {"fpga0", "fpga1"}, FpgaSnapshot(s)
  PROVE  count' \in [Counters -> Nat] /\ snap' \in [Snapshots -> [Counters -> Nat]]
<1>1. count \in [Counters -> Nat] /\ snap \in [Snapshots -> [Counters -> Nat]] /\ s \in Snapshots
  BY DEF TypeOK, Snapshots
<1>2. CASE UNCHANGED <<count, snap>>
  BY <1>1, <1>2
<1>3. CASE ~UNCHANGED <<count, snap>>
  <2> DEFINE a == [count EXCEPT !["fpgaRx"] = Bump(@)]
             b == [a EXCEPT !["fpgaRx"] = @ - 1]
  <2>1. snap' = [snap EXCEPT ![s] = b] /\ count' = Counted(Counters)
    BY <1>3 DEF FpgaSnapshot
  <2>2. count["fpgaRx"] \in Nat /\ "fpgaRx" \in Counters
    BY <1>1 DEF Counters
  <2>3. a \in [Counters -> Nat] /\ a["fpgaRx"] = Bump(count["fpgaRx"])
    BY <1>1, <2>2, Numbers
  <2>4. a["fpgaRx"] - 1 \in Nat
    BY <2>2, <2>3, Numbers
  <2> HIDE DEF a
  <2>5. b \in [Counters -> Nat]
    BY <2>2, <2>3, <2>4
  <2> HIDE DEF b
  <2>6. snap' \in [Snapshots -> [Counters -> Nat]]
    BY <1>1, <2>1, <2>5
  <2> QED BY <2>1, <2>6, CountedType
<1> QED BY <1>2, <1>3

\* Every step keeps the types, with or without a bound on the counters.
LEMMA TypeNext == TypeOK /\ [Next]_vars => TypeOK'
<1> SUFFICES ASSUME TypeOK, [Next]_vars PROVE TypeOK'
  OBVIOUS
<1> USE Numbers DEF transfer, others
<1>1. /\ loopback \in BOOLEAN /\ late \in BOOLEAN
      /\ i \in Nat /\ sent \in Nat /\ errors \in Nat /\ drained \in Nat /\ quiet \in Nat
      /\ total \in Nat /\ up \in Nat /\ down \in Nat /\ queue \in Nat /\ foreign \in Nat
      /\ unasked \in Nat /\ count \in [Counters -> Nat] /\ lost \in [Places -> Nat]
      /\ snap \in [Snapshots -> [Counters -> Nat]]
      /\ pc \in {"enable", "fpga0", "host0", "open", "send", "inner", "drain",
                 "host1", "fpga1", "disable", "loadrow", "lossrow", "exit"}
      /\ exit \in {"none", "ok", "error"}
  BY DEF TypeOK
<1>2. ASSUME loopback' \in BOOLEAN, late' \in BOOLEAN,
             pc' \in {"enable", "fpga0", "host0", "open", "send", "inner", "drain",
                      "host1", "fpga1", "disable", "loadrow", "lossrow", "exit"},
             exit' \in {"none", "ok", "error"},
             {drained', quiet', total', queue'} \subseteq Nat,
             UNCHANGED <<i, sent, errors, up, down, count, snap, lost, others>>
      PROVE  TypeOK'
  BY <1>1, <1>2 DEF TypeOK
<1>3. {drained, quiet, total, queue} \subseteq Nat
  BY <1>1
<1>4. CASE Enable \/ Disable
  <2>1. UNCHANGED <<transfer, up, down, count, snap, lost, others, late>>
    BY <1>4 DEF Enable, Disable
  <2>2. pc' \in {"fpga0", "loadrow", "exit"} /\ exit' \in {exit, "error"}
    BY <1>4, Switching
  <2>3. loopback' \in BOOLEAN
    BY <1>4, Switching
  <2> QED BY <1>1, <1>2, <1>3, <2>1, <2>2, <2>3
<1>5. CASE SnapshotFpga
  <2>1. UNCHANGED <<loopback, transfer, up, down, lost, others, late>>
    BY <1>5 DEF SnapshotFpga
  <2>2. pc \in {"fpga0", "fpga1"} /\ FpgaSnapshot(pc)
    BY <1>5 DEF SnapshotFpga
  <2>3. pc' \in {"host0", "disable", "exit"} /\ exit' \in {exit, "error"}
    BY <2>2 DEF FpgaSnapshot, Quit
  <2>4. count' \in [Counters -> Nat] /\ snap' \in [Snapshots -> [Counters -> Nat]]
    BY <2>2, FpgaSnapshotType
  <2> QED BY <1>1, <2>1, <2>3, <2>4 DEF TypeOK
<1>6. CASE SnapshotHost
  <2>1. UNCHANGED <<loopback, transfer, up, down, count, lost, others, late>>
    BY <1>6 DEF SnapshotHost
  <2>2. pc' \in {"open", "fpga1", "exit"} /\ exit' \in {exit, "error"}
    BY <1>6 DEF SnapshotHost, Quit
  <2>3. snap' \in [Snapshots -> [Counters -> Nat]]
    BY <1>1, <1>6 DEF SnapshotHost, Snapshots
  <2> QED BY <1>1, <2>1, <2>2, <2>3 DEF TypeOK
<1>7. CASE WriteRow \/ OpenSockets \/ SendLoopEnds
  <2>1. UNCHANGED <<loopback, transfer, up, down, count, snap, lost, others, late>>
    BY <1>7 DEF WriteRow, OpenSockets, SendLoopEnds
  <2>2. pc' \in {"lossrow", "send", "drain", "exit"} /\ exit' \in {exit, "ok", "error"}
    BY <1>7 DEF WriteRow, OpenSockets, SendLoopEnds, Quit
  <2> QED BY <1>1, <1>2, <1>3, <2>1, <2>2
<1>8. CASE SendPacket
  <2>1. {i', sent', errors', up'} \subseteq Nat /\ pc' \in {"send", "inner"}
    BY <1>1, <1>8 DEF SendPacket
  <2>2. UNCHANGED <<loopback, drained, queue, quiet, total, down, snap, lost, others,
                    late, exit>>
    BY <1>8 DEF SendPacket
  <2>3. count' = count \/ count' = Counted({"hostTx"})
    BY <1>8 DEF SendPacket
  <2>4. count' \in [Counters -> Nat]
    BY <1>1, <2>3, CountedType DEF Counters
  <2> QED BY <1>1, <2>1, <2>2, <2>4 DEF TypeOK
<1>9. CASE DrainInner \/ DrainPacket
  <2>1. {drained', quiet', queue'} \subseteq Nat /\ pc' \in {"send", "inner", "drain"}
    BY <1>1, <1>9 DEF DrainInner, DrainPacket
  <2>2. UNCHANGED <<loopback, i, sent, errors, total, up, down, count, snap, lost, others,
                    late, exit>>
    BY <1>9 DEF DrainInner, DrainPacket
  <2> QED BY <1>1, <1>2, <2>1, <2>2
<1>10. CASE DrainPoll \/ DrainFails
  <2>1. late' = late \/ late' = (up + down > 0) \/ late' = (up + down + queue > 0)
    BY <1>10 DEF DrainPoll, DrainFails
  <2>2. late' \in BOOLEAN
    <3>1. (up + down > 0) \in BOOLEAN /\ (up + down + queue > 0) \in BOOLEAN
      OBVIOUS
    <3> QED BY <1>1, <2>1, <3>1
  <2>3. {quiet', total'} \subseteq Nat /\ pc' \in {"send", "drain", "host1"}
    BY <1>1, <1>10 DEF DrainPoll, DrainFails
  <2>4. UNCHANGED <<loopback, i, sent, errors, drained, queue, up, down, count, snap, lost,
                    others, exit>>
    BY <1>10 DEF DrainPoll, DrainFails
  <2> QED BY <1>1, <1>2, <2>2, <2>3, <2>4
<1>11. CASE PacketAtFpga \/ PacketAtHost \/ Broadcast \/ FloodPacket
  <2>1. {up', down', queue', foreign', unasked'} \subseteq Nat
    BY <1>1, <1>11 DEF PacketAtFpga, PacketAtHost, Broadcast, FloodPacket, HostReceives
  <2>2. lost' \in [Places -> Nat]
    <3>1. lost' = lost \/ (\E p \in Places : lost' = [lost EXCEPT ![p] = @ + 1])
                       \/ lost' = [lost EXCEPT !["socket"] = Bump(@)]
      BY <1>11
      DEF PacketAtFpga, PacketAtHost, Broadcast, FloodPacket, HostReceives, Lose, Places
    <3>2. "socket" \in Places
      BY DEF Places
    <3>3. [lost EXCEPT !["socket"] = Bump(@)] \in [Places -> Nat]
      BY <1>1, <3>2
    <3>4. \A p \in Places : [lost EXCEPT ![p] = @ + 1] \in [Places -> Nat]
      BY <1>1
    <3> QED BY <1>1, <3>1, <3>3, <3>4
  <2>3. count' \in [Counters -> Nat]
    <3>1. count' = count \/ \E names \in SUBSET Counters : count' = Counted(names)
      BY <1>11 DEF PacketAtFpga, PacketAtHost, Broadcast, FloodPacket, Counters
    <3> QED BY <1>1, <3>1, CountedType
  <2>4. UNCHANGED <<pc, loopback, i, sent, errors, drained, quiet, total, snap, late, exit>>
    BY <1>11 DEF PacketAtFpga, PacketAtHost, Broadcast, FloodPacket
  <2> QED BY <1>1, <2>1, <2>2, <2>3, <2>4 DEF TypeOK
<1>12. CASE UNCHANGED vars
  BY <1>1, <1>2, <1>3, <1>12 DEF vars
<1> QED
  BY <1>4, <1>5, <1>6, <1>7, <1>8, <1>9, <1>10, <1>11, <1>12 DEF Next, Host, Network

\* Rows come in their order, and only with loopback off.
LEMMA RowsNext == EndInv /\ [Next]_vars => RowsInOrder'
<1> SUFFICES ASSUME EndInv, [Next]_vars PROVE RowsInOrder'
  OBVIOUS
<1> USE DEF Done, transfer, others
<1>1. TypeOK /\ RowsInOrder
  BY DEF EndInv
<1>2. ASSUME UNCHANGED <<loopback, exit, rows>>,
             pc' = pc \/ {pc, pc'} \cap {"loadrow", "lossrow", "exit"} = {}
      PROVE  RowsInOrder'
  BY <1>1, <1>2 DEF RowsInOrder
<1>3. ASSUME pc' = "exit", exit' = "error", UNCHANGED <<loopback, rows>>, pc # "exit"
      PROVE  RowsInOrder'
  BY <1>1, <1>3 DEF RowsInOrder
<1>4. CASE Enable \/ Disable
  <2>1. rows' = rows /\ pc \in {"enable", "disable"} /\ rows = {} /\ exit = "none"
    BY <1>1, <1>4 DEF Enable, Disable, RowsInOrder
  <2>2. \/ pc' = "fpga0" /\ exit' = exit
        \/ pc' = "loadrow" /\ exit' = exit /\ loopback' = FALSE
        \/ pc' = "exit" /\ exit' = "error"
    BY <1>1, <1>4, Switching
  <2> QED BY <2>1, <2>2 DEF RowsInOrder
<1>5. CASE SnapshotFpga
  <2>1. UNCHANGED <<loopback, rows>> /\ pc \in {"fpga0", "fpga1"}
    BY <1>5 DEF SnapshotFpga
  <2>2. (pc' \in {"host0", "disable"} /\ exit' = exit) \/ (pc' = "exit" /\ exit' = "error")
    BY <1>5 DEF SnapshotFpga, FpgaSnapshot, Quit
  <2> QED BY <1>2, <1>3, <2>1, <2>2
<1>6. CASE SnapshotHost
  <2>1. UNCHANGED <<loopback, rows>> /\ pc \in {"host0", "host1"}
    BY <1>6 DEF SnapshotHost
  <2>2. (pc' \in {"open", "fpga1"} /\ exit' = exit) \/ (pc' = "exit" /\ exit' = "error")
    BY <1>6 DEF SnapshotHost, Quit
  <2> QED BY <1>2, <1>3, <2>1, <2>2
<1>7. CASE WriteRow
  BY <1>1, <1>7 DEF WriteRow, Quit, RowsInOrder
<1>8. CASE OpenSockets
  BY <1>2, <1>3, <1>8 DEF OpenSockets, Quit
<1>9. CASE SendPacket \/ SendLoopEnds \/ DrainInner \/ DrainPacket \/ DrainPoll \/ DrainFails
  BY <1>2, <1>9 DEF SendPacket, SendLoopEnds, DrainInner, DrainPacket, DrainPoll, DrainFails
<1>10. CASE PacketAtFpga \/ PacketAtHost \/ Broadcast \/ FloodPacket
  BY <1>2, <1>10 DEF PacketAtFpga, PacketAtHost, Broadcast, FloodPacket
<1>11. CASE UNCHANGED vars
  BY <1>2, <1>11 DEF vars
<1> QED
  BY <1>4, <1>5, <1>6, <1>7, <1>8, <1>9, <1>10, <1>11 DEF Next, Host, Network

\* The start.
LEMMA EndInit == Init => EndInv
<1> SUFFICES ASSUME Init PROVE EndInv
  OBVIOUS
<1>1. {loopback, late} \subseteq BOOLEAN
  BY DEF Init
<1>2. TypeOK
  BY <1>1 DEF Init, TypeOK
<1>3. RowsInOrder
  BY DEF Init, RowsInOrder, Done
<1> QED BY <1>2, <1>3 DEF EndInv

\* The inductive invariant behind EndsAsPromised, with or without a bound on the counters.
LEMMA EndNext == EndInv /\ [Next]_vars => EndInv'
  BY TypeNext, RowsNext DEF EndInv

-----------------------------------------------------------------------------
(* Packets and counters, where nothing bounds the counters.                *)

\* What the steps do to numbers.
LEMMA Integral ==
  ASSUME TypeOK
  PROVE  /\ i \in Nat /\ sent \in Nat /\ errors \in Nat /\ drained \in Nat /\ up \in Nat
         /\ down \in Nat /\ queue \in Nat /\ foreign \in Nat /\ unasked \in Nat
         /\ lost["toFpga"] \in Nat /\ lost["inFpga"] \in Nat /\ lost["toHost"] \in Nat
         /\ lost["socket"] \in Nat
         /\ count["hostTx"] \in Nat /\ count["fpgaRx"] \in Nat /\ count["fpgaTx"] \in Nat
         /\ count["hostRx"] \in Nat
  BY DEF TypeOK, Counters, Places

\* Without a bound, counting is adding one.
LEMMA Counting ==
  ASSUME TypeOK, CountCap = 0, NEW names \in SUBSET Counters, count' = Counted(names)
  PROVE  /\ count'["hostTx"] = IF "hostTx" \in names THEN count["hostTx"] + 1 ELSE count["hostTx"]
         /\ count'["fpgaRx"] = IF "fpgaRx" \in names THEN count["fpgaRx"] + 1 ELSE count["fpgaRx"]
         /\ count'["fpgaTx"] = IF "fpgaTx" \in names THEN count["fpgaTx"] + 1 ELSE count["fpgaTx"]
         /\ count'["hostRx"] = IF "hostRx" \in names THEN count["hostRx"] + 1 ELSE count["hostRx"]
  BY DEF TypeOK, Counted, Counters, Bump

\* One more is lost at one place.
LEMMA Losing ==
  ASSUME TypeOK, CountCap = 0, NEW p \in Places,
         lost' = [lost EXCEPT ![p] = @ + 1] \/ lost' = [lost EXCEPT ![p] = Bump(@)]
  PROVE  \A q \in Places : lost'[q] = IF q = p THEN lost[q] + 1 ELSE lost[q]
  BY DEF TypeOK, Places, Bump

\* A frame that reaches the interface is queued or dropped.
LEMMA Receiving ==
  ASSUME TypeOK, CountCap = 0, HostReceives
  PROVE  /\ \/ queue' = queue + 1 /\ lost'["socket"] = lost["socket"] /\ SocketOpen
            \/ queue' = queue /\ lost'["socket"] = lost["socket"] + 1
         /\ lost'["toFpga"] = lost["toFpga"] /\ lost'["inFpga"] = lost["inFpga"]
         /\ lost'["toHost"] = lost["toHost"]
<1>1. CASE queue' = queue + 1 /\ lost' = lost /\ SocketOpen
  BY <1>1
<1>2. CASE queue' = queue /\ lost' = [lost EXCEPT !["socket"] = Bump(@)]
  <2>1. \A q \in Places : lost'[q] = IF q = "socket" THEN lost[q] + 1 ELSE lost[q]
    BY <1>2, Losing DEF Places
  <2> QED BY <1>2, <2>1 DEF Places
<1> QED BY <1>1, <1>2 DEF HostReceives

\* What a packet does at the FPGA.
LEMMA FpgaEffect ==
  ASSUME TypeOK, CountCap = 0, PacketAtFpga
  PROVE  /\ up > 0 /\ up' = up - 1
         /\ UNCHANGED <<pc, i, sent, errors, drained, queue, snap, foreign, unasked, late, exit>>
         /\ lost'["toHost"] = lost["toHost"] /\ lost'["socket"] = lost["socket"]
         /\ \/ /\ lost'["toFpga"] = lost["toFpga"] + 1 /\ lost'["inFpga"] = lost["inFpga"]
               /\ down' = down /\ count' = count
            \/ /\ lost'["toFpga"] = lost["toFpga"] /\ lost'["inFpga"] = lost["inFpga"] + 1
               /\ down' = down /\ count' = Counted({"fpgaRx"})
            \/ /\ lost'["toFpga"] = lost["toFpga"] /\ lost'["inFpga"] = lost["inFpga"]
               /\ down' = down + 1 /\ count' = Counted({"fpgaRx", "fpgaTx"})
<1>1. /\ up > 0 /\ up' = up - 1
      /\ UNCHANGED <<pc, i, sent, errors, drained, queue, snap, foreign, unasked, late, exit>>
  BY DEF PacketAtFpga, transfer, others
<1>2. CASE lost' = [lost EXCEPT !["toFpga"] = @ + 1] /\ down' = down /\ count' = count
  <2>1. \A q \in Places : lost'[q] = IF q = "toFpga" THEN lost[q] + 1 ELSE lost[q]
    BY <1>2, Losing DEF Places
  <2> QED BY <1>1, <1>2, <2>1 DEF Places
<1>3. CASE lost' = [lost EXCEPT !["inFpga"] = @ + 1] /\ down' = down
           /\ count' = Counted({"fpgaRx"})
  <2>1. \A q \in Places : lost'[q] = IF q = "inFpga" THEN lost[q] + 1 ELSE lost[q]
    BY <1>3, Losing DEF Places
  <2> QED BY <1>1, <1>3, <2>1 DEF Places
<1>4. CASE lost' = lost /\ down' = down + 1 /\ count' = Counted({"fpgaRx", "fpgaTx"})
  BY <1>1, <1>4
<1> QED BY <1>2, <1>3, <1>4 DEF PacketAtFpga, Lose

\* What an echo does at the host.
LEMMA HostEffect ==
  ASSUME TypeOK, CountCap = 0, PacketAtHost
  PROVE  /\ down > 0 /\ down' = down - 1
         /\ UNCHANGED <<pc, i, sent, errors, drained, up, snap, foreign, unasked, late, exit>>
         /\ lost'["toFpga"] = lost["toFpga"] /\ lost'["inFpga"] = lost["inFpga"]
         /\ \/ /\ lost'["toHost"] = lost["toHost"] + 1 /\ lost'["socket"] = lost["socket"]
               /\ queue' = queue /\ count' = count
            \/ /\ lost'["toHost"] = lost["toHost"] /\ count' = Counted({"hostRx"})
               /\ \/ queue' = queue + 1 /\ lost'["socket"] = lost["socket"]
                  \/ queue' = queue /\ lost'["socket"] = lost["socket"] + 1
<1>1. /\ down > 0 /\ down' = down - 1
      /\ UNCHANGED <<pc, i, sent, errors, drained, up, snap, foreign, unasked, late, exit>>
  BY DEF PacketAtHost, others
<1>2. CASE lost' = [lost EXCEPT !["toHost"] = @ + 1] /\ queue' = queue /\ count' = count
  <2>1. \A q \in Places : lost'[q] = IF q = "toHost" THEN lost[q] + 1 ELSE lost[q]
    BY <1>2, Losing DEF Places
  <2> QED BY <1>1, <1>2, <2>1 DEF Places
<1>3. CASE HostReceives /\ count' = Counted({"hostRx"})
  BY <1>1, <1>3, Receiving
<1> QED BY <1>2, <1>3 DEF PacketAtHost, Lose

\* Every packet sent or unasked for stays somewhere.
LEMMA KeptNext ==
  ASSUME CountCap = 0, EndInv, PacketsKept, [Next]_vars
  PROVE  PacketsKept'
<1> USE DEF transfer, others, Done, Drained
<1>1. TypeOK /\ RowsInOrder /\ PacketsKept
  BY DEF EndInv
<1>2. /\ i \in Nat /\ sent \in Nat /\ errors \in Nat /\ drained \in Nat /\ up \in Nat
      /\ down \in Nat /\ queue \in Nat /\ foreign \in Nat /\ unasked \in Nat
      /\ lost["toFpga"] \in Nat /\ lost["inFpga"] \in Nat /\ lost["toHost"] \in Nat
      /\ lost["socket"] \in Nat /\ PacketCount \in Nat /\ late \in BOOLEAN
      /\ i = sent + errors /\ i <= PacketCount
      /\ 0 <= AtHost /\ AtHost + unasked = queue + drained + lost["socket"]
  BY <1>1, Integral, Numbers DEF PacketsKept, TypeOK
<1>3. ASSUME UNCHANGED <<i, sent, errors, up, down, queue, drained, lost, unasked, late>>,
             \/ pc' = "exit" /\ exit' = "error"
             \/ pc' = pc /\ exit' = exit
             \/ /\ pc \in {"enable", "fpga0", "host0", "open"} /\ exit' = exit
                /\ pc' \in {"fpga0", "host0", "open", "send"}
             \/ Drained /\ pc' \in {"fpga1", "disable", "loadrow", "lossrow", "exit"}
      PROVE  PacketsKept'
  <2>1. AtHost' = AtHost
    BY <1>3 DEF AtHost, Echoed, AtFpga
  <2>2. pc \in {"enable", "fpga0", "host0", "open"} => exit # "ok"
    BY <1>1 DEF RowsInOrder
  <2>3. Drained' => Drained
    BY <1>3, <2>2
  <2> QED BY <1>1, <1>3, <2>1, <2>3 DEF PacketsKept
<1>4. CASE Enable \/ Disable
  <2>1. UNCHANGED <<i, sent, errors, up, down, queue, drained, lost, unasked, late>>
        /\ (Enable => pc = "enable") /\ (Disable => pc = "disable")
    BY <1>4 DEF Enable, Disable
  <2>2. \/ Enable /\ pc' = "fpga0" /\ exit' = exit
        \/ Disable /\ pc' = "loadrow"
        \/ pc' = "exit" /\ exit' = "error"
    BY <1>1, <1>4, Switching
  <2> QED BY <1>3, <2>1, <2>2
<1>5. CASE SnapshotFpga
  <2>1. UNCHANGED <<i, sent, errors, up, down, queue, drained, lost, unasked, late>>
        /\ pc \in {"fpga0", "fpga1"}
    BY <1>5 DEF SnapshotFpga
  <2>2. \/ pc = "fpga0" /\ pc' = "host0" /\ exit' = exit
        \/ pc = "fpga1" /\ pc' = "disable"
        \/ pc' = "exit" /\ exit' = "error"
    BY <1>5 DEF SnapshotFpga, FpgaSnapshot, Quit
  <2> QED BY <1>3, <2>1, <2>2
<1>6. CASE SnapshotHost
  <2>1. UNCHANGED <<i, sent, errors, up, down, queue, drained, lost, unasked, late>>
        /\ pc \in {"host0", "host1"}
    BY <1>6 DEF SnapshotHost
  <2>2. \/ pc = "host0" /\ pc' = "open" /\ exit' = exit
        \/ pc = "host1" /\ pc' = "fpga1"
        \/ pc' = "exit" /\ exit' = "error"
    BY <1>6 DEF SnapshotHost, Quit
  <2> QED BY <1>3, <2>1, <2>2
<1>7. CASE WriteRow \/ OpenSockets
  <2>1. UNCHANGED <<i, sent, errors, up, down, queue, drained, lost, unasked, late>>
    BY <1>7 DEF WriteRow, OpenSockets
  <2>2. \/ pc \in {"loadrow", "lossrow"} /\ pc' \in {"lossrow", "exit"}
        \/ pc = "open" /\ pc' = "send" /\ exit' = exit
        \/ pc' = "exit" /\ exit' = "error"
    BY <1>7 DEF WriteRow, OpenSockets, Quit
  <2> QED BY <1>3, <2>1, <2>2
<1>8. CASE SendPacket
  <2>1. /\ UNCHANGED <<drained, queue, down, lost, unasked, late, exit>>
        /\ pc = "send" /\ pc' \in {"send", "inner"} /\ i < PacketCount /\ i' = i + 1
        /\ \/ sent' = sent + 1 /\ up' = up + 1 /\ errors' = errors
           \/ errors' = errors + 1 /\ sent' = sent /\ up' = up
    BY <1>8 DEF SendPacket
  <2>2. AtHost' = AtHost
    BY <1>2, <2>1 DEF AtHost, Echoed, AtFpga
  <2>3. exit # "ok"
    BY <1>1, <2>1 DEF RowsInOrder
  <2> QED BY <1>2, <2>1, <2>2, <2>3 DEF PacketsKept
<1>9. CASE SendLoopEnds
  <2>1. /\ UNCHANGED <<i, sent, errors, up, down, queue, drained, lost, unasked, late, exit>>
        /\ pc = "send" /\ i = PacketCount /\ pc' = "drain"
    BY <1>9 DEF SendLoopEnds
  <2>2. exit # "ok"
    BY <1>1, <2>1 DEF RowsInOrder
  <2> QED BY <1>1, <2>1, <2>2 DEF PacketsKept, AtHost, Echoed, AtFpga
<1>10. CASE DrainInner \/ DrainPacket
  <2>1. /\ UNCHANGED <<i, sent, errors, up, down, lost, unasked, late, exit>>
        /\ \/ pc = "inner" /\ pc' \in {"send", "inner"}
           \/ pc = "drain" /\ pc' = "drain"
        /\ \/ queue' = queue - 1 /\ drained' = Bump(drained)
           \/ queue' = queue /\ drained' = drained
    BY <1>10 DEF DrainInner, DrainPacket
  <2>2. queue' + drained' = queue + drained
    BY <1>2, <2>1 DEF Bump
  <2>3. AtHost' = AtHost
    BY <2>1 DEF AtHost, Echoed, AtFpga
  <2>4. exit # "ok"
    BY <1>1, <2>1 DEF RowsInOrder
  <2>5. queue' \in Int /\ drained' \in Int
    BY <1>2, <2>1 DEF Bump
  <2> QED BY <1>1, <1>2, <2>1, <2>2, <2>3, <2>4, <2>5 DEF PacketsKept
<1>11. CASE DrainPoll \/ DrainFails
  <2>1. UNCHANGED <<i, sent, errors, up, down, queue, drained, lost, unasked, exit>>
    BY <1>11 DEF DrainPoll, DrainFails
  <2>2. \/ pc' \in {"send", "inner"} /\ pc = "inner" /\ late' = late
        \/ pc' = "drain" /\ pc = "drain" /\ late' = late
        \/ pc' = "host1" /\ pc = "drain" /\ queue = 0 /\ late' = (up + down > 0)
        \/ pc' = "host1" /\ pc = "drain" /\ late' = (up + down + queue > 0)
    BY <1>11 DEF DrainPoll, DrainFails
  <2>3. pc' = "host1" /\ ~late' =>
          (queue = 0 /\ ~(up + down > 0)) \/ ~(up + down + queue > 0)
    BY <2>2, Zenon
  <2>4. pc' = "host1" /\ ~late' => up = 0 /\ down = 0 /\ queue = 0
    BY <1>2, <2>3
  <2>5. exit # "ok"
    BY <1>1, <2>2 DEF RowsInOrder
  <2>6. AtHost' = AtHost
    BY <2>1 DEF AtHost, Echoed, AtFpga
  <2>7. /\ pc' \in {"send", "inner", "drain", "host1"}
        /\ pc' \in {"drain", "host1"} => pc = "drain"
    BY <2>2
  <2> QED BY <1>1, <1>2, <2>1, <2>4, <2>5, <2>6, <2>7 DEF PacketsKept
<1>12. CASE PacketAtFpga
  <2>1. AtHost' = AtHost
    BY <1>1, <1>2, <1>12, FpgaEffect DEF AtHost, Echoed, AtFpga
  <2>2. /\ up > 0 /\ lost'["socket"] = lost["socket"]
        /\ UNCHANGED <<pc, i, sent, errors, drained, queue, unasked, late, exit>>
    BY <1>1, <1>12, FpgaEffect
  <2> QED BY <1>1, <1>2, <2>1, <2>2 DEF PacketsKept
<1>13. CASE PacketAtHost
  <2>1. /\ down > 0 /\ UNCHANGED <<pc, i, sent, errors, drained, unasked, late, exit>>
        /\ queue' \in Int /\ lost'["socket"] \in Int
        /\ \/ AtHost' = AtHost /\ queue' + lost'["socket"] = queue + lost["socket"]
           \/ AtHost' = AtHost + 1 /\ queue' + lost'["socket"] = queue + lost["socket"] + 1
    BY <1>1, <1>2, <1>13, HostEffect DEF AtHost, Echoed, AtFpga
  <2> QED BY <1>1, <1>2, <2>1 DEF PacketsKept, AtHost, Echoed, AtFpga
<1>14. CASE Broadcast
  <2>1. UNCHANGED <<pc, i, sent, errors, up, down, queue, drained, lost, unasked, late, exit>>
    BY <1>14 DEF Broadcast
  <2> QED BY <1>3, <2>1
<1>15. CASE FloodPacket
  <2>1. /\ UNCHANGED <<pc, i, sent, errors, up, down, drained, late, exit>>
        /\ unasked' = unasked + 1 /\ HostReceives
    BY <1>15 DEF FloodPacket, Bump
  <2>2. /\ \/ queue' = queue + 1 /\ lost'["socket"] = lost["socket"] /\ SocketOpen
           \/ queue' = queue /\ lost'["socket"] = lost["socket"] + 1
        /\ AtHost' = AtHost
    BY <1>1, <2>1, Receiving DEF AtHost, Echoed, AtFpga
  <2>3. SocketOpen => ~Drained
    BY <1>1 DEF SocketOpen, RowsInOrder
  <2>4. queue' + lost'["socket"] = queue + lost["socket"] + 1 /\ queue' \in Int
        /\ lost'["socket"] \in Int
    BY <1>2, <2>2
  <2>5. AtHost' + unasked' = queue' + drained' + lost'["socket"] /\ 0 <= AtHost'
    <3>1. AtHost \in Int
      BY <1>2 DEF AtHost, Echoed, AtFpga
    <3> QED BY <1>2, <2>1, <2>2, <2>4, <3>1
  <2>6. Drained' /\ ~late' => up' = 0 /\ down' = 0 /\ queue' = 0
    BY <1>1, <2>1, <2>2, <2>3 DEF PacketsKept
  <2>7. /\ i' = sent' + errors' /\ i' <= PacketCount
        /\ pc' \in {"enable", "fpga0", "host0", "open"} => i' = 0
        /\ pc' = "drain" \/ Drained' => i' = PacketCount
    BY <1>1, <2>1 DEF PacketsKept
  <2> QED BY <2>5, <2>6, <2>7 DEF PacketsKept
<1>16. CASE UNCHANGED vars
  BY <1>3, <1>16 DEF vars
<1> QED
  BY <1>4, <1>5, <1>6, <1>7, <1>8, <1>9, <1>10, <1>11, <1>12, <1>13, <1>14, <1>15, <1>16
  DEF Next, Host, Network

\* The numbers the counters are compared with.
LEMMA Sums ==
  ASSUME TypeOK, PacketsKept
  PROVE  /\ AtFpga \in Int /\ Echoed \in Int /\ AtHost \in Int /\ 0 <= AtHost
         /\ AtHost <= Echoed /\ Echoed <= AtFpga /\ AtFpga <= sent
         /\ i = 0 => sent = 0 /\ AtFpga = 0 /\ Echoed = 0 /\ AtHost = 0
         /\ up = 0 => AtFpga = sent - lost["toFpga"]
         /\ down = 0 => AtHost = Echoed - lost["toHost"]
         /\ Echoed = AtFpga - lost["inFpga"]
<1> USE Integral
<1>1. AtFpga \in Int /\ Echoed \in Int /\ AtHost \in Int
  BY DEF AtHost, Echoed, AtFpga
<1>2. /\ AtFpga = sent - up - lost["toFpga"] /\ Echoed = AtFpga - lost["inFpga"]
      /\ AtHost = Echoed - down - lost["toHost"]
  BY DEF AtHost, Echoed, AtFpga
<1>3. 0 <= AtHost /\ i = sent + errors
  BY DEF PacketsKept
<1>4. AtHost <= Echoed /\ Echoed <= AtFpga /\ AtFpga <= sent
  BY <1>1, <1>2
<1>5. i = 0 => sent = 0 /\ AtFpga = 0 /\ Echoed = 0 /\ AtHost = 0
  BY <1>1, <1>3, <1>4
<1> QED BY <1>1, <1>2, <1>3, <1>4, <1>5

\* The network moves the counters together with what they count.
LEMMA NetworkEffect ==
  ASSUME TypeOK, CountCap = 0, PacketAtFpga \/ PacketAtHost \/ Broadcast \/ FloodPacket
  PROVE  /\ UNCHANGED <<pc, exit, i, sent, drained, snap, late>>
         /\ foreign' \in Int /\ unasked' \in Int /\ foreign' >= foreign /\ unasked' >= unasked
         /\ AtFpga' \in Int /\ Echoed' \in Int /\ AtHost' \in Int /\ AtHost' >= AtHost
         /\ up = 0 => AtFpga' = AtFpga /\ Echoed' = Echoed
         /\ down = 0 => AtHost' = AtHost
         /\ count'["hostTx"] = count["hostTx"]
         /\ count'["fpgaRx"] - AtFpga' - foreign' = count["fpgaRx"] - AtFpga - foreign
         /\ count'["fpgaTx"] - Echoed' - unasked' = count["fpgaTx"] - Echoed - unasked
         /\ count'["hostRx"] - AtHost' - foreign' - unasked'
              = count["hostRx"] - AtHost - foreign - unasked
<1>1. /\ sent \in Int /\ up \in Nat /\ down \in Nat /\ foreign \in Int /\ unasked \in Int
      /\ lost["toFpga"] \in Int /\ lost["inFpga"] \in Int /\ lost["toHost"] \in Int
      /\ count["hostTx"] \in Int /\ count["fpgaRx"] \in Int /\ count["fpgaTx"] \in Int
      /\ count["hostRx"] \in Int
  BY Integral
<1>2. /\ AtFpga = sent - up - lost["toFpga"] /\ Echoed = AtFpga - lost["inFpga"]
      /\ AtHost = Echoed - down - lost["toHost"]
      /\ AtFpga' = sent' - up' - lost'["toFpga"] /\ Echoed' = AtFpga' - lost'["inFpga"]
      /\ AtHost' = Echoed' - down' - lost'["toHost"]
  BY DEF AtHost, Echoed, AtFpga
<1>3. CASE PacketAtFpga
  <2>1. /\ up > 0 /\ up' = up - 1
        /\ UNCHANGED <<pc, exit, i, sent, drained, snap, late, foreign, unasked>>
        /\ lost'["toHost"] = lost["toHost"]
    BY <1>3, FpgaEffect
  <2>2. \/ /\ lost'["toFpga"] = lost["toFpga"] + 1 /\ lost'["inFpga"] = lost["inFpga"]
           /\ down' = down /\ count' = count
        \/ /\ lost'["toFpga"] = lost["toFpga"] /\ lost'["inFpga"] = lost["inFpga"] + 1
           /\ down' = down /\ count'["fpgaRx"] = count["fpgaRx"] + 1
           /\ count'["fpgaTx"] = count["fpgaTx"]
        \/ /\ lost'["toFpga"] = lost["toFpga"] /\ lost'["inFpga"] = lost["inFpga"]
           /\ down' = down + 1 /\ count'["fpgaRx"] = count["fpgaRx"] + 1
           /\ count'["fpgaTx"] = count["fpgaTx"] + 1
    <3>1. {"fpgaRx"} \in SUBSET Counters /\ {"fpgaRx", "fpgaTx"} \in SUBSET Counters
      BY DEF Counters
    <3> QED BY <1>3, <3>1, FpgaEffect, Counting
  <2>3. count'["hostTx"] = count["hostTx"] /\ count'["hostRx"] = count["hostRx"]
    <3>1. {"fpgaRx"} \in SUBSET Counters /\ {"fpgaRx", "fpgaTx"} \in SUBSET Counters
      BY DEF Counters
    <3> QED BY <1>3, <3>1, FpgaEffect, Counting
  <2> QED BY <1>1, <1>2, <2>1, <2>2, <2>3
<1>4. CASE PacketAtHost
  <2>1. /\ down > 0 /\ down' = down - 1
        /\ UNCHANGED <<pc, exit, i, sent, drained, up, snap, late, foreign, unasked>>
        /\ lost'["toFpga"] = lost["toFpga"] /\ lost'["inFpga"] = lost["inFpga"]
    BY <1>4, HostEffect
  <2>2. \/ lost'["toHost"] = lost["toHost"] + 1 /\ count'["hostRx"] = count["hostRx"]
        \/ lost'["toHost"] = lost["toHost"] /\ count'["hostRx"] = count["hostRx"] + 1
    <3>1. {"hostRx"} \in SUBSET Counters
      BY DEF Counters
    <3> QED BY <1>4, <3>1, HostEffect, Counting
  <2>3. /\ count'["hostTx"] = count["hostTx"] /\ count'["fpgaRx"] = count["fpgaRx"]
        /\ count'["fpgaTx"] = count["fpgaTx"]
    <3>1. {"hostRx"} \in SUBSET Counters
      BY DEF Counters
    <3> QED BY <1>4, <3>1, HostEffect, Counting
  <2> QED BY <1>1, <1>2, <2>1, <2>2, <2>3
<1>5. CASE Broadcast
  <2>1. /\ UNCHANGED <<pc, exit, i, sent, drained, up, down, lost, snap, late, unasked>>
        /\ foreign' = foreign + 1 /\ count' = Counted({"fpgaRx", "hostRx"})
    BY <1>5 DEF Broadcast, transfer
  <2>2. {"fpgaRx", "hostRx"} \in SUBSET Counters
    BY DEF Counters
  <2>3. /\ count'["hostTx"] = count["hostTx"] /\ count'["fpgaRx"] = count["fpgaRx"] + 1
        /\ count'["fpgaTx"] = count["fpgaTx"] /\ count'["hostRx"] = count["hostRx"] + 1
    BY <2>1, <2>2, Counting
  <2> QED BY <1>1, <1>2, <2>1, <2>3
<1>6. CASE FloodPacket
  <2>1. /\ UNCHANGED <<pc, exit, i, sent, drained, up, down, snap, late, foreign>>
        /\ unasked' = unasked + 1 /\ HostReceives /\ count' = Counted({"fpgaTx", "hostRx"})
    BY <1>6 DEF FloodPacket, Bump
  <2>2. {"fpgaTx", "hostRx"} \in SUBSET Counters
    BY DEF Counters
  <2>3. /\ count'["hostTx"] = count["hostTx"] /\ count'["fpgaRx"] = count["fpgaRx"]
        /\ count'["fpgaTx"] = count["fpgaTx"] + 1 /\ count'["hostRx"] = count["hostRx"] + 1
    BY <2>1, <2>2, Counting
  <2>4. /\ lost'["toFpga"] = lost["toFpga"] /\ lost'["inFpga"] = lost["inFpga"]
        /\ lost'["toHost"] = lost["toHost"]
    BY <2>1, Receiving
  <2>5. AtFpga' = AtFpga /\ Echoed' = Echoed /\ AtHost' = AtHost
    BY <1>2, <2>1, <2>4
  <2>6. AtFpga \in Int /\ Echoed \in Int /\ AtHost \in Int
    BY <1>1, <1>2
  <2>7. UNCHANGED <<pc, exit, i, sent, drained, snap, late, foreign>> /\ unasked' = unasked + 1
    BY <2>1
  <2>8. /\ count'["fpgaRx"] - AtFpga' - foreign' = count["fpgaRx"] - AtFpga - foreign
        /\ count'["fpgaTx"] - Echoed' - unasked' = count["fpgaTx"] - Echoed - unasked
        /\ count'["hostRx"] - AtHost' - foreign' - unasked'
             = count["hostRx"] - AtHost - foreign - unasked
    <3>1. count'["fpgaRx"] - AtFpga' - foreign' = count["fpgaRx"] - AtFpga - foreign
      BY <2>3, <2>5, <2>7
    <3>2. count'["fpgaTx"] - Echoed' - unasked' = count["fpgaTx"] - Echoed - unasked
      BY <1>1, <2>3, <2>5, <2>6, <2>7
    <3>3. count'["hostRx"] - AtHost' - foreign' - unasked'
             = count["hostRx"] - AtHost - foreign - unasked
      BY <1>1, <2>3, <2>5, <2>6, <2>7
    <3> QED BY <3>1, <3>2, <3>3
  <2>9. /\ foreign' \in Int /\ unasked' \in Int /\ foreign' >= foreign /\ unasked' >= unasked
        /\ AtFpga' \in Int /\ Echoed' \in Int /\ AtHost' \in Int /\ AtHost' >= AtHost
    BY <1>1, <2>5, <2>6, <2>7
  <2> QED BY <2>3, <2>5, <2>7, <2>8, <2>9
<1> QED BY <1>3, <1>4, <1>5, <1>6

\* What a status query leaves in the counters and in its snapshot.
LEMMA QueryEffect ==
  ASSUME TypeOK, CountCap = 0, SnapshotFpga
  PROVE  /\ pc \in {"fpga0", "fpga1"}
         /\ UNCHANGED <<i, sent, drained, up, down, lost, foreign, unasked, late>>
         /\ \/ /\ pc' = IF pc = "fpga0" THEN "host0" ELSE "disable"
               /\ exit' = exit
               /\ count'["hostTx"] = count["hostTx"] + 1
               /\ count'["fpgaRx"] = count["fpgaRx"] + 1
               /\ count'["fpgaTx"] = count["fpgaTx"] + 1
               /\ count'["hostRx"] = count["hostRx"] + 1
               /\ snap'[pc]["fpgaRx"] = count["fpgaRx"]
               /\ snap'[pc]["fpgaTx"] = count["fpgaTx"]
               /\ \A s \in Snapshots \ {pc} : snap'[s] = snap[s]
            \/ pc' = "exit" /\ exit' = "error"
<1>1. /\ pc \in {"fpga0", "fpga1"} /\ FpgaSnapshot(pc)
      /\ UNCHANGED <<i, sent, drained, up, down, lost, foreign, unasked, late>>
  BY DEF SnapshotFpga, transfer, others
<1>2. CASE pc' = "exit" /\ exit' = "error"
  BY <1>1, <1>2
<1>3. CASE ~(pc' = "exit" /\ exit' = "error")
  <2> DEFINE a == [count EXCEPT !["fpgaRx"] = Bump(@)]
             b == [a EXCEPT !["fpgaRx"] = @ - 1]
  <2>1. /\ snap' = [snap EXCEPT ![pc] = b] /\ count' = Counted(Counters) /\ exit' = exit
        /\ pc' = IF pc = "fpga0" THEN "host0" ELSE "disable"
    BY <1>1, <1>3 DEF FpgaSnapshot, Quit
  <2>2. /\ count \in [Counters -> Nat] /\ snap \in [Snapshots -> [Counters -> Nat]]
        /\ pc \in Snapshots /\ "fpgaRx" \in Counters /\ "fpgaTx" \in Counters
    BY <1>1 DEF TypeOK, Snapshots, Counters
  <2>3. /\ a \in [Counters -> Int] /\ a["fpgaRx"] = count["fpgaRx"] + 1
        /\ a["fpgaTx"] = count["fpgaTx"]
    BY <2>2 DEF Bump
  <2> HIDE DEF a
  <2>4. b["fpgaRx"] = count["fpgaRx"] /\ b["fpgaTx"] = count["fpgaTx"]
    BY <2>2, <2>3
  <2> HIDE DEF b
  <2>5. snap'[pc] = b /\ \A s \in Snapshots \ {pc} : snap'[s] = snap[s]
    BY <2>1, <2>2
  <2>6. Counters \in SUBSET Counters
    OBVIOUS
  <2>7. /\ count'["hostTx"] = count["hostTx"] + 1 /\ count'["fpgaRx"] = count["fpgaRx"] + 1
        /\ count'["fpgaTx"] = count["fpgaTx"] + 1 /\ count'["hostRx"] = count["hostRx"] + 1
    BY <2>1, <2>6, Counting DEF Counters
  <2> QED BY <1>1, <2>1, <2>4, <2>5, <2>7
<1> QED BY <1>2, <1>3

\* Every step keeps the counters in agreement with what came.
LEMMA CountersNext ==
  ASSUME CountCap = 0, EndInv, PacketsKept, CountersCount, [Next]_vars
  PROVE  CountersCount'
<1> USE DEF transfer, others, Done, HasFpga1
<1>1. /\ TypeOK /\ RowsInOrder /\ PacketsKept /\ CountersCount
      /\ sent \in Int /\ foreign \in Int /\ unasked \in Int
      /\ AtFpga \in Int /\ Echoed \in Int /\ AtHost \in Int
      /\ count["hostTx"] \in Int /\ count["fpgaRx"] \in Int /\ count["fpgaTx"] \in Int
      /\ count["hostRx"] \in Int /\ Queries \in Int
      /\ exit = "ok" => pc = "exit"
      /\ pc = "exit" => exit # "none"
  BY Integral, Sums DEF EndInv, RowsInOrder, Queries
<1>2. ASSUME UNCHANGED <<sent, up, down, lost, count, foreign, unasked>>,
             \/ pc' = "exit" /\ exit' = "error"
             \/ pc # "exit" /\ Queries' = Queries
             \/ pc' = pc /\ exit' = exit
      PROVE  CountersCount'
  <2>1. AtFpga' = AtFpga /\ Echoed' = Echoed /\ AtHost' = AtHost
    BY <1>2 DEF AtHost, Echoed, AtFpga
  <2>2. CASE pc' = "exit" /\ exit' = "error"
    BY <2>2 DEF CountersCount
  <2>3. CASE pc # "exit" /\ Queries' = Queries
    BY <1>1, <1>2, <2>1, <2>3 DEF CountersCount
  <2>4. CASE pc' = pc /\ exit' = exit
    <3>1. Queries' = Queries
      BY <2>4 DEF Queries
    <3> QED BY <1>1, <1>2, <2>1, <2>4, <3>1 DEF CountersCount
  <2> QED BY <1>2, <2>2, <2>3, <2>4
<1>3. CASE Enable \/ Disable
  <2>1. UNCHANGED <<sent, up, down, lost, count, foreign, unasked>>
        /\ (Enable => pc = "enable") /\ (Disable => pc = "disable")
    BY <1>3 DEF Enable, Disable
  <2>2. \/ Enable /\ pc' = "fpga0"
        \/ Disable /\ pc' = "loadrow"
        \/ pc' = "exit" /\ exit' = "error"
    BY <1>1, <1>3, Switching
  <2>3. \/ pc # "exit" /\ Queries' = Queries
        \/ pc' = "exit" /\ exit' = "error"
    BY <2>1, <2>2 DEF Queries
  <2> QED BY <1>2, <2>1, <2>3
<1>4. CASE SnapshotFpga
  <2>1. /\ pc \in {"fpga0", "fpga1"} /\ UNCHANGED <<sent, up, down, lost, foreign, unasked>>
        /\ \/ /\ pc' = IF pc = "fpga0" THEN "host0" ELSE "disable"
              /\ exit' = exit
              /\ count'["hostTx"] = count["hostTx"] + 1
              /\ count'["fpgaRx"] = count["fpgaRx"] + 1
              /\ count'["fpgaTx"] = count["fpgaTx"] + 1
              /\ count'["hostRx"] = count["hostRx"] + 1
           \/ pc' = "exit" /\ exit' = "error"
    BY <1>1, <1>4, QueryEffect
  <2>2. AtFpga' = AtFpga /\ Echoed' = Echoed /\ AtHost' = AtHost
    BY <2>1 DEF AtHost, Echoed, AtFpga
  <2>3. CASE pc' = "exit" /\ exit' = "error"
    BY <2>3 DEF CountersCount
  <2>4. CASE pc' = (IF pc = "fpga0" THEN "host0" ELSE "disable") /\ exit' = exit
    <3>1. Queries' = Queries + 1
      BY <1>1, <2>1, <2>4 DEF Queries
    <3>2. /\ count["hostTx"] = sent + Queries
          /\ count["fpgaRx"] = AtFpga + foreign + Queries
          /\ count["fpgaTx"] = Echoed + unasked + Queries
          /\ count["hostRx"] = AtHost + foreign + unasked + Queries
      BY <1>1, <2>1 DEF CountersCount
    <3>3. /\ count'["hostTx"] = count["hostTx"] + 1 /\ count'["fpgaRx"] = count["fpgaRx"] + 1
          /\ count'["fpgaTx"] = count["fpgaTx"] + 1 /\ count'["hostRx"] = count["hostRx"] + 1
          /\ sent' = sent /\ foreign' = foreign /\ unasked' = unasked
      BY <2>1, <2>4
    <3> QED BY <1>1, <2>2, <3>1, <3>2, <3>3 DEF CountersCount
  <2> QED BY <2>1, <2>3, <2>4
<1>5. CASE SnapshotHost
  <2>1. UNCHANGED <<sent, up, down, lost, count, foreign, unasked>>
    BY <1>5 DEF SnapshotHost
  <2>2. \/ pc = "host0" /\ pc' = "open"
        \/ pc = "host1" /\ pc' = "fpga1"
        \/ pc' = "exit" /\ exit' = "error"
    BY <1>5 DEF SnapshotHost, Quit
  <2>3. \/ pc # "exit" /\ Queries' = Queries
        \/ pc' = "exit" /\ exit' = "error"
    <3>1. (pc = "host0" \/ pc = "host1") /\ pc' # "exit" => exit' = exit
      BY <1>5 DEF SnapshotHost, Quit
    <3> QED BY <1>1, <2>2, <3>1 DEF Queries
  <2> QED BY <1>2, <2>1, <2>3
<1>6. CASE WriteRow
  <2>1. UNCHANGED <<sent, up, down, lost, count, foreign, unasked>>
        /\ pc \in {"loadrow", "lossrow"}
    BY <1>6 DEF WriteRow
  <2>2. \/ pc' = "lossrow"
        \/ pc' = "exit" /\ exit' = "ok"
        \/ pc' = "exit" /\ exit' = "error"
    BY <1>6 DEF WriteRow, Quit
  <2>3. \/ pc # "exit" /\ Queries' = Queries
        \/ pc' = "exit" /\ exit' = "error"
    BY <2>1, <2>2 DEF Queries
  <2> QED BY <1>2, <2>1, <2>3
<1>7. CASE OpenSockets \/ SendLoopEnds \/ DrainInner \/ DrainPacket \/ DrainPoll \/ DrainFails
  <2>1. UNCHANGED <<sent, up, down, lost, count, foreign, unasked>>
    BY <1>7 DEF OpenSockets, SendLoopEnds, DrainInner, DrainPacket, DrainPoll, DrainFails
  <2>2. \/ pc' = "exit" /\ exit' = "error"
        \/ /\ pc \in {"open", "send", "inner", "drain"} /\ exit' = exit
           /\ pc' \in {"send", "inner", "drain", "host1"}
    BY <1>7
    DEF OpenSockets, SendLoopEnds, DrainInner, DrainPacket, DrainPoll, DrainFails, Quit
  <2>3. \/ pc # "exit" /\ Queries' = Queries
        \/ pc' = "exit" /\ exit' = "error"
    BY <1>1, <2>2 DEF Queries
  <2> QED BY <1>2, <2>1, <2>3
<1>8. CASE SendPacket
  <2>1. /\ UNCHANGED <<down, lost, foreign, unasked, exit>>
        /\ pc = "send" /\ pc' \in {"send", "inner"}
        /\ \/ sent' = sent + 1 /\ up' = up + 1 /\ count' = Counted({"hostTx"})
           \/ UNCHANGED <<sent, up, count>>
    BY <1>8 DEF SendPacket
  <2>2. Queries' = Queries
    BY <1>1, <2>1 DEF Queries
  <2>3. CASE UNCHANGED <<sent, up, count>>
    BY <1>2, <2>1, <2>2, <2>3
  <2>4. CASE sent' = sent + 1 /\ up' = up + 1 /\ count' = Counted({"hostTx"})
    <3>1. AtFpga' = AtFpga /\ Echoed' = Echoed /\ AtHost' = AtHost
      BY <1>1, <2>1, <2>4, Integral DEF AtHost, Echoed, AtFpga
    <3>2. {"hostTx"} \in SUBSET Counters
      BY DEF Counters
    <3>3. /\ count'["hostTx"] = count["hostTx"] + 1 /\ count'["fpgaRx"] = count["fpgaRx"]
          /\ count'["fpgaTx"] = count["fpgaTx"] /\ count'["hostRx"] = count["hostRx"]
      BY <1>1, <2>4, <3>2, Counting
    <3>4. /\ count["hostTx"] = sent + Queries
          /\ count["fpgaRx"] = AtFpga + foreign + Queries
          /\ count["fpgaTx"] = Echoed + unasked + Queries
          /\ count["hostRx"] = AtHost + foreign + unasked + Queries
      BY <1>1, <2>1 DEF CountersCount
    <3>5. sent' = sent + 1 /\ foreign' = foreign /\ unasked' = unasked
      BY <2>1, <2>4
    <3> QED BY <1>1, <2>2, <3>1, <3>3, <3>4, <3>5 DEF CountersCount
  <2> QED BY <2>1, <2>3, <2>4
<1>9. CASE PacketAtFpga \/ PacketAtHost \/ Broadcast \/ FloodPacket
  <2>1. /\ UNCHANGED <<pc, exit, sent>>
        /\ foreign' \in Int /\ unasked' \in Int
        /\ AtFpga' \in Int /\ Echoed' \in Int /\ AtHost' \in Int
        /\ count'["hostTx"] = count["hostTx"]
        /\ count'["fpgaRx"] - AtFpga' - foreign' = count["fpgaRx"] - AtFpga - foreign
        /\ count'["fpgaTx"] - Echoed' - unasked' = count["fpgaTx"] - Echoed - unasked
        /\ count'["hostRx"] - AtHost' - foreign' - unasked'
             = count["hostRx"] - AtHost - foreign - unasked
    BY <1>1, <1>9, NetworkEffect
  <2>2. TypeOK'
    BY <1>1, TypeNext
  <2>3. /\ count'["fpgaRx"] \in Int /\ count'["fpgaTx"] \in Int /\ count'["hostRx"] \in Int
    BY <2>2 DEF TypeOK, Counters
  <2>4. Queries' = Queries
    BY <2>1 DEF Queries
  <2>5. SUFFICES ASSUME pc # "exit" \/ exit = "ok"
                 PROVE  /\ count'["hostTx"] = sent' + Queries'
                        /\ count'["fpgaRx"] = AtFpga' + foreign' + Queries'
                        /\ count'["fpgaTx"] = Echoed' + unasked' + Queries'
                        /\ count'["hostRx"] = AtHost' + foreign' + unasked' + Queries'
    BY <2>1 DEF CountersCount
  <2>6. /\ count["hostTx"] = sent + Queries
        /\ count["fpgaRx"] = AtFpga + foreign + Queries
        /\ count["fpgaTx"] = Echoed + unasked + Queries
        /\ count["hostRx"] = AtHost + foreign + unasked + Queries
    BY <1>1, <2>5 DEF CountersCount
  <2>7. count'["fpgaRx"] = AtFpga' + foreign' + Queries'
    BY <1>1, <2>1, <2>3, <2>4, <2>6
  <2>8. count'["fpgaTx"] = Echoed' + unasked' + Queries'
    BY <1>1, <2>1, <2>3, <2>4, <2>6
  <2>9. count'["hostRx"] = AtHost' + foreign' + unasked' + Queries'
    BY <1>1, <2>1, <2>3, <2>4, <2>6
  <2> QED BY <2>1, <2>4, <2>6, <2>7, <2>8, <2>9
<1>10. CASE UNCHANGED vars
  BY <1>2, <1>10 DEF vars
<1> QED
  BY <1>3, <1>4, <1>5, <1>6, <1>7, <1>8, <1>9, <1>10 DEF Next, Host, Network

\* The numbers in the snapshots.
LEMMA SnapshotNumbers ==
  ASSUME TypeOK, NEW s \in Snapshots, NEW k \in Counters
  PROVE  snap[s][k] \in Nat
  BY DEF TypeOK

\* A step that takes no snapshot and, once the last ones are being taken, moves nothing
\* the row is about keeps what the snapshots say.
LEMMA SnapshotsKept ==
  ASSUME TypeOK, PacketsKept, SnapshotsHold, snap' = snap,
         foreign' \in Int, unasked' \in Int, foreign' >= foreign, unasked' >= unasked,
         AtHost' \in Int,
         HasFpga0' => HasFpga0, HasHost0' => HasHost0,
         HasHost1' => HasHost1, HasFpga1' => HasFpga1,
         HasHost1 => /\ sent' = sent /\ drained' = drained /\ late' = late /\ AtHost' >= AtHost
                     /\ ~late => AtFpga' = AtFpga /\ Echoed' = Echoed /\ AtHost' = AtHost
  PROVE  SnapshotsHold'
<1>1. /\ sent \in Int /\ drained \in Int /\ foreign \in Int /\ unasked \in Int
      /\ AtFpga \in Int /\ Echoed \in Int /\ AtHost \in Int
      /\ \A s \in Snapshots : \A k \in Counters : snap[s][k] \in Int
  BY Integral, Sums, SnapshotNumbers
<1> DEFINE fpga0Rx == snap["fpga0"]["fpgaRx"]
           fpga0Tx == snap["fpga0"]["fpgaTx"]
           host0Rx == snap["host0"]["hostRx"]
           host1Rx == snap["host1"]["hostRx"]
           host1Tx == snap["host1"]["hostTx"]
           fpga1Rx == snap["fpga1"]["fpgaRx"]
           fpga1Tx == snap["fpga1"]["fpgaTx"]
<1>2. {fpga0Rx, fpga0Tx, host0Rx, host1Rx, host1Tx, fpga1Rx, fpga1Tx} \subseteq Int
  BY <1>1 DEF Snapshots, Counters
<1>3. HasFpga0' => fpga0Rx <= foreign' /\ fpga0Tx <= unasked'
  <2>1. SUFFICES ASSUME HasFpga0 PROVE fpga0Rx <= foreign' /\ fpga0Tx <= unasked'
    OBVIOUS
  <2>2. fpga0Rx <= foreign /\ fpga0Tx <= unasked
    BY <2>1 DEF SnapshotsHold
  <2> QED BY <1>1, <1>2, <2>2
<1>4. HasHost0' => snap["host0"]["hostTx"] = 1 /\ host0Rx \in 1..(1 + foreign' + unasked')
  <2>1. SUFFICES ASSUME HasHost0
                 PROVE  snap["host0"]["hostTx"] = 1 /\ host0Rx \in 1..(1 + foreign' + unasked')
    OBVIOUS
  <2>2. snap["host0"]["hostTx"] = 1 /\ host0Rx \in 1..(1 + foreign + unasked)
    BY <2>1 DEF SnapshotsHold
  <2> QED BY <1>1, <1>2, <2>2
<1>5. HasHost1' => /\ host1Tx = sent' + 1
                   /\ drained' + 1 <= host1Rx
                   /\ host1Rx <= AtHost' + foreign' + unasked' + 1
                   /\ ~late' => AtHost' + host0Rx <= host1Rx
  <2>1. SUFFICES ASSUME HasHost1
                 PROVE  /\ host1Tx = sent' + 1
                        /\ drained' + 1 <= host1Rx
                        /\ host1Rx <= AtHost' + foreign' + unasked' + 1
                        /\ ~late' => AtHost' + host0Rx <= host1Rx
    OBVIOUS
  <2>2. /\ host1Tx = sent + 1
        /\ drained + 1 <= host1Rx
        /\ host1Rx <= AtHost + foreign + unasked + 1
        /\ ~late => AtHost + host0Rx <= host1Rx
    BY <2>1 DEF SnapshotsHold
  <2>3. /\ sent' = sent /\ drained' = drained /\ late' = late /\ AtHost' >= AtHost
        /\ ~late => AtHost' = AtHost
    BY <2>1
  <2>4. host1Rx <= AtHost' + foreign' + unasked' + 1
    BY <1>1, <1>2, <2>2, <2>3
  <2> QED BY <1>1, <1>2, <2>2, <2>3, <2>4
<1>6. HasFpga1' => /\ fpga1Rx <= host1Tx + foreign'
                   /\ fpga1Tx <= fpga1Rx + unasked'
                   /\ host1Rx <= fpga1Tx + foreign'
                   /\ ~late' => /\ fpga1Rx - AtFpga' - 1 \in fpga0Rx..foreign'
                                /\ fpga1Tx - Echoed' - 1 \in fpga0Tx..unasked'
  <2>1. SUFFICES ASSUME HasFpga1
                 PROVE  /\ fpga1Rx <= host1Tx + foreign'
                        /\ fpga1Tx <= fpga1Rx + unasked'
                        /\ host1Rx <= fpga1Tx + foreign'
                        /\ ~late' => /\ fpga1Rx - AtFpga' - 1 \in fpga0Rx..foreign'
                                     /\ fpga1Tx - Echoed' - 1 \in fpga0Tx..unasked'
    OBVIOUS
  <2>2. /\ fpga1Rx <= host1Tx + foreign
        /\ fpga1Tx <= fpga1Rx + unasked
        /\ host1Rx <= fpga1Tx + foreign
        /\ ~late => /\ fpga1Rx - AtFpga - 1 \in fpga0Rx..foreign
                    /\ fpga1Tx - Echoed - 1 \in fpga0Tx..unasked
    BY <2>1 DEF SnapshotsHold
  <2>3. late' = late /\ (~late => AtFpga' = AtFpga /\ Echoed' = Echoed)
    BY <2>1 DEF HasFpga1, HasHost1
  <2>4. fpga1Rx <= host1Tx + foreign' /\ fpga1Tx <= fpga1Rx + unasked'
        /\ host1Rx <= fpga1Tx + foreign'
    BY <1>1, <1>2, <2>2
  <2>5. ASSUME ~late
        PROVE  /\ fpga1Rx - AtFpga' - 1 \in fpga0Rx..foreign'
               /\ fpga1Tx - Echoed' - 1 \in fpga0Tx..unasked'
    BY <1>1, <1>2, <2>2, <2>3, <2>5
  <2> QED BY <2>3, <2>4, <2>5
<1> QED BY <1>3, <1>4, <1>5, <1>6 DEF SnapshotsHold

\* What the two queries write down.
LEMMA FpgaSnapshots ==
  ASSUME CountCap = 0, EndInv, PacketsKept, CountersCount, SnapshotsHold, SnapshotFpga
  PROVE  SnapshotsHold'
<1> USE DEF Done, HasFpga0, HasHost0, HasHost1, HasFpga1, Drained
<1>1. /\ TypeOK /\ sent \in Int /\ drained \in Int /\ foreign \in Nat /\ unasked \in Nat
      /\ AtFpga \in Int /\ Echoed \in Int /\ AtHost \in Int /\ queue \in Nat
      /\ AtHost <= Echoed /\ Echoed <= AtFpga /\ AtFpga <= sent
      /\ i = 0 => AtFpga = 0 /\ Echoed = 0
      /\ \A s \in Snapshots : \A k \in Counters : snap[s][k] \in Int
  BY Integral, Sums, SnapshotNumbers DEF EndInv
<1>2. /\ pc \in {"fpga0", "fpga1"} /\ exit # "ok"
      /\ UNCHANGED <<i, sent, drained, up, down, lost, foreign, unasked, late>>
      /\ \/ /\ pc' = IF pc = "fpga0" THEN "host0" ELSE "disable"
            /\ exit' = exit
            /\ snap'[pc]["fpgaRx"] = count["fpgaRx"]
            /\ snap'[pc]["fpgaTx"] = count["fpgaTx"]
            /\ \A s \in Snapshots \ {pc} : snap'[s] = snap[s]
         \/ pc' = "exit" /\ exit' = "error"
  BY <1>1, QueryEffect DEF EndInv, RowsInOrder
<1>3. AtFpga' = AtFpga /\ Echoed' = Echoed /\ AtHost' = AtHost
  BY <1>2 DEF AtHost, Echoed, AtFpga
<1>4. CASE pc' = "exit" /\ exit' = "error"
  BY <1>4 DEF SnapshotsHold
<1>5. CASE pc = "fpga0" /\ pc' = "host0" /\ exit' = exit
  <2>1. snap'["fpga0"]["fpgaRx"] = foreign /\ snap'["fpga0"]["fpgaTx"] = unasked
    <3>1. count["fpgaRx"] = foreign /\ count["fpgaTx"] = unasked
      BY <1>1, <1>5 DEF CountersCount, Queries, PacketsKept
    <3> QED BY <1>2, <1>5, <3>1
  <2>2. HasFpga0' => snap'["fpga0"]["fpgaRx"] <= foreign' /\ snap'["fpga0"]["fpgaTx"] <= unasked'
    BY <1>1, <1>2, <2>1
  <2>3. ~HasHost0' /\ ~HasHost1' /\ ~HasFpga1'
    BY <1>2, <1>5
  <2> QED BY <2>2, <2>3 DEF SnapshotsHold
<1>6. CASE pc = "fpga1" /\ pc' = "disable" /\ exit' = exit
  <2>1. /\ snap'["fpga1"]["fpgaRx"] = AtFpga + foreign + 1
        /\ snap'["fpga1"]["fpgaTx"] = Echoed + unasked + 1
    <3>1. count["fpgaRx"] = AtFpga + foreign + 1 /\ count["fpgaTx"] = Echoed + unasked + 1
      BY <1>2, <1>6 DEF CountersCount, Queries
    <3> QED BY <1>2, <1>6, <3>1
  <2>2. snap'["fpga0"] = snap["fpga0"] /\ snap'["host0"] = snap["host0"]
        /\ snap'["host1"] = snap["host1"]
    BY <1>2, <1>6 DEF Snapshots
  <2>3. /\ snap["fpga0"]["fpgaRx"] \in Int /\ snap["fpga0"]["fpgaTx"] \in Int
        /\ snap["host0"]["hostRx"] \in Int /\ snap["host1"]["hostRx"] \in Int
    BY <1>1 DEF Snapshots, Counters
  <2>4. /\ snap["fpga0"]["fpgaRx"] <= foreign /\ snap["fpga0"]["fpgaTx"] <= unasked
        /\ snap["host0"]["hostTx"] = 1
        /\ snap["host0"]["hostRx"] \in 1..(1 + foreign + unasked)
        /\ snap["host1"]["hostTx"] = sent + 1
        /\ drained + 1 <= snap["host1"]["hostRx"]
        /\ snap["host1"]["hostRx"] <= AtHost + foreign + unasked + 1
        /\ ~late => AtHost + snap["host0"]["hostRx"] <= snap["host1"]["hostRx"]
    BY <1>6 DEF SnapshotsHold
  <2>5. /\ snap'["fpga1"]["fpgaRx"] <= snap'["host1"]["hostTx"] + foreign'
        /\ snap'["fpga1"]["fpgaTx"] <= snap'["fpga1"]["fpgaRx"] + unasked'
        /\ snap'["host1"]["hostRx"] <= snap'["fpga1"]["fpgaTx"] + foreign'
    BY <1>1, <1>2, <2>1, <2>2, <2>3, <2>4
  <2>6. /\ snap'["fpga1"]["fpgaRx"] - AtFpga' - 1 \in snap'["fpga0"]["fpgaRx"]..foreign'
        /\ snap'["fpga1"]["fpgaTx"] - Echoed' - 1 \in snap'["fpga0"]["fpgaTx"]..unasked'
    BY <1>1, <1>2, <1>3, <2>1, <2>2, <2>3, <2>4
  <2>7. UNCHANGED <<sent, drained, foreign, unasked, late>>
    BY <1>2
  <2> QED BY <1>3, <2>2, <2>4, <2>5, <2>6, <2>7 DEF SnapshotsHold
<1> QED BY <1>2, <1>4, <1>5, <1>6

\* And the two readings of the interface.
LEMMA HostSnapshots ==
  ASSUME CountCap = 0, EndInv, PacketsKept, CountersCount, SnapshotsHold, SnapshotHost
  PROVE  SnapshotsHold'
<1> USE DEF Done, HasFpga0, HasHost0, HasHost1, HasFpga1, Drained
<1>1. /\ TypeOK /\ sent \in Int /\ drained \in Int /\ foreign \in Nat /\ unasked \in Nat
      /\ AtFpga \in Int /\ Echoed \in Int /\ AtHost \in Int /\ queue \in Nat
      /\ lost["socket"] \in Nat
      /\ AtHost + unasked = queue + drained + lost["socket"]
      /\ i = 0 => sent = 0 /\ AtHost = 0
      /\ snap \in [Snapshots -> [Counters -> Nat]] /\ count \in [Counters -> Nat]
  BY Integral, Sums DEF EndInv, TypeOK, PacketsKept
<1>2. /\ pc \in {"host0", "host1"} /\ exit # "ok"
      /\ UNCHANGED <<i, sent, drained, up, down, lost, foreign, unasked, late>>
      /\ \/ /\ pc' = IF pc = "host0" THEN "open" ELSE "fpga1"
            /\ exit' = exit
            /\ snap' = [snap EXCEPT ![pc] = count]
         \/ pc' = "exit" /\ exit' = "error"
  BY DEF SnapshotHost, Quit, EndInv, RowsInOrder, transfer, others
<1>3. AtFpga' = AtFpga /\ Echoed' = Echoed /\ AtHost' = AtHost
  BY <1>2 DEF AtHost, Echoed, AtFpga
<1>4. CASE pc' = "exit" /\ exit' = "error"
  BY <1>4 DEF SnapshotsHold
<1>5. CASE pc' # "exit"
  <2>1. /\ pc' = IF pc = "host0" THEN "open" ELSE "fpga1"
        /\ exit' = exit
        /\ snap' = [snap EXCEPT ![pc] = count]
    BY <1>2, <1>5
  <2>2. count["hostTx"] = sent + 1 /\ count["hostRx"] = AtHost + foreign + unasked + 1
    BY <1>2 DEF CountersCount, Queries
  <2>3. snap'["fpga0"] = snap["fpga0"] /\ snap'[pc] = count
    BY <1>1, <1>2, <2>1 DEF Snapshots
  <2>4. snap["fpga0"]["fpgaRx"] <= foreign /\ snap["fpga0"]["fpgaTx"] <= unasked
    BY <1>2 DEF SnapshotsHold
  <2>5. ~HasFpga1'
    BY <1>2, <2>1
  <2>6. CASE pc = "host0"
    <3>1. sent = 0 /\ AtHost = 0
      BY <1>1, <2>6 DEF PacketsKept
    <3>2. snap'["host0"]["hostTx"] = 1 /\ snap'["host0"]["hostRx"] = foreign + unasked + 1
      BY <1>1, <2>2, <2>3, <2>6, <3>1
    <3>3. snap'["host0"]["hostRx"] \in 1..(1 + foreign' + unasked')
      BY <1>1, <1>2, <3>2
    <3>4. ~HasHost1'
      BY <1>2, <2>1, <2>6
    <3>5. UNCHANGED <<foreign, unasked>>
      BY <1>2
    <3> QED BY <2>3, <2>4, <2>5, <3>2, <3>3, <3>4, <3>5 DEF SnapshotsHold
  <2>7. CASE pc = "host1"
    <3>1. snap'["host0"] = snap["host0"]
      BY <1>1, <2>1, <2>7 DEF Snapshots
    <3>2. /\ snap["host0"]["hostTx"] = 1
          /\ snap["host0"]["hostRx"] \in 1..(1 + foreign + unasked)
      BY <2>7 DEF SnapshotsHold
    <3>3. /\ snap'["host1"]["hostTx"] = sent + 1
          /\ snap'["host1"]["hostRx"] = AtHost + foreign + unasked + 1
      BY <2>2, <2>3, <2>7
    <3>4. UNCHANGED <<foreign, unasked, sent, drained, late>>
      BY <1>2
    <3>5. /\ drained' + 1 <= snap'["host1"]["hostRx"]
          /\ snap'["host1"]["hostRx"] <= AtHost' + foreign' + unasked' + 1
          /\ AtHost' + snap'["host0"]["hostRx"] <= snap'["host1"]["hostRx"]
      BY <1>1, <1>3, <3>1, <3>2, <3>3, <3>4
    <3> QED BY <2>3, <2>4, <2>5, <3>1, <3>2, <3>3, <3>4, <3>5 DEF SnapshotsHold
  <2> QED BY <1>2, <2>6, <2>7
<1> QED BY <1>2, <1>4, <1>5

\* Every step keeps what the snapshots say.
LEMMA SnapshotsNext ==
  ASSUME CountCap = 0, EndInv, PacketsKept, CountersCount, SnapshotsHold, [Next]_vars
  PROVE  SnapshotsHold'
<1> USE DEF Done, HasFpga0, HasHost0, HasHost1, HasFpga1, Drained, transfer, others
<1>1. /\ TypeOK /\ foreign \in Int /\ unasked \in Int /\ AtHost \in Int
      /\ (exit = "ok" => pc = "exit")
  BY Integral, Sums DEF EndInv, RowsInOrder
<1>2. CASE SnapshotFpga
  BY <1>2, FpgaSnapshots
<1>3. CASE SnapshotHost
  BY <1>3, HostSnapshots
<1>4. ASSUME UNCHANGED <<snap, sent, drained, up, down, lost, foreign, unasked, late>>,
             \/ pc' = "exit" /\ exit' = "error"
             \/ pc' = pc /\ exit' = exit
             \/ pc = "enable" /\ pc' = "fpga0" /\ exit' = exit
             \/ pc \in {"disable", "loadrow", "lossrow"}
      PROVE  SnapshotsHold'
  <2>1. AtFpga' = AtFpga /\ Echoed' = Echoed /\ AtHost' = AtHost
    BY <1>4 DEF AtHost, Echoed, AtFpga
  <2>2. /\ (HasFpga0' => HasFpga0) /\ (HasHost0' => HasHost0)
        /\ (HasHost1' => HasHost1) /\ (HasFpga1' => HasFpga1)
    BY <1>1, <1>4
  <2> QED BY <1>1, <1>4, <2>1, <2>2, SnapshotsKept
<1>5. CASE Enable \/ Disable
  <2>1. UNCHANGED <<snap, sent, drained, up, down, lost, foreign, unasked, late>>
        /\ (Enable => pc = "enable") /\ (Disable => pc = "disable")
    BY <1>5 DEF Enable, Disable
  <2>2. \/ Enable /\ pc' = "fpga0" /\ exit' = exit
        \/ Disable
        \/ pc' = "exit" /\ exit' = "error"
    BY <1>1, <1>5, Switching
  <2> QED BY <1>4, <2>1, <2>2
<1>6. CASE WriteRow
  <2>1. UNCHANGED <<snap, sent, drained, up, down, lost, foreign, unasked, late>>
        /\ pc \in {"loadrow", "lossrow"}
    BY <1>6 DEF WriteRow
  <2> QED BY <1>4, <2>1
<1>7. CASE OpenSockets \/ SendPacket \/ SendLoopEnds \/ DrainInner \/ DrainPacket
           \/ DrainPoll \/ DrainFails
  <2>1. UNCHANGED <<snap, down, lost, foreign, unasked>>
    BY <1>7
    DEF OpenSockets, SendPacket, SendLoopEnds, DrainInner, DrainPacket, DrainPoll, DrainFails
  <2>2. /\ pc \in {"open", "send", "inner", "drain"}
        /\ \/ pc' \in {"send", "inner", "drain", "host1"} /\ exit' = exit
           \/ pc' = "exit" /\ exit' = "error"
    BY <1>7
    DEF OpenSockets, SendPacket, SendLoopEnds, DrainInner, DrainPacket, DrainPoll, DrainFails,
        Quit
  <2>3. /\ (HasFpga0' => HasFpga0) /\ (HasHost0' => HasHost0)
        /\ (HasHost1' => HasHost1) /\ (HasFpga1' => HasFpga1) /\ ~HasHost1
    BY <1>1, <2>2
  <2>4. AtHost' \in Int
    <3>1. TypeOK'
      BY <1>1, TypeNext
    <3>2. /\ sent' \in Int /\ up' \in Int /\ down' \in Int /\ lost'["toFpga"] \in Int
          /\ lost'["inFpga"] \in Int /\ lost'["toHost"] \in Int
      BY <3>1 DEF TypeOK, Places
    <3> QED BY <3>2 DEF AtHost, Echoed, AtFpga
  <2> QED BY <1>1, <2>1, <2>3, <2>4, SnapshotsKept
<1>8. CASE PacketAtFpga \/ PacketAtHost \/ Broadcast \/ FloodPacket
  <2>1. /\ UNCHANGED <<pc, exit, sent, drained, snap, late>>
        /\ foreign' \in Int /\ unasked' \in Int /\ foreign' >= foreign /\ unasked' >= unasked
        /\ AtHost' \in Int /\ AtHost' >= AtHost
        /\ up = 0 => AtFpga' = AtFpga /\ Echoed' = Echoed
        /\ down = 0 => AtHost' = AtHost
    BY <1>1, <1>8, NetworkEffect
  <2>2. HasHost1 /\ ~late => up = 0 /\ down = 0
    BY DEF PacketsKept
  <2>3. /\ (HasFpga0' => HasFpga0) /\ (HasHost0' => HasHost0)
        /\ (HasHost1' => HasHost1) /\ (HasFpga1' => HasFpga1)
    BY <2>1
  <2> QED BY <1>1, <2>1, <2>2, <2>3, SnapshotsKept
<1>9. CASE UNCHANGED vars
  BY <1>4, <1>9 DEF vars
<1> QED
  BY <1>2, <1>3, <1>5, <1>6, <1>7, <1>8, <1>9 DEF Next, Host, Network

\* The start.
LEMMA CountInit == Init => CountInv
<1> SUFFICES ASSUME Init PROVE CountInv
  OBVIOUS
<1> USE DEF Done, Drained, HasFpga0, HasHost0, HasHost1, HasFpga1
<1>1. EndInv
  BY EndInit
<1>2. /\ pc = "enable" /\ exit = "none" /\ i = 0 /\ sent = 0 /\ errors = 0 /\ drained = 0
      /\ up = 0 /\ down = 0 /\ queue = 0 /\ foreign = 0 /\ unasked = 0
      /\ lost["toFpga"] = 0 /\ lost["inFpga"] = 0 /\ lost["toHost"] = 0 /\ lost["socket"] = 0
      /\ count["hostTx"] = 0 /\ count["fpgaRx"] = 0 /\ count["fpgaTx"] = 0
      /\ count["hostRx"] = 0
  BY DEF Init, Places, Counters
<1>3. AtFpga = 0 /\ Echoed = 0 /\ AtHost = 0
  BY <1>2 DEF AtHost, Echoed, AtFpga
<1>4. PacketsKept
  BY <1>2, <1>3, Numbers DEF PacketsKept
<1>5. CountersCount
  BY <1>2, <1>3 DEF CountersCount, Queries
<1>6. SnapshotsHold
  BY <1>2 DEF SnapshotsHold
<1> QED BY <1>1, <1>4, <1>5, <1>6 DEF CountInv

\* The inductive invariant behind the three theorems on losses.
LEMMA AlwaysCounted == ASSUME CountCap = 0 PROVE Spec => []CountInv
<1>1. CountInv /\ [Next]_vars => CountInv'
  BY EndNext, KeptNext, CountersNext, SnapshotsNext DEF CountInv
<1> QED BY <1>1, CountInit, PTL DEF Spec

-----------------------------------------------------------------------------
\* Every variable keeps its type.
THEOREM TypeCorrect == Spec => []TypeOK
<1>1. EndInv => TypeOK
  BY DEF EndInv
<1> QED BY <1>1, EndInit, EndNext, PTL DEF Spec

\* The rows a run of fpga-loopback-test leaves, its exit code and the loopback bit fit
\* together as Sweep takes for granted of a run.
THEOREM KeepsPromise == Spec => []EndsAsPromised
<1>1. EndInv => EndsAsPromised
  <2> SUFFICES ASSUME EndInv, pc = "exit"
               PROVE  [code |-> IF exit = "ok" THEN 0 ELSE 1, loopback |-> loopback,
                       rows |-> rows] \in Promise!LoopbackOutcomes
    BY DEF EndsAsPromised
  <2>1. /\ exit \in {"ok", "error"} /\ loopback \in BOOLEAN
        /\ exit = "ok" => rows = {"load", "loss"}
        /\ exit = "error" => rows = {} \/ rows = {"load"}
        /\ rows # {} => ~loopback
    BY DEF EndInv, TypeOK, RowsInOrder, Done
  <2>2. CASE exit = "ok"
    <3>1. rows = {"load", "loss"} /\ loopback = FALSE
      BY <2>1, <2>2
    <3> QED BY <2>2, <3>1 DEF Promise!LoopbackOutcomes
  <2>3. CASE exit = "error" /\ rows = {}
    BY <2>1, <2>3 DEF Promise!LoopbackOutcomes
  <2>4. CASE exit = "error" /\ rows = {"load"}
    <3>1. loopback = FALSE
      BY <2>1, <2>4
    <3> QED BY <2>4, <3>1 DEF Promise!LoopbackOutcomes
  <2> QED BY <2>1, <2>2, <2>3, <2>4
<1> QED BY <1>1, EndInit, EndNext, PTL DEF Spec

\* Unless the last drain ended early, every packet asked for, or that the FPGA sent of
\* itself, is a send error, a packet drained, or lost at one of the four places.
THEOREM AllAccountedFor == ASSUME CountCap = 0 PROVE Spec => []NothingDisappears
<1>1. CountInv => NothingDisappears
  <2> SUFFICES ASSUME CountInv, exit = "ok", ~late
               PROVE  PacketCount + unasked = errors + drained + lost["toFpga"]
                        + lost["inFpga"] + lost["toHost"] + lost["socket"]
    BY DEF NothingDisappears
  <2>1. /\ TypeOK /\ i = PacketCount /\ i = sent + errors /\ up = 0 /\ down = 0 /\ queue = 0
        /\ AtHost + unasked = queue + drained + lost["socket"]
    BY DEF CountInv, EndInv, PacketsKept, Drained, Done
  <2> QED BY <2>1, Integral DEF AtHost, Echoed, AtFpga
<1> QED BY <1>1, AlwaysCounted, PTL

\* Whatever was lost, and whoever sent frames meanwhile: unless the last drain ended
\* early, each gap of the loss row is the loss on its segment, up to those frames.
THEOREM GapsAreLosses == ASSUME CountCap = 0 PROVE Spec => []GapsLocateLosses
<1>1. CountInv => GapsLocateLosses
  <2> SUFFICES ASSUME CountInv, exit = "ok", ~late
               PROVE  /\ Near(HostTxToFpgaRxGap, lost["toFpga"], foreign)
                      /\ Near(FpgaRxToTxGap, lost["inFpga"], foreign + unasked)
                      /\ Near(FpgaTxToHostRxGap, lost["toHost"], foreign + unasked)
    BY DEF GapsLocateLosses
  <2> DEFINE fpga0Rx == snap["fpga0"]["fpgaRx"]
             fpga0Tx == snap["fpga0"]["fpgaTx"]
             host0Tx == snap["host0"]["hostTx"]
             host0Rx == snap["host0"]["hostRx"]
             host1Rx == snap["host1"]["hostRx"]
             host1Tx == snap["host1"]["hostTx"]
             fpga1Rx == snap["fpga1"]["fpgaRx"]
             fpga1Tx == snap["fpga1"]["fpgaTx"]
  <2>1. TypeOK /\ PacketsKept /\ up = 0 /\ down = 0
    BY DEF CountInv, EndInv, PacketsKept, Drained, Done
  <2>2. /\ AtFpga \in Int /\ Echoed \in Int /\ AtHost \in Int /\ sent \in Nat
        /\ 0 <= AtHost /\ AtHost <= Echoed /\ Echoed <= AtFpga
        /\ lost["toFpga"] = sent - AtFpga /\ lost["inFpga"] = AtFpga - Echoed
        /\ lost["toHost"] = Echoed - AtHost
        /\ foreign \in Nat /\ unasked \in Nat
    BY <2>1, Sums, Integral
  <2>3. /\ fpga0Rx \in Nat /\ fpga0Tx \in Nat /\ host0Tx \in Nat /\ host0Rx \in Nat
        /\ host1Rx \in Nat /\ host1Tx \in Nat /\ fpga1Rx \in Nat /\ fpga1Tx \in Nat
    BY <2>1, SnapshotNumbers DEF Snapshots, Counters
  <2>4. /\ fpga0Rx <= foreign /\ fpga0Tx <= unasked
        /\ host0Tx = 1 /\ host0Rx >= 1 /\ host1Tx = sent + 1
        /\ host1Rx <= AtHost + foreign + unasked + 1
        /\ AtHost + host0Rx <= host1Rx
        /\ fpga1Rx - AtFpga - 1 \in fpga0Rx..foreign
        /\ fpga1Tx - Echoed - 1 \in fpga0Tx..unasked
    BY <2>2, <2>3 DEF CountInv, SnapshotsHold, HasFpga0, HasHost0, HasHost1, HasFpga1,
                      Drained, Done
  <2> HIDE DEF fpga0Rx, fpga0Tx, host0Tx, host0Rx, host1Rx, host1Tx, fpga1Rx, fpga1Tx
  <2>5. HostTxDelta = sent
    <3>1. HostTxDelta = IF host1Tx >= host0Tx THEN host1Tx - host0Tx ELSE 0
      BY DEF HostTxDelta, DeltaU64, host1Tx, host0Tx
    <3> QED BY <2>2, <2>4, <3>1
  <2>6. FpgaRxGoodDelta \in AtFpga..(AtFpga + foreign)
    <3>1. FpgaRxGoodDelta = IF fpga1Rx - 1 >= fpga0Rx THEN fpga1Rx - 1 - fpga0Rx ELSE 0
      BY DEF FpgaRxGoodDelta, DeltaU64, fpga1Rx, fpga0Rx
    <3> QED BY <2>2, <2>3, <2>4, <3>1
  <2>7. FpgaTxGoodDelta \in Echoed..(Echoed + unasked)
    <3>1. FpgaTxGoodDelta = IF fpga1Tx - 1 >= fpga0Tx THEN fpga1Tx - 1 - fpga0Tx ELSE 0
      BY DEF FpgaTxGoodDelta, DeltaU64, fpga1Tx, fpga0Tx
    <3> QED BY <2>2, <2>3, <2>4, <3>1
  <2>8. HostRxDelta \in AtHost..(AtHost + foreign + unasked)
    <3>1. HostRxDelta = IF host1Rx >= host0Rx THEN host1Rx - host0Rx ELSE 0
      BY DEF HostRxDelta, DeltaU64, host1Rx, host0Rx
    <3> QED BY <2>2, <2>3, <2>4, <3>1
  <2>9. Near(HostTxToFpgaRxGap, lost["toFpga"], foreign)
    BY <2>2, <2>5, <2>6 DEF Near, HostTxToFpgaRxGap
  <2>10. Near(FpgaRxToTxGap, lost["inFpga"], foreign + unasked)
    BY <2>2, <2>6, <2>7 DEF Near, FpgaRxToTxGap
  <2>11. Near(FpgaTxToHostRxGap, lost["toHost"], foreign + unasked)
    BY <2>2, <2>7, <2>8 DEF Near, FpgaTxToHostRxGap
  <2> QED BY <2>9, <2>10, <2>11
<1> QED BY <1>1, AlwaysCounted, PTL

\* Even when the drain ended early, a packet the row counts as received was received,
\* provided that nobody else sent a frame.
THEOREM NeverUnderstated == ASSUME CountCap = 0 PROVE Spec => []LossNeverUnderstated
<1>1. CountInv => LossNeverUnderstated
  <2> SUFFICES ASSUME CountInv, exit = "ok", foreign + unasked = 0
               PROVE  /\ drained <= HostRxDelta
                      /\ HostRxDelta <= FpgaTxGoodDelta
                      /\ FpgaTxGoodDelta <= FpgaRxGoodDelta
                      /\ FpgaRxGoodDelta <= HostTxDelta
    BY DEF LossNeverUnderstated
  <2> DEFINE fpga0Rx == snap["fpga0"]["fpgaRx"]
             fpga0Tx == snap["fpga0"]["fpgaTx"]
             host0Tx == snap["host0"]["hostTx"]
             host0Rx == snap["host0"]["hostRx"]
             host1Rx == snap["host1"]["hostRx"]
             host1Tx == snap["host1"]["hostTx"]
             fpga1Rx == snap["fpga1"]["fpgaRx"]
             fpga1Tx == snap["fpga1"]["fpgaTx"]
  <2>1. /\ TypeOK /\ sent \in Nat /\ drained \in Nat /\ foreign = 0 /\ unasked = 0
    BY Integral DEF CountInv, EndInv
  <2>2. /\ fpga0Rx \in Nat /\ fpga0Tx \in Nat /\ host0Tx \in Nat /\ host0Rx \in Nat
        /\ host1Rx \in Nat /\ host1Tx \in Nat /\ fpga1Rx \in Nat /\ fpga1Tx \in Nat
    BY <2>1, SnapshotNumbers DEF Snapshots, Counters
  <2>3. /\ fpga0Rx <= foreign /\ fpga0Tx <= unasked
        /\ host0Tx = 1 /\ host0Rx \in 1..(1 + foreign + unasked)
        /\ host1Tx = sent + 1 /\ drained + 1 <= host1Rx
        /\ fpga1Rx <= host1Tx + foreign /\ fpga1Tx <= fpga1Rx + unasked
        /\ host1Rx <= fpga1Tx + foreign
    BY DEF CountInv, SnapshotsHold, HasFpga0, HasHost0, HasHost1, HasFpga1, Drained, Done
  <2> HIDE DEF fpga0Rx, fpga0Tx, host0Tx, host0Rx, host1Rx, host1Tx, fpga1Rx, fpga1Tx
  <2>4. HostTxDelta = sent
    <3>1. HostTxDelta = IF host1Tx >= host0Tx THEN host1Tx - host0Tx ELSE 0
      BY DEF HostTxDelta, DeltaU64, host1Tx, host0Tx
    <3> QED BY <2>1, <2>3, <3>1
  <2>5. HostRxDelta = host1Rx - 1
    <3>1. HostRxDelta = IF host1Rx >= host0Rx THEN host1Rx - host0Rx ELSE 0
      BY DEF HostRxDelta, DeltaU64, host1Rx, host0Rx
    <3> QED BY <2>1, <2>2, <2>3, <3>1
  <2>6. FpgaRxGoodDelta = fpga1Rx - 1
    <3>1. FpgaRxGoodDelta = IF fpga1Rx - 1 >= fpga0Rx THEN fpga1Rx - 1 - fpga0Rx ELSE 0
      BY DEF FpgaRxGoodDelta, DeltaU64, fpga1Rx, fpga0Rx
    <3> QED BY <2>1, <2>2, <2>3, <3>1
  <2>7. FpgaTxGoodDelta = fpga1Tx - 1
    <3>1. FpgaTxGoodDelta = IF fpga1Tx - 1 >= fpga0Tx THEN fpga1Tx - 1 - fpga0Tx ELSE 0
      BY DEF FpgaTxGoodDelta, DeltaU64, fpga1Tx, fpga0Tx
    <3> QED BY <2>1, <2>2, <2>3, <3>1
  <2> QED BY <2>1, <2>2, <2>3, <2>4, <2>5, <2>6, <2>7
<1> QED BY <1>1, AlwaysCounted, PTL
=============================================================================
