------------------------------- MODULE RttTest -------------------------------
(***************************************************************************)
(* "etherbench fpga-rtt": fpga_rtt_test of fpga_rtt.c with the part of     *)
(* main.c that saves its result.  After enabling loopback, packets go out  *)
(* one at a time, each with its sequence number: first the probes, then    *)
(* the measured ones.  The one datagram read next, within the receive      *)
(* timeout, must be the echo of the packet just sent; a timeout counts the *)
(* packet as lost and anything else ends the test.  An echo may therefore  *)
(* be lost, may come after its timeout, or may come twice.  Every run      *)
(* numbers its packets from 0 on, and recvfrom cuts a longer datagram to   *)
(* the size of the packet: an echo left over from an earlier run of at     *)
(* least that size passes for the echo of the packet with its number.      *)
(***************************************************************************)
EXTENDS Integers, Sequences, FiniteSets

CONSTANTS
  Probes,        \* RTT_TEST_PROBES
  PacketCount,   \* packets asked for on the command line
  OddBudget,     \* bound: late or doubled echoes and stray datagrams per run
  OldBudget      \* bound: echoes of an earlier run in flight when this one starts

ASSUME CountAssumption ==
  {Probes, OddBudget, OldBudget} \subseteq Nat /\ PacketCount \in Nat \ {0}

Promise == INSTANCE TestOutcomes

Call == INSTANCE LoopbackSwitch WITH
  mode <- FALSE, busy <- FALSE, asked <- FALSE, outcome <- "none"

VARIABLES
  pc,         \* "enable", "open", "send", "wait", "disable", "save" or "exit"
  loopback,   \* the loopback bit of the FPGA
  seq,        \* sequence number of the packet sent last or next
  received, lost,    \* the two counters
  samples,    \* rtt_values, each as <<packet sent, echo read>>
  air,        \* packets in flight to the FPGA, and echoes
  queue,      \* datagrams queued on the socket, oldest first
  odd,        \* history: echoes late or doubled, stray datagrams
  inherited,  \* history: echoes of an earlier run in flight when this one started
  back,       \* history: packets whose echo was queued before the last one was sent
  row,        \* the result saved to the CSV: <<>>, or <<sent, received, lost>>
  exit        \* "none", "ok" or "error"

history == <<odd, inherited, back>>
vars == <<pc, loopback, seq, received, lost, samples, air, queue, history, row, exit>>

Stray == -1                        \* a datagram that passes for no echo
Last == Probes + PacketCount - 1   \* the last sequence number
OldEcho(s) == Last + 1 + s         \* packet s of an earlier run, echoed
Echoes == 0..(2 * Last + 1)
Probing == seq < Probes

\* Mutant: the sequence number is not compared.
MutPasses(d) == d # Stray

\* verify_rtt_payload: the bytes are those of the packet just sent.
Passes(d) == d \in {seq, OldEcho(seq)}

TypeOK ==
  /\ pc \in {"enable", "open", "send", "wait", "disable", "save", "exit"}
  /\ loopback \in BOOLEAN
  /\ seq \in 0..(Last + 1)
  /\ received \in 0..PacketCount
  /\ lost \in 0..PacketCount
  /\ samples \in Seq((0..Last) \X Echoes)
  /\ air \subseteq Echoes
  /\ queue \in Seq(Echoes \cup {Stray})
  /\ {inherited, back} \subseteq SUBSET Echoes
  /\ odd \in 0..OddBudget
  /\ row \in {<<>>} \cup ((0..PacketCount) \X (0..PacketCount) \X (0..PacketCount))
  /\ exit \in {"none", "ok", "error"}

Init ==
  /\ pc = "enable"
  /\ loopback \in BOOLEAN
  /\ seq = 0 /\ received = 0 /\ lost = 0
  /\ samples = <<>>
  /\ inherited \in {S \in SUBSET {OldEcho(n) : n \in 0..Last} :
                      Cardinality(S) <= OldBudget}
  /\ air = inherited
  /\ queue = <<>> /\ odd = 0 /\ back = {}
  /\ row = <<>>
  /\ exit = "none"

-----------------------------------------------------------------------------
(* The test.                                                               *)

\* "return -1": sockets are closed, loopback is left as it is.
Abort ==
  /\ pc' = "exit"
  /\ exit' = "error"
  /\ queue' = <<>>

\* fpga_enable_loopback_if_needed
EnableLoopback ==
  /\ pc = "enable"
  /\ \E o \in Call!CallOutcomes(loopback, TRUE) :
       /\ loopback' = o[2]
       /\ \/ o[1] = "ok" /\ pc' = "open" /\ UNCHANGED <<queue, exit>>
          \/ o[1] = "error" /\ Abort
  /\ UNCHANGED <<seq, received, lost, samples, air, history, row>>

\* make_udp_socket, build_dest_addr and the buffers; any may fail.
OpenSocket ==
  /\ pc = "open"
  /\ \/ pc' = "send" /\ UNCHANGED <<queue, exit>>
     \/ Abort
  /\ UNCHANGED <<loopback, seq, received, lost, samples, air, history, row>>

\* Mutant: the number is advanced before it is put into the payload.
MutSendPacket ==
  /\ pc = "send"
  /\ seq <= Last
  /\ air' = air \cup {seq + 1}
  /\ pc' = "wait"
  /\ UNCHANGED <<loopback, seq, received, lost, samples, queue, history, row, exit>>

\* build_rtt_payload and sendto, in send_and_receive_once
SendPacket ==
  /\ pc = "send"
  /\ seq <= Last
  /\ \/ air' = air \cup {seq} /\ pc' = "wait" /\ UNCHANGED <<queue, exit>>
     \/ Abort /\ UNCHANGED air
  /\ UNCHANGED <<loopback, seq, received, lost, samples, history, row>>

\* recvfrom returned a datagram that passes for the echo of the packet sent.
EchoIsMine ==
  /\ pc = "wait"
  /\ queue # <<>>
  /\ Passes(Head(queue))
  /\ queue' = Tail(queue)
  /\ seq' = seq + 1
  /\ pc' = "send"
  /\ IF Probing
       THEN UNCHANGED <<received, samples>>
       ELSE /\ received' = received + 1
            /\ samples' = Append(samples, <<seq, Head(queue)>>)
  /\ UNCHANGED <<loopback, lost, air, history, row, exit>>

\* Mutant: what does not fit is skipped, and the wait goes on.
MutEchoIsNotMine ==
  /\ pc = "wait"
  /\ queue # <<>>
  /\ ~Passes(Head(queue))
  /\ queue' = Tail(queue)
  /\ UNCHANGED <<pc, loopback, seq, received, lost, samples, air, odd, back, inherited,
                 row, exit>>

\* Anything else, be it the late echo of an earlier packet, ends the test.
EchoIsNotMine ==
  /\ pc = "wait"
  /\ queue # <<>>
  /\ ~Passes(Head(queue))
  /\ Abort
  /\ UNCHANGED <<loopback, seq, received, lost, samples, air, history, row>>

\* recvfrom fails otherwise than by its timeout.
ReceiveFails ==
  /\ pc = "wait"
  /\ Abort
  /\ UNCHANGED <<loopback, seq, received, lost, samples, air, history, row>>

\* Mutant: a packet that timed out is sent again, with no limit.
MutTimeout ==
  /\ pc = "wait"
  /\ queue = <<>>
  /\ IF seq \in air THEN odd < OddBudget /\ odd' = odd + 1 ELSE UNCHANGED odd
  /\ pc' = "send"
  /\ UNCHANGED <<loopback, seq, received, lost, samples, air, queue, back, inherited, row, exit>>

\* Mutant: a lost probe is counted among the lost packets.
MutLostProbe ==
  /\ pc = "wait"
  /\ queue = <<>>
  /\ IF seq \in air THEN odd < OddBudget /\ odd' = odd + 1 ELSE UNCHANGED odd
  /\ lost' = lost + 1
  /\ seq' = seq + 1
  /\ pc' = "send"
  /\ UNCHANGED <<loopback, received, samples, air, queue, back, inherited, row, exit>>

\* SO_RCVTIMEO expired: a lost packet, or the end if it is a probe.  The echo
\* may still be on its way: then it will be late.
Timeout ==
  /\ pc = "wait"
  /\ queue = <<>>
  /\ IF seq \in air THEN odd < OddBudget /\ odd' = odd + 1 ELSE UNCHANGED odd
  /\ \/ Probing /\ Abort /\ UNCHANGED <<seq, lost>>
     \/ /\ ~Probing
        /\ lost' = lost + 1
        /\ seq' = seq + 1
        /\ pc' = "send"
        /\ UNCHANGED <<queue, exit>>
  /\ UNCHANGED <<loopback, received, samples, air, back, inherited, row>>

\* The loop is over and the socket closed.
LoopEnds ==
  /\ pc = "send"
  /\ seq > Last
  /\ pc' = "disable"
  /\ queue' = <<>>
  /\ UNCHANGED <<loopback, seq, received, lost, samples, air, history, row, exit>>

\* Mutant: the result of the call is ignored.
MutDisableLoopback ==
  /\ pc = "disable"
  /\ \E o \in Call!CallOutcomes(loopback, FALSE) : loopback' = o[2]
  /\ pc' = "save"
  /\ UNCHANGED <<seq, received, lost, samples, air, queue, history, row, exit>>

\* fpga_disable_loopback_if_needed: if it fails the results are dropped.
DisableLoopback ==
  /\ pc = "disable"
  /\ \E o \in Call!CallOutcomes(loopback, FALSE) :
       /\ loopback' = o[2]
       /\ \/ o[1] = "ok" /\ pc' = "save" /\ UNCHANGED <<queue, exit>>
          \/ o[1] = "error" /\ Abort
  /\ UNCHANGED <<seq, received, lost, samples, air, history, row>>

\* append_fpga_rtt_csv
SaveRow ==
  /\ pc = "save"
  /\ \/ /\ row' = <<PacketCount, received, lost>>
        /\ pc' = "exit" /\ exit' = "ok" /\ UNCHANGED queue
     \/ Abort /\ UNCHANGED row
  /\ UNCHANGED <<loopback, seq, received, lost, samples, air, history>>

Host ==
  \/ EnableLoopback \/ OpenSocket \/ SendPacket \/ EchoIsMine \/ EchoIsNotMine
  \/ Timeout \/ LoopEnds \/ DisableLoopback \/ SaveRow

-----------------------------------------------------------------------------
(* The wire and the FPGA, external.                                        *)

SocketOpen == pc \in {"send", "wait"}
LastUnsent == seq < Last \/ (seq = Last /\ pc = "send")

\* A datagram for the port reaches the host: it is queued if the socket is open.
Queued(s) ==
  /\ queue' = IF SocketOpen THEN Append(queue, s) ELSE queue
  /\ back' = IF SocketOpen /\ LastUnsent /\ s <= Last THEN back \cup {s} ELSE back

Lose(s) ==
  /\ air' = air \ {s}
  /\ UNCHANGED <<pc, loopback, seq, received, lost, samples, queue, history, row, exit>>

\* The echo of a packet of this run, if loopback is on, or an old one arrives.
Arrive(s) ==
  /\ s <= Last => loopback
  /\ air' = air \ {s}
  /\ Queued(s)
  /\ UNCHANGED <<pc, loopback, seq, received, lost, samples, odd, inherited, row, exit>>

\* The echo reaches the host and another copy follows.
Double(s) ==
  /\ loopback /\ SocketOpen
  /\ s <= Last
  /\ odd < OddBudget
  /\ odd' = odd + 1
  /\ Queued(s)
  /\ UNCHANGED <<pc, loopback, seq, received, lost, samples, air, inherited, row, exit>>

\* Some other datagram is sent to the local port.
StrayDatagram ==
  /\ SocketOpen
  /\ odd < OddBudget
  /\ odd' = odd + 1
  /\ queue' = Append(queue, Stray)
  /\ UNCHANGED <<pc, loopback, seq, received, lost, samples, air, back, inherited, row, exit>>

Network == \E s \in air : Lose(s) \/ Arrive(s)

Next == Host \/ ReceiveFails \/ Network \/ (\E s \in air : Double(s)) \/ StrayDatagram

Spec == Init /\ [][Next]_vars

\* The process runs on; a packet does not stay in flight for ever.
FairSpec == Spec /\ WF_vars(Host) /\ WF_vars(Network)

-----------------------------------------------------------------------------
(* Properties.                                                             *)

\* Every round trip time is that of one packet, measured on its echo or on that of
\* an earlier run with its number, and no packet gives two: late and doubled echoes
\* never enter rtt_values.  There is a sample behind each packet a saved row counts
\* as received, and the packets asked for are those received and those lost.
SamplesAreOwn ==
  /\ \A k \in DOMAIN samples : samples[k][2] \in {samples[k][1], OldEcho(samples[k][1])}
  /\ \A k, l \in DOMAIN samples : k < l => samples[k][1] < samples[l][1]
  /\ Len(samples) = received
  /\ row # <<>> => row[1] = row[2] + row[3] /\ row[2] = Len(samples)

Deceived == {n \in 0..Last : \E k \in DOMAIN samples : samples[k] = <<n, OldEcho(n)>>}

\* An old echo that was taken for the echo of a packet is exposed by that packet's
\* own echo, which the next receive refuses: the test ends without a row if the echo
\* comes back while a packet is still to be sent, unless the very last packet was
\* deceived as well.
DeceptionIsExposed ==
  row # <<>> /\ Deceived \cap back # {} => Last \in Deceived

\* Losing packets is what the test measures: an echo that is refused, which ends the
\* whole test, was late, doubled or stray, or an earlier run's, or that of a packet an
\* earlier run's echo had passed for.  It is never the doing of lost packets.
OnlyOddDatagramsAbort ==
  [][EchoIsNotMine =>
       odd > 0 \/ Head(queue) \in inherited \/ OldEcho(Head(queue)) \in inherited]_vars

\* What the command leaves behind: exit code 0 exactly with a saved row, and a
\* saved row only with loopback put back off.  Any error may leave it on.
EndsAsPromised ==
  pc = "exit" => [code |-> IF exit = "ok" THEN 0 ELSE 1, loopback |-> loopback,
                  rows |-> IF row = <<>> THEN {} ELSE {"rtt"}] \in Promise!RttOutcomes

\* The command ends: every wait of it is bounded.
Terminates == <>(pc = "exit")
=============================================================================
