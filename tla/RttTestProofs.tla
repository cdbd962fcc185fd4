---------------------------- MODULE RttTestProofs ----------------------------
(***************************************************************************)
(* For any number of probes, packets, odd datagrams and old echoes: what   *)
(* the samples of RttTest are worth, and what ends the test.               *)
(***************************************************************************)
EXTENDS RttTest, SequenceTheorems, TLAPS

\* What the sequence number and the two counters have to do with the place in the code.
CountersAgree ==
  /\ received + lost = IF seq < Probes THEN 0 ELSE seq - Probes
  /\ pc \in {"enable", "open"} => seq = 0
  /\ pc = "wait" => seq <= Last
  /\ pc \in {"disable", "save"} => seq = Last + 1

\* A row is the last thing the command writes.
RowIsLast ==
  /\ pc = "exit" <=> exit # "none"
  /\ exit = "ok" <=> row # <<>>
  /\ row # <<>> => row = <<PacketCount, received, lost>> /\ seq = Last + 1 /\ ~loopback
  /\ pc = "save" => ~loopback

\* The samples so far are of packets before the present one.
SamplesInOrder ==
  /\ \A k \in DOMAIN samples :
       samples[k][1] < seq /\ samples[k][2] \in {samples[k][1], OldEcho(samples[k][1])}
  /\ \A k, l \in DOMAIN samples : k < l => samples[k][1] < samples[l][1]
  /\ Len(samples) = received

CountInv == TypeOK /\ CountersAgree /\ RowIsLast /\ SamplesInOrder

\* Packet s was sent.
WasSent(s) == s < seq \/ (s = seq /\ pc \in {"wait", "exit"})

\* An echo of this run is of a packet that was sent.
EchoesWereSent ==
  /\ \A s \in air : s <= Last => WasSent(s)
  /\ \A k \in DOMAIN queue : queue[k] \in 0..Last => WasSent(queue[k])
  /\ \A s \in back : s < Last /\ WasSent(s)

\* The own echo of a deceived packet, queued before the last packet was sent, waits in
\* the queue, before any echo of the last packet.
EchoWaits(n) ==
  \E k \in DOMAIN queue : queue[k] = n /\ \A j \in 1..(k - 1) : queue[j] # Last

DeceptionIsTrapped ==
  /\ pc \in {"send", "wait"} /\ seq <= Last =>
       \A n \in back : n = seq \/ n \in Deceived => EchoWaits(n)
  /\ seq = Last + 1 => (Deceived \cap back # {} => Last \in Deceived)

TrapInv == CountInv /\ EchoesWereSent /\ DeceptionIsTrapped

\* As long as nothing odd has happened there is one echo of each packet, and one of a
\* packet that is done with only if an old echo had passed for it.
Excused(s) == s \in 0..(seq - 1) => OldEcho(s) \in inherited

EchoesAreOrdinary ==
  /\ \A s \in air : s > Last => s \in inherited
  /\ \A k \in DOMAIN queue : queue[k] > Last => queue[k] \in inherited
  /\ odd = 0 =>
       /\ \A s \in air : Excused(s)
       /\ \A k \in DOMAIN queue : queue[k] # Stray /\ Excused(queue[k])
       /\ \A k \in DOMAIN queue : queue[k] <= Last => queue[k] \notin air
       /\ \A k, l \in DOMAIN queue : queue[k] = queue[l] /\ queue[k] <= Last => k = l

OrdinaryInv == CountInv /\ EchoesWereSent /\ EchoesAreOrdinary
-----------------------------------------------------------------------------
(* Numbers and queues.                                                     *)

\* What the assumption on the constants says of them.
LEMMA Numbers ==
  /\ Probes \in Nat /\ PacketCount \in Nat /\ PacketCount > 0 /\ OddBudget \in Nat
  /\ Last \in Nat /\ Last = Probes + PacketCount - 1
  BY CountAssumption DEF Last

\* An old echo is none of this run's.
LEMMA OldEchoes ==
  /\ \A s \in 0..Last : OldEcho(s) \in Echoes /\ OldEcho(s) > Last
  /\ \A s, t \in 0..Last : OldEcho(s) = OldEcho(t) => s = t
  /\ 0..Last \subseteq Echoes /\ Stray \notin Echoes
  BY Numbers DEF OldEcho, Echoes, Stray

\* What is appended comes last.
LEMMA Appending ==
  ASSUME NEW S, NEW q \in Seq(S), NEW d \in S, NEW p, p = Append(q, d)
  PROVE  /\ p \in Seq(S) /\ Len(p) = Len(q) + 1 /\ Len(q) \in Nat
         /\ DOMAIN q = 1..Len(q) /\ DOMAIN p = 1..Len(p)
         /\ \A k \in DOMAIN q : k \in DOMAIN p /\ p[k] = q[k]
         /\ Len(p) \in DOMAIN p /\ p[Len(p)] = d
         /\ \A k \in DOMAIN p : k \in DOMAIN q \/ k = Len(p)
  BY AppendProperties, LenProperties

\* Without its head a queue has moved up by one.
LEMMA Moving ==
  ASSUME NEW S, NEW q \in Seq(S), q # <<>>, NEW p, p = Tail(q)
  PROVE  /\ p \in Seq(S) /\ Len(p) = Len(q) - 1 /\ Len(p) \in Nat
         /\ DOMAIN q = 1..Len(q) /\ DOMAIN p = 1..Len(p)
         /\ Head(q) = q[1] /\ q[1] \in S /\ 1 \in DOMAIN q
         /\ \A k \in DOMAIN p : k \in Nat /\ k + 1 \in DOMAIN q /\ p[k] = q[k + 1]
         /\ \A k \in DOMAIN q : k = 1 \/ (k - 1 \in DOMAIN p /\ p[k - 1] = q[k])
  BY HeadTailProperties, LenProperties

-----------------------------------------------------------------------------
(* Counters, samples and the row.                                          *)

\* At first nothing has been counted.
LEMMA CountInit == Init => CountInv
<1> SUFFICES ASSUME Init PROVE CountInv
  OBVIOUS
<1>1. inherited \in SUBSET Echoes
  BY OldEchoes DEF Init
<1>2. TypeOK
  BY <1>1, Numbers DEF Init, TypeOK
<1>3. CountersAgree /\ RowIsLast /\ SamplesInOrder
  BY Numbers DEF Init, CountersAgree, RowIsLast, SamplesInOrder
<1> QED BY <1>2, <1>3 DEF CountInv

\* What a call of the loopback switch may return and leave behind.
LEMMA Calls ==
  ASSUME NEW m, NEW w, NEW o \in Call!CallOutcomes(m, w)
  PROVE  \/ o[1] = "ok" /\ o[2] = w
         \/ o[1] = "error" /\ o[2] \in {m, w}
  BY DEF Call!CallOutcomes

\* The bit the two callers leave behind.
LEMMA CallsKeepBit ==
  ASSUME loopback \in BOOLEAN, EnableLoopback \/ DisableLoopback
  PROVE  loopback' \in BOOLEAN /\ (pc' = "save" => ~loopback')
<1>1. CASE EnableLoopback
  <2>1. PICK o \in Call!CallOutcomes(loopback, TRUE) :
          /\ loopback' = o[2]
          /\ pc' # "save"
    BY <1>1 DEF EnableLoopback, Abort
  <2> QED BY <2>1, Calls
<1>2. CASE DisableLoopback
  <2>1. PICK o \in Call!CallOutcomes(loopback, FALSE) :
          /\ loopback' = o[2]
          /\ o[1] = "ok" \/ pc' # "save"
    BY <1>2 DEF DisableLoopback, Abort
  <2>2. \/ o[1] = "ok" /\ o[2] = FALSE
        \/ o[1] = "error" /\ o[2] \in {loopback, FALSE}
    BY Calls
  <2>3. o[2] \in BOOLEAN
    BY <2>2
  <2>4. pc' = "save" => o[2] = FALSE
    BY <2>1, <2>2
  <2> QED BY <2>1, <2>3, <2>4
<1> QED BY <1>1, <1>2

\* A row is a triple, and not the empty tuple that stands for no row.
LEMMA Triples ==
  ASSUME NEW S, NEW a \in S, NEW b \in S, NEW c \in S
  PROVE  <<a, b, c>> \in S \X S \X S /\ <<a, b, c>> # <<>>
  OBVIOUS

\* The row saved is of the right type.
LEMMA RowType ==
  ASSUME TypeOK, SaveRow
  PROVE  row' \in {<<>>} \cup ((0..PacketCount) \X (0..PacketCount) \X (0..PacketCount))
<1>1. PacketCount \in 0..PacketCount
  BY Numbers
<1> QED BY <1>1, Triples DEF SaveRow, TypeOK

\* What an accepted datagram is, and that its sample is of the right type.
LEMMA SampleType ==
  ASSUME TypeOK, CountersAgree, EchoIsMine
  PROVE  /\ samples' \in Seq((0..Last) \X Echoes)
         /\ queue' \in Seq(Echoes \cup {Stray})
         /\ seq \in 0..Last
         /\ Head(queue) \in {seq, OldEcho(seq)}
<1>1. queue \in Seq(Echoes \cup {Stray}) /\ samples \in Seq((0..Last) \X Echoes)
  BY DEF TypeOK
<1>2. queue' \in Seq(Echoes \cup {Stray})
  BY <1>1, Moving DEF EchoIsMine
<1>3. seq \in 0..Last /\ Head(queue) \in {seq, OldEcho(seq)}
  BY Numbers DEF TypeOK, CountersAgree, EchoIsMine, Passes
<1>4. Head(queue) \in Echoes
  BY <1>3, OldEchoes
<1>5. <<seq, Head(queue)>> \in (0..Last) \X Echoes
  BY <1>3, <1>4
<1>6. samples' = Append(samples, <<seq, Head(queue)>>) \/ samples' = samples
  BY DEF EchoIsMine
<1> QED BY <1>1, <1>2, <1>3, <1>5, <1>6, Appending

\* Every step keeps the types; the counters stay in range because they agree with seq.
LEMMA TypeNext == TypeOK /\ CountersAgree /\ [Next]_vars => TypeOK'
<1> SUFFICES ASSUME TypeOK, CountersAgree, [Next]_vars PROVE TypeOK'
  OBVIOUS
<1> USE Numbers DEF history
<1>a. <<>> \in Seq(Echoes \cup {Stray})
  OBVIOUS
<1>b. ASSUME pc' \in {"open", "send", "wait", "save", "exit"}, loopback' \in BOOLEAN,
             queue' \in {queue, <<>>}, exit' \in {exit, "ok", "error"},
             air' \subseteq Echoes, UNCHANGED <<seq, received, lost, samples, history>>,
             row' \in {<<>>} \cup ((0..PacketCount) \X (0..PacketCount) \X (0..PacketCount))
      PROVE  TypeOK'
  BY <1>a, <1>b DEF TypeOK
<1>c. /\ pc \in {"enable", "open", "send", "wait", "disable", "save", "exit"}
      /\ loopback \in BOOLEAN /\ air \subseteq Echoes
      /\ row \in {<<>>} \cup ((0..PacketCount) \X (0..PacketCount) \X (0..PacketCount))
  BY DEF TypeOK
<1>1. CASE EnableLoopback
  <2>1. loopback' \in BOOLEAN
    BY <1>1, <1>c, CallsKeepBit
  <2>2. pc' \in {"open", "exit"} /\ exit' \in {exit, "error"} /\ queue' \in {queue, <<>>}
    BY <1>1 DEF EnableLoopback, Abort
  <2>3. UNCHANGED <<air, row, seq, received, lost, samples, history>>
    BY <1>1 DEF EnableLoopback
  <2> QED BY <1>b, <1>c, <2>1, <2>2, <2>3
<1>2. CASE OpenSocket
  BY <1>b, <1>c, <1>2 DEF OpenSocket, Abort
<1>3. CASE SendPacket
  <2>1. seq \in Echoes
    BY <1>3, OldEchoes DEF SendPacket, TypeOK
  <2> QED BY <1>b, <1>c, <1>3, <2>1 DEF SendPacket, Abort
<1>4. CASE EchoIsMine
  <2>1. received' \in 0..PacketCount
    <3>1. received + lost < PacketCount \/ Probing
      BY <1>4, SampleType DEF TypeOK, CountersAgree, Probing
    <3> QED BY <1>4, <3>1 DEF EchoIsMine, TypeOK
  <2>2. seq' \in 0..(Last + 1)
    BY <1>4, SampleType DEF EchoIsMine
  <2> QED BY <1>4, <2>1, <2>2, SampleType DEF EchoIsMine, TypeOK
<1>5. CASE EchoIsNotMine \/ ReceiveFails
  BY <1>b, <1>c, <1>5 DEF EchoIsNotMine, ReceiveFails, Abort
<1>6. CASE Timeout
  <2>1. lost' \in 0..PacketCount /\ seq' \in 0..(Last + 1)
    BY <1>6 DEF Timeout, TypeOK, CountersAgree, Probing
  <2>2. odd' \in 0..OddBudget
    BY <1>6 DEF Timeout, TypeOK
  <2>3. pc' \in {"send", "exit"} /\ exit' \in {exit, "error"} /\ queue' \in {queue, <<>>}
    BY <1>6 DEF Timeout, Abort
  <2> QED BY <1>6, <2>1, <2>2, <2>3 DEF Timeout, TypeOK
<1>7. CASE LoopEnds
  BY <1>7 DEF LoopEnds, TypeOK
<1>8. CASE DisableLoopback
  <2>1. loopback' \in BOOLEAN
    BY <1>8, <1>c, CallsKeepBit
  <2>2. pc' \in {"save", "exit"} /\ exit' \in {exit, "error"} /\ queue' \in {queue, <<>>}
    BY <1>8 DEF DisableLoopback, Abort
  <2>3. UNCHANGED <<air, row, seq, received, lost, samples, history>>
    BY <1>8 DEF DisableLoopback
  <2> QED BY <1>b, <1>c, <2>1, <2>2, <2>3
<1>9. CASE SaveRow
  <2>1. pc' = "exit" /\ exit' \in {"ok", "error"} /\ queue' \in {queue, <<>>}
    BY <1>9 DEF SaveRow, Abort
  <2>2. UNCHANGED <<loopback, air, seq, received, lost, samples, history>>
    BY <1>9 DEF SaveRow
  <2> QED BY <1>9, <1>b, <1>c, <2>1, <2>2, RowType
<1>10. ASSUME NEW s \in air, Lose(s) PROVE TypeOK'
  BY <1>10 DEF Lose, TypeOK
<1>11. ASSUME NEW s \in air, Arrive(s) \/ Double(s) PROVE TypeOK'
  <2>1. queue \in Seq(Echoes \cup {Stray}) /\ s \in Echoes \cup {Stray} /\ back \subseteq Echoes
    BY DEF TypeOK
  <2>2. queue' \in Seq(Echoes \cup {Stray})
    BY <1>11, <2>1, Appending DEF Arrive, Double, Queued
  <2>3. back' \subseteq Echoes
    BY <1>11 DEF Arrive, Double, Queued, TypeOK
  <2>4. air' \subseteq Echoes /\ odd' \in 0..OddBudget
    BY <1>11 DEF Arrive, Double, TypeOK
  <2> QED BY <1>11, <2>2, <2>3, <2>4 DEF Arrive, Double, TypeOK
<1>12. CASE StrayDatagram
  <2>1. queue \in Seq(Echoes \cup {Stray})
    BY DEF TypeOK
  <2>2. queue' \in Seq(Echoes \cup {Stray})
    BY <1>12, <2>1, Appending DEF StrayDatagram
  <2> QED BY <1>12, <2>2 DEF StrayDatagram, TypeOK
<1>13. CASE UNCHANGED vars
  BY <1>13 DEF vars, TypeOK
<1> QED
  BY <1>1, <1>2, <1>3, <1>4, <1>5, <1>6, <1>7, <1>8, <1>9, <1>10, <1>11, <1>12, <1>13
  DEF Next, Host, Network

\* Every step keeps the counters in agreement with the sequence number.
LEMMA CountersNext == TypeOK /\ CountersAgree /\ [Next]_vars => CountersAgree'
<1> SUFFICES ASSUME TypeOK, CountersAgree, [Next]_vars PROVE CountersAgree'
  OBVIOUS
<1> USE Numbers DEF CountersAgree
<1>1. seq \in Nat /\ received \in Nat /\ lost \in Nat
  BY DEF TypeOK
<1>2. CASE EnableLoopback \/ OpenSocket
  BY <1>2 DEF EnableLoopback, OpenSocket, Abort
<1>3. CASE SendPacket \/ LoopEnds
  <2>1. pc' = "wait" \/ pc' = "exit" \/ (pc' = "disable" /\ seq = Last + 1)
    <3>1. CASE SendPacket
      BY <3>1 DEF SendPacket, Abort
    <3>2. CASE LoopEnds
      BY <3>2 DEF LoopEnds, TypeOK
    <3> QED BY <1>3, <3>1, <3>2
  <2> QED BY <1>3, <2>1 DEF SendPacket, LoopEnds
<1>4. CASE EchoIsMine \/ Timeout
  BY <1>1, <1>4 DEF EchoIsMine, Timeout, Abort, Probing
<1>5. CASE EchoIsNotMine \/ ReceiveFails \/ DisableLoopback \/ SaveRow
  BY <1>5 DEF EchoIsNotMine, ReceiveFails, DisableLoopback, SaveRow, Abort
<1>6. ASSUME NEW s \in air, Lose(s) \/ Arrive(s) \/ Double(s) PROVE CountersAgree'
  BY <1>6 DEF Lose, Arrive, Double
<1>7. CASE StrayDatagram \/ UNCHANGED vars
  BY <1>7 DEF StrayDatagram, vars
<1> QED BY <1>2, <1>3, <1>4, <1>5, <1>6, <1>7 DEF Next, Host, Network

\* No step touches a row that is saved, or the counters it was made of.
LEMMA RowNext == CountInv /\ [Next]_vars => RowIsLast'
<1> SUFFICES ASSUME CountInv, [Next]_vars PROVE RowIsLast'
  OBVIOUS
<1> USE Numbers DEF RowIsLast
<1>1. TypeOK /\ CountersAgree /\ RowIsLast
  BY DEF CountInv
<1>2. CASE EnableLoopback \/ DisableLoopback
  <2>1. pc' = "save" => ~loopback'
    BY <1>1, <1>2, CallsKeepBit DEF TypeOK
  <2>2. (pc' \in {"open", "save"} /\ exit' = exit) \/ (pc' = "exit" /\ exit' = "error")
    <3>1. CASE EnableLoopback
      <4>1. PICK o \in Call!CallOutcomes(loopback, TRUE) :
              (pc' = "open" /\ exit' = exit) \/ (pc' = "exit" /\ exit' = "error")
        BY <3>1 DEF EnableLoopback, Abort
      <4> QED BY <4>1
    <3>2. CASE DisableLoopback
      <4>1. PICK o \in Call!CallOutcomes(loopback, FALSE) :
              (pc' = "save" /\ exit' = exit) \/ (pc' = "exit" /\ exit' = "error")
        BY <3>2 DEF DisableLoopback, Abort
      <4> QED BY <4>1
    <3> QED BY <1>2, <3>1, <3>2
  <2>3. pc # "exit" /\ UNCHANGED row
    BY <1>2 DEF EnableLoopback, DisableLoopback
  <2> QED BY <1>1, <2>1, <2>2, <2>3
<1>3. CASE OpenSocket \/ SendPacket \/ EchoIsMine \/ LoopEnds
  BY <1>1, <1>3 DEF OpenSocket, SendPacket, EchoIsMine, LoopEnds, Abort
<1>4. CASE EchoIsNotMine \/ ReceiveFails \/ Timeout
  BY <1>1, <1>4 DEF EchoIsNotMine, ReceiveFails, Timeout, Abort
<1>5. CASE SaveRow
  <2>1. /\ pc = "save" /\ seq = Last + 1 /\ pc' = "exit"
        /\ UNCHANGED <<loopback, seq, received, lost>>
        /\ \/ row' = <<PacketCount, received, lost>> /\ exit' = "ok"
           \/ UNCHANGED row /\ exit' = "error"
    BY <1>1, <1>5 DEF SaveRow, Abort, CountersAgree
  <2>2. <<PacketCount, received, lost>> # <<>>
    BY Triples
  <2> QED BY <1>1, <2>1, <2>2
<1>6. ASSUME NEW s \in air, Lose(s) \/ Arrive(s) \/ Double(s) PROVE RowIsLast'
  BY <1>1, <1>6 DEF Lose, Arrive, Double
<1>7. CASE StrayDatagram \/ UNCHANGED vars
  BY <1>1, <1>7 DEF StrayDatagram, vars
<1> QED BY <1>2, <1>3, <1>4, <1>5, <1>6, <1>7 DEF Next, Host, Network

\* The samples change only when one for the packet just sent is added.
LEMMA SamplesNext == CountInv /\ [Next]_vars => SamplesInOrder'
<1> SUFFICES ASSUME CountInv, [Next]_vars PROVE SamplesInOrder'
  OBVIOUS
<1>1. TypeOK /\ CountersAgree /\ SamplesInOrder
  BY DEF CountInv
<1>2. seq \in Nat /\ received \in Nat /\ samples \in Seq((0..Last) \X Echoes)
  BY <1>1, Numbers DEF TypeOK
<1>3. \A k \in DOMAIN samples : samples[k] \in (0..Last) \X Echoes
  BY <1>2, LenProperties
<1>4. CASE UNCHANGED <<samples, received>> /\ seq' \in {seq, seq + 1}
  <2>1. \A k \in DOMAIN samples : samples[k][1] < seq'
    <3> TAKE k \in DOMAIN samples
    <3>1. samples[k][1] \in 0..Last /\ samples[k][1] < seq
      BY <1>1, <1>3 DEF SamplesInOrder
    <3> QED BY <1>2, <1>4, <3>1, Numbers
  <2> QED BY <1>1, <1>4, <2>1 DEF SamplesInOrder
<1>5. CASE EchoIsMine /\ ~Probing
  <2> DEFINE d == <<seq, Head(queue)>>
  <2>1. /\ samples' = Append(samples, d) /\ received' = received + 1 /\ seq' = seq + 1
    BY <1>5 DEF EchoIsMine
  <2>2. d \in (0..Last) \X Echoes /\ d[1] = seq /\ d[2] \in {d[1], OldEcho(d[1])}
    BY <1>1, <1>5, SampleType, OldEchoes
  <2> HIDE DEF d
  <2>3. /\ Len(samples') = Len(samples) + 1 /\ Len(samples) \in Nat
        /\ DOMAIN samples = 1..Len(samples) /\ DOMAIN samples' = 1..Len(samples')
        /\ \A k \in DOMAIN samples : samples'[k] = samples[k]
        /\ samples'[Len(samples')] = d
        /\ \A k \in DOMAIN samples' : k \in DOMAIN samples \/ k = Len(samples')
    BY <1>2, <2>1, <2>2, Appending
  <2>4. ASSUME NEW k \in DOMAIN samples'
        PROVE  /\ samples'[k][1] < seq'
               /\ samples'[k][2] \in {samples'[k][1], OldEcho(samples'[k][1])}
    <3>1. CASE k \in DOMAIN samples
      <4>1. samples'[k] = samples[k] /\ samples[k][1] \in 0..Last
        BY <1>3, <2>3, <3>1
      <4> QED BY <1>1, <1>2, <2>1, <3>1, <4>1, Numbers DEF SamplesInOrder
    <3>2. CASE k = Len(samples')
      <4>1. samples'[k] = d
        BY <2>3, <3>2
      <4> QED BY <1>2, <2>1, <2>2, <4>1
    <3> QED BY <2>3, <2>4, <3>1, <3>2
  <2>5. ASSUME NEW k \in DOMAIN samples', NEW l \in DOMAIN samples', k < l
        PROVE  samples'[k][1] < samples'[l][1]
    <3>1. k \in DOMAIN samples
      BY <2>3, <2>5
    <3>2. CASE l \in DOMAIN samples
      BY <1>1, <2>3, <2>5, <3>1, <3>2 DEF SamplesInOrder
    <3>3. CASE l = Len(samples')
      <4>1. samples'[l] = d /\ samples'[k] = samples[k]
        BY <2>3, <3>1, <3>3
      <4> QED BY <1>1, <2>2, <3>1, <4>1 DEF SamplesInOrder
    <3> QED BY <2>3, <2>5, <3>2, <3>3
  <2>6. Len(samples') = received'
    BY <1>1, <2>1, <2>3 DEF SamplesInOrder
  <2> QED BY <2>4, <2>5, <2>6 DEF SamplesInOrder
<1>6. CASE EchoIsMine \/ Timeout
  BY <1>4, <1>5, <1>6 DEF EchoIsMine, Timeout
<1>7. CASE EnableLoopback \/ OpenSocket \/ SendPacket \/ LoopEnds \/ DisableLoopback \/ SaveRow
  BY <1>4, <1>7 DEF EnableLoopback, OpenSocket, SendPacket, LoopEnds, DisableLoopback, SaveRow
<1>8. CASE EchoIsNotMine \/ ReceiveFails \/ StrayDatagram \/ UNCHANGED vars
  BY <1>4, <1>8 DEF EchoIsNotMine, ReceiveFails, StrayDatagram, vars
<1>9. ASSUME NEW s \in air, Lose(s) \/ Arrive(s) \/ Double(s) PROVE SamplesInOrder'
  BY <1>4, <1>9 DEF Lose, Arrive, Double
<1> QED BY <1>6, <1>7, <1>8, <1>9 DEF Next, Host, Network

\* The four together are inductive.
LEMMA CountNext == CountInv /\ [Next]_vars => CountInv'
  BY TypeNext, CountersNext, RowNext, SamplesNext DEF CountInv

\* So they hold in every state of every run.
LEMMA Counted == Spec => []CountInv
  BY CountInit, CountNext, PTL DEF Spec

-----------------------------------------------------------------------------
(* Echoes are of packets that were sent.                                   *)

\* A packet once sent stays sent.
LEMMA SentStaysSent ==
  ASSUME CountInv, [Next]_vars, NEW s \in 0..Last, WasSent(s)
  PROVE  WasSent(s)'
<1>1. seq \in Nat /\ (pc = "wait" => seq <= Last)
  BY DEF CountInv, TypeOK, CountersAgree
<1>2. \/ seq' = seq + 1
      \/ seq' = seq /\ (pc' \in {"wait", "exit"} \/ pc \notin {"wait", "exit"})
  <2>1. CASE EnableLoopback \/ OpenSocket \/ SendPacket \/ LoopEnds
    BY <2>1 DEF EnableLoopback, OpenSocket, SendPacket, LoopEnds
  <2>2. CASE DisableLoopback \/ SaveRow \/ EchoIsMine
    BY <2>2 DEF DisableLoopback, SaveRow, EchoIsMine
  <2>3. CASE EchoIsNotMine \/ ReceiveFails \/ Timeout
    BY <2>3 DEF EchoIsNotMine, ReceiveFails, Timeout, Abort
  <2>4. ASSUME NEW t \in air, Lose(t) \/ Arrive(t) \/ Double(t)
        PROVE  UNCHANGED <<seq, pc>>
    BY <2>4 DEF Lose, Arrive, Double
  <2>5. CASE StrayDatagram \/ UNCHANGED vars
    BY <2>5 DEF StrayDatagram, vars
  <2> QED BY <2>1, <2>2, <2>3, <2>4, <2>5 DEF Next, Host, Network
<1> QED BY <1>1, <1>2 DEF WasSent

\* A packet is in flight only after it was sent, and so is its echo.
LEMMA SentNext == CountInv /\ EchoesWereSent /\ [Next]_vars => EchoesWereSent'
<1> SUFFICES ASSUME CountInv, EchoesWereSent, [Next]_vars PROVE EchoesWereSent'
  OBVIOUS
<1>1. /\ seq \in Nat /\ air \subseteq Echoes /\ queue \in Seq(Echoes \cup {Stray})
      /\ back \subseteq Echoes
  BY DEF CountInv, TypeOK
<1>2. \A s \in 0..Last : WasSent(s) => WasSent(s)'
  BY SentStaysSent
<1>3. Echoes \cup {Stray} \subseteq Int /\ \A s \in Echoes : s <= Last => s \in 0..Last
  BY Numbers DEF Echoes, Stray
<1>4. ASSUME air' \subseteq air, back' = back,
             \A k \in DOMAIN queue' : \E j \in DOMAIN queue : queue'[k] = queue[j]
      PROVE  EchoesWereSent'
  <2>1. \A s \in air' : s <= Last => WasSent(s)'
    BY <1>1, <1>2, <1>3, <1>4 DEF EchoesWereSent
  <2>2. \A k \in DOMAIN queue' : (queue[k] \in 0..Last => WasSent(queue[k]))'
    BY <1>2, <1>4 DEF EchoesWereSent
  <2>3. \A s \in back' : s < Last /\ WasSent(s)'
    BY <1>1, <1>2, <1>3, <1>4, Numbers DEF EchoesWereSent
  <2> QED BY <2>1, <2>2, <2>3 DEF EchoesWereSent
<1>5. ASSUME air' = air, back' = back, queue' \in {queue, <<>>}
      PROVE  EchoesWereSent'
  BY <1>4, <1>5
<1>6. CASE EnableLoopback \/ OpenSocket \/ LoopEnds \/ DisableLoopback \/ SaveRow
  BY <1>5, <1>6
  DEF EnableLoopback, OpenSocket, LoopEnds, DisableLoopback, SaveRow, Abort, history
<1>7. CASE SendPacket
  <2>1. CASE air' = air
    BY <1>5, <1>7, <2>1 DEF SendPacket, Abort, history
  <2>2. CASE air' = air \cup {seq} /\ pc' = "wait"
    <3>1. UNCHANGED <<queue, back, seq>>
      BY <1>7, <2>2 DEF SendPacket, Abort, history
    <3>2. WasSent(seq)'
      BY <2>2, <3>1 DEF WasSent
    <3>3. \A s \in air' : s <= Last => WasSent(s)'
      BY <1>1, <1>2, <1>3, <2>2, <3>1, <3>2 DEF EchoesWereSent
    <3>4. \A k \in DOMAIN queue' : (queue[k] \in 0..Last => WasSent(queue[k]))'
      BY <1>2, <3>1 DEF EchoesWereSent
    <3>5. \A s \in back' : s < Last /\ WasSent(s)'
      BY <1>1, <1>2, <1>3, <3>1, Numbers DEF EchoesWereSent
    <3> QED BY <3>3, <3>4, <3>5 DEF EchoesWereSent
  <2> QED BY <1>7, <2>1, <2>2 DEF SendPacket
<1>8. CASE EchoIsMine
  <2>1. queue # <<>> /\ queue' = Tail(queue) /\ UNCHANGED <<air, back>>
    BY <1>8 DEF EchoIsMine, history
  <2>2. \A k \in DOMAIN queue' : \E j \in DOMAIN queue : queue'[k] = queue[j]
    BY <1>1, <2>1, Moving
  <2> QED BY <1>4, <2>1, <2>2
<1>9. CASE EchoIsNotMine \/ ReceiveFails \/ Timeout
  BY <1>5, <1>9 DEF EchoIsNotMine, ReceiveFails, Timeout, Abort, history
<1>10. ASSUME NEW s \in air, Lose(s) PROVE EchoesWereSent'
  BY <1>4, <1>10 DEF Lose, history
<1>11. ASSUME NEW s \in air, Arrive(s) \/ Double(s) PROVE EchoesWereSent'
  <2>1. /\ air' \subseteq air /\ (s <= Last => WasSent(s)) /\ s \in Echoes
        /\ UNCHANGED <<seq, pc>>
    BY <1>1, <1>11 DEF Arrive, Double, EchoesWereSent
  <2>2. \A t \in air' : t <= Last => WasSent(t)'
    BY <1>1, <1>2, <1>3, <2>1 DEF EchoesWereSent
  <2>3. queue' = queue \/ queue' = Append(queue, s)
    BY <1>11 DEF Arrive, Double, Queued
  <2>4. s \in Echoes \cup {Stray}
    BY <2>1
  <2>5. \A k \in DOMAIN queue' :
          queue'[k] = s \/ \E j \in DOMAIN queue : queue'[k] = queue[j]
    BY <1>1, <2>3, <2>4, Appending
  <2>6. \A k \in DOMAIN queue' : (queue[k] \in 0..Last => WasSent(queue[k]))'
    BY <1>2, <2>1, <2>5, Numbers DEF EchoesWereSent
  <2>7. back' = back \/ (LastUnsent /\ s <= Last /\ back' = back \cup {s})
    BY <1>11 DEF Arrive, Double, Queued
  <2>8. LastUnsent /\ s <= Last => s < Last
    BY <1>1, <1>3, <2>1, Numbers DEF LastUnsent, WasSent
  <2>9. \A t \in back' : t < Last /\ WasSent(t)'
    BY <1>1, <1>2, <1>3, <2>1, <2>7, <2>8, Numbers DEF EchoesWereSent
  <2> QED BY <2>2, <2>6, <2>9 DEF EchoesWereSent
<1>12. CASE StrayDatagram
  <2>1. UNCHANGED <<air, back>> /\ queue' = Append(queue, Stray)
    BY <1>12 DEF StrayDatagram
  <2>2. \A k \in DOMAIN queue' :
          queue'[k] = Stray \/ \E j \in DOMAIN queue : queue'[k] = queue[j]
    BY <1>1, <2>1, Appending
  <2>3. Stray \notin 0..Last
    BY Numbers DEF Stray
  <2>4. \A s \in air' : s <= Last => WasSent(s)'
    BY <1>1, <1>2, <1>3, <2>1 DEF EchoesWereSent
  <2>5. \A k \in DOMAIN queue' : (queue[k] \in 0..Last => WasSent(queue[k]))'
    BY <1>2, <2>2, <2>3 DEF EchoesWereSent
  <2>6. \A s \in back' : s < Last /\ WasSent(s)'
    BY <1>1, <1>2, <1>3, <2>1, Numbers DEF EchoesWereSent
  <2> QED BY <2>4, <2>5, <2>6 DEF EchoesWereSent
<1>13. CASE UNCHANGED vars
  BY <1>5, <1>13 DEF vars, history
<1> QED
  BY <1>6, <1>7, <1>8, <1>9, <1>10, <1>11, <1>12, <1>13 DEF Next, Host, Network

-----------------------------------------------------------------------------
(* The own echo of a deceived packet waits in the queue.                   *)

\* What is appended leaves an echo waiting.
LEMMA AppendedWaits ==
  ASSUME NEW d \in Echoes \cup {Stray}, queue \in Seq(Echoes \cup {Stray}),
         queue' = Append(queue, d), NEW n, EchoWaits(n)
  PROVE  EchoWaits(n)'
<1>1. PICK k \in DOMAIN queue : queue[k] = n /\ \A j \in 1..(k - 1) : queue[j] # Last
  BY DEF EchoWaits
<1>2. /\ DOMAIN queue = 1..Len(queue) /\ Len(queue) \in Nat
      /\ \A j \in DOMAIN queue : j \in DOMAIN queue' /\ queue'[j] = queue[j]
  BY Appending
<1>3. k \in DOMAIN queue' /\ queue'[k] = n
  BY <1>1, <1>2
<1>4. \A j \in 1..(k - 1) : queue'[j] # Last
  BY <1>1, <1>2
<1> QED BY <1>3, <1>4 DEF EchoWaits

\* What is appended waits if no echo of the last packet is in the queue.
LEMMA NewEchoWaits ==
  ASSUME NEW n \in Echoes \cup {Stray}, queue \in Seq(Echoes \cup {Stray}),
         queue' = Append(queue, n), \A k \in DOMAIN queue : queue[k] # Last
  PROVE  EchoWaits(n)'
<1>1. /\ DOMAIN queue = 1..Len(queue) /\ Len(queue) \in Nat /\ Len(queue') = Len(queue) + 1
      /\ \A j \in DOMAIN queue : queue'[j] = queue[j]
      /\ Len(queue') \in DOMAIN queue' /\ queue'[Len(queue')] = n
  BY Appending
<1>2. \A j \in 1..(Len(queue') - 1) : queue'[j] # Last
  BY <1>1
<1> QED BY <1>1, <1>2 DEF EchoWaits

\* When another datagram is read, an echo waits on, and the one read was not that of the
\* last packet.
LEMMA ReadingWaits ==
  ASSUME queue \in Seq(Echoes \cup {Stray}), queue # <<>>, queue' = Tail(queue),
         NEW n, EchoWaits(n), Head(queue) # n
  PROVE  EchoWaits(n)' /\ Head(queue) # Last
<1>1. PICK k \in DOMAIN queue : queue[k] = n /\ \A j \in 1..(k - 1) : queue[j] # Last
  BY DEF EchoWaits
<1>2. /\ DOMAIN queue = 1..Len(queue) /\ Len(queue) \in Nat
      /\ Head(queue) = queue[1] /\ DOMAIN queue' = 1..Len(queue')
      /\ \A j \in DOMAIN queue' : j \in Nat /\ j + 1 \in DOMAIN queue /\ queue'[j] = queue[j + 1]
      /\ \A j \in DOMAIN queue : j = 1 \/ (j - 1 \in DOMAIN queue' /\ queue'[j - 1] = queue[j])
      /\ Len(queue') = Len(queue) - 1
  BY Moving
<1>3. k # 1 /\ k \in Nat /\ 1 \in 1..(k - 1)
  BY <1>1, <1>2
<1>4. k - 1 \in DOMAIN queue' /\ queue'[k - 1] = n
  BY <1>1, <1>2, <1>3
<1>5. \A j \in 1..((k - 1) - 1) : queue'[j] # Last
  <2> TAKE j \in 1..((k - 1) - 1)
  <2>1. j \in DOMAIN queue' /\ j + 1 \in 1..(k - 1)
    BY <1>2, <1>3, <1>4
  <2> QED BY <1>1, <1>2, <2>1
<1>6. Head(queue) # Last
  BY <1>1, <1>2, <1>3
<1> QED BY <1>4, <1>5, <1>6 DEF EchoWaits

\* A packet is deceived only when the datagram read for it is an old one.
LEMMA Deceiving ==
  ASSUME CountInv, EchoIsMine
  PROVE  /\ Deceived \subseteq Deceived'
         /\ \A n \in Deceived' : n \in Deceived \/ (n = seq /\ Head(queue) = OldEcho(seq))
         /\ ~Probing /\ Head(queue) = OldEcho(seq) => seq \in Deceived'
<1>1. samples \in Seq((0..Last) \X Echoes) /\ TypeOK /\ CountersAgree
  BY DEF CountInv, TypeOK
<1>2. CASE Probing
  BY <1>2 DEF EchoIsMine, Deceived
<1>3. CASE ~Probing
  <2> DEFINE d == <<seq, Head(queue)>>
  <2>1. samples' = Append(samples, d)
    BY <1>3 DEF EchoIsMine
  <2>2. /\ d \in (0..Last) \X Echoes /\ seq \in 0..Last
        /\ \A n \in 0..Last : d = <<n, OldEcho(n)>> <=> n = seq /\ Head(queue) = OldEcho(seq)
    BY <1>1, SampleType, OldEchoes
  <2> HIDE DEF d
  <2>3. /\ \A k \in DOMAIN samples : k \in DOMAIN samples' /\ samples'[k] = samples[k]
        /\ Len(samples') \in DOMAIN samples' /\ samples'[Len(samples')] = d
        /\ \A k \in DOMAIN samples' : k \in DOMAIN samples \/ k = Len(samples')
    BY <1>1, <2>1, <2>2, Appending
  <2>4. Deceived \subseteq Deceived'
    BY <2>3 DEF Deceived
  <2>5. \A n \in Deceived' : n \in Deceived \/ (n = seq /\ Head(queue) = OldEcho(seq))
    BY <2>2, <2>3 DEF Deceived
  <2>6. Head(queue) = OldEcho(seq) => seq \in Deceived'
    BY <2>2, <2>3 DEF Deceived
  <2> QED BY <2>4, <2>5, <2>6
<1> QED BY <1>2, <1>3

\* An old echo that passed for a packet's own leaves that one behind, to be refused.
LEMMA TrapNext == TrapInv /\ [Next]_vars => DeceptionIsTrapped'
<1> SUFFICES ASSUME TrapInv, [Next]_vars PROVE DeceptionIsTrapped'
  OBVIOUS
<1>1. /\ CountInv /\ EchoesWereSent /\ DeceptionIsTrapped
      /\ seq \in 0..(Last + 1) /\ queue \in Seq(Echoes \cup {Stray})
      /\ air \subseteq Echoes /\ back \subseteq Echoes
      /\ pc = "wait" => seq <= Last
  BY DEF TrapInv, CountInv, TypeOK, CountersAgree
<1>2. \A n \in back : n \in Int /\ n < Last /\ n <= seq
  BY <1>1, Numbers DEF EchoesWereSent, WasSent, Echoes
<1>3. \A n \in Deceived : n \in 0..Last /\ n < seq
  BY <1>1 DEF CountInv, SamplesInOrder, Deceived
<1>4. ASSUME UNCHANGED <<seq, back, samples>>, pc' \notin {"send", "wait"}
      PROVE  DeceptionIsTrapped'
  BY <1>1, <1>4 DEF DeceptionIsTrapped, Deceived
<1>5. ASSUME UNCHANGED <<seq, back, samples, queue>>, pc \in {"send", "wait"}
      PROVE  DeceptionIsTrapped'
  BY <1>1, <1>5 DEF DeceptionIsTrapped, Deceived, EchoWaits
<1>6. ASSUME seq = 0, seq' = 0, UNCHANGED <<back, samples>>, pc \in {"enable", "open"}
      PROVE  DeceptionIsTrapped'
  <2>1. back = {}
    BY <1>1, <1>2, <1>6, Numbers DEF EchoesWereSent, WasSent, Echoes
  <2> QED BY <1>6, <2>1, Numbers DEF DeceptionIsTrapped
<1>7. CASE EnableLoopback \/ OpenSocket
  <2>1. seq = 0 /\ seq' = 0 /\ UNCHANGED <<back, samples>> /\ pc \in {"enable", "open"}
    BY <1>1, <1>7 DEF EnableLoopback, OpenSocket, CountInv, CountersAgree, history
  <2> QED BY <1>6, <2>1
<1>8. CASE SendPacket
  BY <1>4, <1>5, <1>8 DEF SendPacket, Abort, history
<1>9. CASE EchoIsNotMine \/ ReceiveFails
  BY <1>4, <1>9 DEF EchoIsNotMine, ReceiveFails, Abort, history
<1>10. CASE LoopEnds
  BY <1>4, <1>10 DEF LoopEnds, history
<1>11. CASE DisableLoopback \/ SaveRow
  BY <1>4, <1>11 DEF DisableLoopback, SaveRow, Abort, history
<1>12. CASE EchoIsMine
  <2>1. /\ queue # <<>> /\ queue' = Tail(queue) /\ UNCHANGED back
        /\ Head(queue) \in {seq, OldEcho(seq)} /\ seq' = seq + 1
        /\ pc = "wait" /\ seq \in 0..Last /\ OldEcho(seq) > Last
    BY <1>1, <1>12, OldEchoes DEF EchoIsMine, Passes, history
  <2>2. ASSUME NEW n \in back, n \in Deceived'
        PROVE  EchoWaits(n)' /\ Head(queue) # Last
    <3>1. (n \in Deceived /\ n < seq) \/ (n = seq /\ Head(queue) = OldEcho(seq))
      BY <1>1, <1>3, <1>12, <2>2, Deceiving
    <3>2. EchoWaits(n)
      BY <1>1, <2>1, <2>2, <3>1 DEF DeceptionIsTrapped
    <3>3. Head(queue) # n
      BY <1>2, <2>1, <3>1, Numbers
    <3> QED BY <1>1, <2>1, <3>2, <3>3, ReadingWaits
  <2>3. seq' <= Last => \A n \in back' : n = seq' \/ n \in Deceived' => EchoWaits(n)'
    BY <1>1, <1>2, <2>1, <2>2
  <2>4. ASSUME seq' = Last + 1, NEW n \in back', n \in Deceived'
        PROVE  Last \in Deceived'
    <3>1. seq = Last /\ Head(queue) = OldEcho(seq) /\ ~Probing
      BY <2>1, <2>2, <2>4, Numbers DEF Probing
    <3> QED BY <1>1, <1>12, <3>1, Deceiving
  <2> QED BY <2>3, <2>4 DEF DeceptionIsTrapped
<1>13. CASE Timeout
  <2>1. CASE pc' = "exit"
    <3>1. UNCHANGED <<seq, back, samples>>
      BY <1>13, <2>1 DEF Timeout
    <3> QED BY <1>4, <2>1, <3>1
  <2>2. CASE pc' = "send"
    <3>1. /\ queue = <<>> /\ UNCHANGED <<back, samples>> /\ seq' = seq + 1
          /\ pc = "wait" /\ seq \in 0..Last
      BY <1>1, <1>13, <2>2 DEF Timeout, Abort
    <3>2. \A n : ~EchoWaits(n)
      BY <3>1 DEF EchoWaits
    <3>3. \A n \in back : n \notin Deceived
      BY <1>1, <3>1, <3>2 DEF DeceptionIsTrapped
    <3>4. Deceived' = Deceived
      BY <3>1 DEF Deceived
    <3>5. \A n \in back' : n # seq'
      BY <1>1, <1>2, <3>1
    <3> QED BY <3>1, <3>3, <3>4, <3>5 DEF DeceptionIsTrapped
  <2> QED BY <1>13, <2>1, <2>2 DEF Timeout, Abort
<1>14. ASSUME NEW s \in air, Lose(s) PROVE DeceptionIsTrapped'
  BY <1>1, <1>14 DEF Lose, history, DeceptionIsTrapped, Deceived, EchoWaits
<1>15. ASSUME NEW s \in air, Arrive(s) \/ Double(s) PROVE DeceptionIsTrapped'
  <2>1. UNCHANGED <<seq, pc, samples>> /\ Queued(s) /\ s \in Echoes \cup {Stray}
    BY <1>1, <1>15 DEF Arrive, Double
  <2>2. Deceived' = Deceived
    BY <2>1 DEF Deceived
  <2>3. CASE ~SocketOpen
    BY <1>1, <2>1, <2>2, <2>3 DEF Queued, SocketOpen, DeceptionIsTrapped
  <2>4. CASE SocketOpen
    <3>1. queue' = Append(queue, s)
      BY <2>1, <2>4 DEF Queued
    <3>2. \A n : EchoWaits(n) => EchoWaits(n)'
      BY <1>1, <2>1, <3>1, AppendedWaits
    <3>3. CASE back' = back
      BY <1>1, <2>1, <2>2, <3>2, <3>3 DEF DeceptionIsTrapped
    <3>4. CASE back' = back \cup {s} /\ LastUnsent
      <4>1. seq <= Last /\ ~WasSent(Last)
        BY <1>1, <3>4, Numbers DEF LastUnsent, WasSent
      <4>2. Last \in 0..Last
        BY Numbers
      <4>3. \A k \in DOMAIN queue : queue[k] # Last
        BY <1>1, <4>1, <4>2 DEF EchoesWereSent
      <4>4. EchoWaits(s)'
        BY <1>1, <2>1, <3>1, <4>3, NewEchoWaits
      <4> QED BY <1>1, <2>1, <2>2, <3>2, <3>4, <4>1, <4>4, Numbers DEF DeceptionIsTrapped
    <3> QED BY <2>1, <3>3, <3>4 DEF Queued
  <2> QED BY <2>3, <2>4
<1>16. CASE StrayDatagram
  <2>1. UNCHANGED <<seq, pc, samples, back>> /\ queue' = Append(queue, Stray)
    BY <1>16 DEF StrayDatagram
  <2>2. Deceived' = Deceived
    BY <2>1 DEF Deceived
  <2>3. \A n : EchoWaits(n) => EchoWaits(n)'
    BY <1>1, <2>1, AppendedWaits
  <2> QED BY <1>1, <2>1, <2>2, <2>3 DEF DeceptionIsTrapped
<1>17. CASE UNCHANGED vars
  BY <1>1, <1>17 DEF vars, history, DeceptionIsTrapped, Deceived, EchoWaits
<1> QED
  BY <1>7, <1>8, <1>9, <1>10, <1>11, <1>12, <1>13, <1>14, <1>15, <1>16, <1>17
  DEF Next, Host, Network

\* At the start nothing of this run is in flight.
LEMMA SentInit == Init => EchoesWereSent
<1> SUFFICES ASSUME Init PROVE EchoesWereSent
  OBVIOUS
<1>1. \A s \in air : s > Last
  BY OldEchoes DEF Init
<1>2. air \subseteq Echoes /\ queue = <<>> /\ back = {}
  BY OldEchoes DEF Init
<1>3. \A s \in air : ~(s <= Last)
  BY <1>1, <1>2, Numbers DEF Echoes
<1> QED BY <1>2, <1>3 DEF EchoesWereSent

\* The inductive invariant behind DeceptionIsExposed.
LEMMA Trapped == Spec => []TrapInv
<1>1. Init => TrapInv
  <2>1. Init => DeceptionIsTrapped
    BY Numbers DEF Init, DeceptionIsTrapped
  <2> QED BY <2>1, CountInit, SentInit DEF TrapInv
<1>2. TrapInv /\ [Next]_vars => TrapInv'
  BY CountNext, SentNext, TrapNext DEF TrapInv
<1> QED BY <1>1, <1>2, PTL DEF Spec

-----------------------------------------------------------------------------
(* One echo of each packet, as long as nothing odd happens.                *)

\* The echoes in flight and in the queue only became fewer, or moved up in the queue.
LEMMA FewerEchoes ==
  ASSUME OrdinaryInv, odd' = odd, inherited' = inherited, seq' = seq,
         air' \subseteq air, queue' \in {queue, <<>>}
  PROVE  EchoesAreOrdinary'
<1>1. EchoesAreOrdinary
  BY DEF OrdinaryInv
<1>2. CASE queue' = queue
  BY <1>1, <1>2 DEF EchoesAreOrdinary, Excused
<1>3. CASE queue' = <<>>
  BY <1>1, <1>3 DEF EchoesAreOrdinary, Excused
<1> QED BY <1>2, <1>3

\* An echo refused was late, doubled or stray, or due to an earlier run.
LEMMA OrdinaryNext == OrdinaryInv /\ [Next]_vars => EchoesAreOrdinary'
<1> SUFFICES ASSUME OrdinaryInv, [Next]_vars PROVE EchoesAreOrdinary'
  OBVIOUS
<1>1. /\ CountInv /\ EchoesWereSent /\ EchoesAreOrdinary
      /\ seq \in 0..(Last + 1) /\ queue \in Seq(Echoes \cup {Stray}) /\ odd \in Nat
      /\ air \subseteq Echoes
  BY Numbers DEF OrdinaryInv, CountInv, TypeOK
<1>2. /\ Echoes \cup {Stray} \subseteq Int
      /\ \A s \in Echoes \cup {Stray} : s <= Last /\ s # Stray => s \in 0..Last
  BY Numbers DEF Echoes, Stray
<1>3. \A k \in DOMAIN queue : queue[k] \in Echoes \cup {Stray}
  BY <1>1, LenProperties
<1>4. CASE EnableLoopback \/ OpenSocket \/ LoopEnds \/ DisableLoopback \/ SaveRow
  BY <1>4, FewerEchoes
  DEF EnableLoopback, OpenSocket, LoopEnds, DisableLoopback, SaveRow, Abort, history
<1>5. CASE EchoIsNotMine \/ ReceiveFails
  BY <1>5, FewerEchoes DEF EchoIsNotMine, ReceiveFails, Abort, history
<1>6. CASE SendPacket
  <2>1. CASE air' = air
    BY <1>6, <2>1, FewerEchoes DEF SendPacket, Abort, history
  <2>2. CASE air' = air \cup {seq} /\ pc' = "wait"
    <3>1. UNCHANGED <<queue, seq, odd, inherited>> /\ pc = "send" /\ seq \in 0..Last
      BY <1>1, <1>6, <2>2 DEF SendPacket, Abort, history
    <3>2. \A k \in DOMAIN queue : queue[k] # seq
      BY <1>1, <3>1 DEF EchoesWereSent, WasSent
    <3>3. /\ \A s \in air' : s > Last => s \in inherited'
          /\ \A k \in DOMAIN queue' : queue'[k] > Last => queue'[k] \in inherited'
      BY <1>1, <2>2, <3>1, Numbers DEF EchoesAreOrdinary
    <3>4. ASSUME odd = 0
          PROVE  /\ \A s \in air' : Excused(s)'
                 /\ \A k \in DOMAIN queue' : queue'[k] <= Last => queue'[k] \notin air'
      <4>1. Excused(seq)'
        BY <3>1 DEF Excused
      <4> QED BY <1>1, <2>2, <3>1, <3>2, <3>4, <4>1 DEF EchoesAreOrdinary, Excused
    <3> QED BY <1>1, <3>1, <3>3, <3>4 DEF EchoesAreOrdinary, Excused
  <2> QED BY <1>6, <2>1, <2>2 DEF SendPacket
<1>7. CASE EchoIsMine
  <2>1. /\ queue # <<>> /\ queue' = Tail(queue) /\ UNCHANGED <<air, odd, inherited>>
        /\ Head(queue) \in {seq, OldEcho(seq)} /\ seq' = seq + 1
        /\ seq \in 0..Last /\ OldEcho(seq) > Last
    BY <1>1, <1>7, OldEchoes DEF EchoIsMine, Passes, history, CountInv, CountersAgree
  <2>2. /\ Head(queue) = queue[1] /\ 1 \in DOMAIN queue
        /\ \A k \in DOMAIN queue' : /\ k \in Nat /\ k + 1 \in DOMAIN queue
                                    /\ queue'[k] = queue[k + 1] /\ k + 1 # 1
        /\ DOMAIN queue' = 1..Len(queue') /\ DOMAIN queue = 1..Len(queue)
    BY <1>1, <2>1, Moving
  <2>3. /\ \A s \in air' : s > Last => s \in inherited'
        /\ \A k \in DOMAIN queue' : queue'[k] > Last => queue'[k] \in inherited'
    BY <1>1, <2>1, <2>2 DEF EchoesAreOrdinary
  <2>4. ASSUME odd = 0 PROVE \/ OldEcho(seq) \in inherited
                             \/ seq \notin air /\ \A k \in DOMAIN queue' : queue'[k] # seq
    <3>1. CASE Head(queue) = OldEcho(seq)
      BY <1>1, <2>1, <2>2, <3>1 DEF EchoesAreOrdinary
    <3>2. CASE Head(queue) = seq
      <4>1. seq <= Last /\ queue[1] = seq
        BY <2>1, <2>2, <3>2, Numbers
      <4>2. seq \notin air
        BY <1>1, <2>2, <2>4, <4>1 DEF EchoesAreOrdinary
      <4>3. \A k \in DOMAIN queue' : queue'[k] # seq
        BY <1>1, <2>2, <2>4, <4>1 DEF EchoesAreOrdinary
      <4> QED BY <4>2, <4>3
    <3> QED BY <2>1, <3>1, <3>2
  <2>5. \A s \in Int : Excused(s) /\ (s = seq => OldEcho(seq) \in inherited) => Excused(s)'
    BY <2>1, Numbers DEF Excused, OldEcho
  <2>6. ASSUME odd = 0
        PROVE  /\ \A s \in air' : Excused(s)'
               /\ \A k \in DOMAIN queue' : queue'[k] # Stray /\ (Excused(queue[k]))'
    <3>1. \A s \in air' : Excused(s)'
      BY <1>1, <1>2, <2>1, <2>4, <2>5, <2>6 DEF EchoesAreOrdinary
    <3>2. ASSUME NEW k \in DOMAIN queue'
          PROVE  queue'[k] # Stray /\ (Excused(queue[k]))'
      <4>1. PICK s \in Int : s # Stray /\ Excused(s) /\ queue'[k] = s
        BY <1>1, <1>2, <1>3, <2>2, <2>6 DEF EchoesAreOrdinary
      <4>2. s = seq => OldEcho(seq) \in inherited
        BY <2>4, <2>6, <4>1
      <4>3. Excused(s)'
        BY <2>5, <4>1, <4>2
      <4> QED BY <4>1, <4>3 DEF Excused
    <3> QED BY <3>1, <3>2
  <2>7. ASSUME odd = 0
        PROVE  /\ \A k \in DOMAIN queue' : queue'[k] <= Last => queue'[k] \notin air'
               /\ \A k, l \in DOMAIN queue' :
                    queue'[k] = queue'[l] /\ queue'[k] <= Last => k = l
    <3>1. \A k \in DOMAIN queue' : queue'[k] <= Last => queue'[k] \notin air'
      BY <1>1, <2>1, <2>2, <2>7 DEF EchoesAreOrdinary
    <3>2. ASSUME NEW k \in DOMAIN queue', NEW l \in DOMAIN queue',
                 queue'[k] = queue'[l], queue'[k] <= Last
          PROVE  k = l
      <4>1. k + 1 = l + 1
        BY <1>1, <2>2, <2>7, <3>2 DEF EchoesAreOrdinary
      <4> QED BY <2>2, <4>1
    <3> QED BY <3>1, <3>2
  <2> QED BY <2>1, <2>3, <2>6, <2>7 DEF EchoesAreOrdinary
<1>8. CASE Timeout
  <2>1. CASE pc' = "exit"
    <3>1. queue' = <<>> /\ UNCHANGED <<seq, inherited, air>> /\ odd' \in {odd, odd + 1}
      BY <1>8, <2>1 DEF Timeout, Abort
    <3>2. odd' = 0 => odd = 0
      BY <1>1, <3>1
    <3> QED BY <1>1, <3>1, <3>2 DEF EchoesAreOrdinary, Excused
  <2>2. CASE pc' = "send"
    <3>1. /\ queue = <<>> /\ queue' = queue /\ UNCHANGED <<inherited, air>>
          /\ seq' = seq + 1 /\ seq \in 0..Last
          /\ IF seq \in air THEN odd' = odd + 1 ELSE odd' = odd
      BY <1>1, <1>8, <2>2 DEF Timeout, Abort, CountInv, CountersAgree
    <3>2. odd' = 0 => odd = 0 /\ seq \notin air
      BY <1>1, <3>1
    <3>3. ASSUME odd' = 0, NEW s \in air PROVE Excused(s)'
      <4>1. Excused(s) /\ s # seq /\ s \in Int
        BY <1>1, <1>2, <3>2, <3>3 DEF EchoesAreOrdinary
      <4> QED BY <3>1, <4>1, Numbers DEF Excused, OldEcho
    <3> QED BY <1>1, <3>1, <3>3 DEF EchoesAreOrdinary
  <2> QED BY <1>8, <2>1, <2>2 DEF Timeout, Abort
<1>9. ASSUME NEW s \in air, Lose(s) PROVE EchoesAreOrdinary'
  BY <1>9, FewerEchoes DEF Lose, history
<1>10. ASSUME NEW s \in air, Double(s) PROVE EchoesAreOrdinary'
  <2>1. UNCHANGED <<air, inherited>> /\ odd' = odd + 1 /\ s <= Last /\ s \in Echoes \cup {Stray}
        /\ (queue' = queue \/ queue' = Append(queue, s))
    BY <1>1, <1>10 DEF Double, Queued
  <2>2. \A k \in DOMAIN queue' : \/ queue'[k] = s
                                 \/ \E j \in DOMAIN queue : queue'[k] = queue[j]
    BY <1>1, <2>1, Appending
  <2>3. s \in Int /\ ~(s > Last)
    BY <1>2, <2>1, Numbers
  <2>4. \A k \in DOMAIN queue' : queue'[k] > Last => queue'[k] \in inherited'
    BY <1>1, <2>1, <2>2, <2>3 DEF EchoesAreOrdinary
  <2> QED BY <1>1, <2>1, <2>4 DEF EchoesAreOrdinary
<1>11. ASSUME NEW s \in air, Arrive(s) PROVE EchoesAreOrdinary'
  <2>1. UNCHANGED <<odd, inherited, seq>> /\ air' = air \ {s} /\ s \in Echoes \cup {Stray}
    BY <1>1, <1>11 DEF Arrive
  <2>2. CASE queue' = queue
    BY <2>1, <2>2, FewerEchoes
  <2>3. CASE queue' = Append(queue, s)
    <3>1. /\ \A k \in DOMAIN queue : k \in DOMAIN queue' /\ queue'[k] = queue[k]
          /\ queue'[Len(queue')] = s
          /\ \A k \in DOMAIN queue' : k \in DOMAIN queue \/ k = Len(queue')
      BY <1>1, <2>1, <2>3, Appending
    <3>2. /\ \A t \in air' : t > Last => t \in inherited'
          /\ \A k \in DOMAIN queue' : queue'[k] > Last => queue'[k] \in inherited'
      BY <1>1, <2>1, <3>1 DEF EchoesAreOrdinary
    <3>3. ASSUME odd = 0
          PROVE  /\ \A t \in air' : Excused(t)'
                 /\ \A k \in DOMAIN queue' : queue'[k] # Stray /\ (Excused(queue[k]))'
      <4>1. s # Stray
        BY <1>1, OldEchoes
      <4> QED BY <1>1, <2>1, <3>1, <3>3, <4>1 DEF EchoesAreOrdinary, Excused
    <3>4. ASSUME odd = 0
          PROVE  /\ \A k \in DOMAIN queue' : queue'[k] <= Last => queue'[k] \notin air'
                 /\ \A k, l \in DOMAIN queue' :
                      queue'[k] = queue'[l] /\ queue'[k] <= Last => k = l
      <4>1. \A k \in DOMAIN queue : queue[k] <= Last => queue[k] # s
        BY <1>1, <3>4 DEF EchoesAreOrdinary
      <4> QED BY <1>1, <2>1, <3>1, <3>4, <4>1 DEF EchoesAreOrdinary
    <3> QED BY <2>1, <3>2, <3>3, <3>4 DEF EchoesAreOrdinary
  <2> QED BY <1>11, <2>2, <2>3 DEF Arrive, Queued
<1>12. CASE StrayDatagram
  <2>1. UNCHANGED <<air, inherited>> /\ odd' = odd + 1 /\ queue' = Append(queue, Stray)
    BY <1>12 DEF StrayDatagram
  <2>2. \A k \in DOMAIN queue' : \/ queue'[k] = Stray
                                 \/ \E j \in DOMAIN queue : queue'[k] = queue[j]
    BY <1>1, <2>1, Appending
  <2>3. ~(Stray > Last)
    BY Numbers DEF Stray
  <2>4. \A k \in DOMAIN queue' : queue'[k] > Last => queue'[k] \in inherited'
    BY <1>1, <2>1, <2>2, <2>3 DEF EchoesAreOrdinary
  <2> QED BY <1>1, <2>1, <2>4 DEF EchoesAreOrdinary
<1>13. CASE UNCHANGED vars
  BY <1>13, FewerEchoes DEF vars, history
<1> QED
  BY <1>4, <1>5, <1>6, <1>7, <1>8, <1>9, <1>10, <1>11, <1>12, <1>13 DEF Next, Host, Network

\* The inductive invariant behind OnlyOddDatagramsAbort.
LEMMA Ordinary == Spec => []OrdinaryInv
<1>1. Init => OrdinaryInv
  <2> SUFFICES ASSUME Init PROVE OrdinaryInv
    OBVIOUS
  <2>1. queue = <<>> /\ air = inherited /\ seq = 0
    BY DEF Init
  <2>2. EchoesAreOrdinary
    BY <2>1 DEF EchoesAreOrdinary, Excused
  <2> QED BY <2>2, CountInit, SentInit DEF OrdinaryInv
<1>2. OrdinaryInv /\ [Next]_vars => OrdinaryInv'
  BY CountNext, SentNext, OrdinaryNext DEF OrdinaryInv
<1> QED BY <1>1, <1>2, PTL DEF Spec

-----------------------------------------------------------------------------
\* Whatever the network does, every variable keeps its type, and no counter
\* of fpga_rtt_test exceeds the packets asked for.
THEOREM TypeCorrect == Spec => []TypeOK
<1>1. CountInv => TypeOK
  BY DEF CountInv
<1> QED BY <1>1, Counted, PTL

\* Late and doubled echoes never give a round trip time, and a saved row counts what
\* the samples hold (main.c saves rtt_result as fpga_rtt_test leaves it).
THEOREM SamplesOwned == Spec => []SamplesAreOwn
<1>1. CountInv => SamplesAreOwn
  <2> SUFFICES ASSUME CountInv PROVE SamplesAreOwn
    OBVIOUS
  <2>1. ASSUME row # <<>> PROVE row[1] = row[2] + row[3] /\ row[2] = Len(samples)
    <3>1. row = <<PacketCount, received, lost>> /\ seq = Last + 1
      BY <2>1 DEF CountInv, RowIsLast
    <3>2. received + lost = PacketCount
      BY <3>1, Numbers DEF CountInv, CountersAgree
    <3> QED BY <3>1, <3>2 DEF CountInv, SamplesInOrder
  <2> QED BY <2>1 DEF CountInv, SamplesInOrder, SamplesAreOwn
<1> QED BY <1>1, Counted, PTL

\* Exit code 0 comes with the row and with loopback off, exit code 1 without a row.
THEOREM KeepsPromise == Spec => []EndsAsPromised
<1>1. CountInv => EndsAsPromised
  <2> SUFFICES ASSUME CountInv, pc = "exit"
               PROVE  [code |-> IF exit = "ok" THEN 0 ELSE 1, loopback |-> loopback,
                       rows |-> IF row = <<>> THEN {} ELSE {"rtt"}] \in Promise!RttOutcomes
    BY DEF EndsAsPromised
  <2>1. exit \in {"ok", "error"} /\ loopback \in BOOLEAN
        /\ (exit = "ok" <=> row # <<>>) /\ (row # <<>> => ~loopback)
    BY DEF CountInv, TypeOK, RowIsLast
  <2>2. CASE exit = "ok"
    <3>1. loopback = FALSE /\ row # <<>>
      BY <2>1, <2>2
    <3> QED BY <2>2, <3>1 DEF Promise!RttOutcomes
  <2>3. CASE exit = "error"
    <3>1. row = <<>>
      BY <2>1, <2>3
    <3> QED BY <2>1, <2>3, <3>1 DEF Promise!RttOutcomes
  <2> QED BY <2>1, <2>2, <2>3
<1> QED BY <1>1, Counted, PTL

\* For any number of packets and of leftover echoes: a row saved although an old echo was
\* taken for a packet's own, and that own echo did come back in time, is only
\* possible if the last packet was deceived as well.
THEOREM DeceptionShows == Spec => []DeceptionIsExposed
<1>1. TrapInv => DeceptionIsExposed
  BY DEF TrapInv, CountInv, RowIsLast, DeceptionIsTrapped, DeceptionIsExposed
<1> QED BY <1>1, Trapped, PTL

\* However many packets are lost, a run without a late, doubled or stray datagram and
\* without leftover echoes never meets a datagram it refuses.
THEOREM LossNeverAborts == Spec => OnlyOddDatagramsAbort
<1>1. OrdinaryInv /\ [Next]_vars =>
        [EchoIsNotMine =>
           odd > 0 \/ Head(queue) \in inherited \/ OldEcho(Head(queue)) \in inherited]_vars
  <2> SUFFICES ASSUME OrdinaryInv, EchoIsNotMine, ~(odd > 0), Head(queue) \notin inherited
               PROVE  OldEcho(Head(queue)) \in inherited
    OBVIOUS
  <2>1. /\ odd = 0 /\ queue \in Seq(Echoes \cup {Stray}) /\ seq \in Nat
        /\ EchoesAreOrdinary /\ EchoesWereSent
    BY Numbers DEF OrdinaryInv, CountInv, TypeOK
  <2>2. queue # <<>> /\ Head(queue) \notin {seq, OldEcho(seq)}
    BY DEF EchoIsNotMine, Passes
  <2>3. Head(queue) = queue[1] /\ 1 \in DOMAIN queue /\ queue[1] \in Echoes \cup {Stray}
    BY <2>1, <2>2, Moving
  <2>4. Head(queue) \in 0..Last /\ Excused(Head(queue)) /\ WasSent(Head(queue))
    BY <2>1, <2>3, Numbers DEF EchoesAreOrdinary, EchoesWereSent, Echoes, Stray
  <2>5. Head(queue) \in 0..(seq - 1)
    BY <2>1, <2>2, <2>4 DEF WasSent
  <2> QED BY <2>4, <2>5 DEF Excused
<1> QED BY <1>1, Ordinary, PTL DEF Spec, OnlyOddDatagramsAbort
=============================================================================
