------------------------------- MODULE TxTest -------------------------------
(***************************************************************************)
(* "etherbench fpga-tx-test" (main.c, fpga_tx_test.c, fpga_ctrl.c), run    *)
(* again and again on one FPGA.  A run takes the FPGA out of loopback,     *)
(* sets packets per trigger, payload and content mode with three commands  *)
(* nobody acknowledges, checks the result with one status query, triggers, *)
(* counts what arrives, and sends the content command once more.  Content  *)
(* commands toggle a bit that survives the run, so a run inherits what the *)
(* one before it left behind.                                              *)
(***************************************************************************)
EXTENDS Integers

CONSTANTS
  Counts,        \* packet counts that may be asked for
  Payloads,      \* payload sizes that may be asked for
  QuietTime,     \* FPGA_TX_QUIET_TIME_MS, in polls
  FaultBudget,   \* bound: lost or doubled datagrams, failed receives, over all runs
  MaxRuns        \* bound: runs

ASSUME TxAssumption ==
  /\ Counts \subseteq Nat \ {0}
  /\ QuietTime \in Nat \ {0}
  /\ FaultBudget \in Nat /\ MaxRuns \in Nat

Promise == INSTANCE TestOutcomes

Call == INSTANCE LoopbackSwitch WITH
  mode <- FALSE, busy <- FALSE, asked <- FALSE, outcome <- "none"

Contents == Promise!Contents     \* what set_content_mode knows

VARIABLES
  pc,         \* the step of main.c; "idle" between two runs
  req,        \* what this run asks for
  fpga,       \* the FPGA's settings
  air, queue, \* test packets on the wire, and in the socket
  received,   \* received by receive_until_done
  quiet,      \* quiet_elapsed_ms, in polls
  row,        \* the last row saved
  exit,       \* how the last run ended: "none", "ok" or "error"
  runs, faults,       \* how much of the bounds is used up
  gone,       \* history: packets lost on the wire, or never triggered
  surplus,    \* history: packets this run may count that are not its own
  early,      \* history: it stopped listening with packets on the wire or queued
  unrestored, \* history: its last content command was lost
  start,      \* history: the content bits it found
  trouble     \* history: something failed in it, or a command was lost

flow == <<air, queue, received, quiet, gone, surplus, early>>
ending == <<exit, trouble>>
marks == <<unrestored, start>>
vars == <<pc, req, fpga, flow, row, ending, runs, faults, marks>>

\* The two content bits of the FPGA.
Bits(f) == [bit \in Contents |-> IF bit = "random" THEN f.random ELSE f.constant]

Requests == [count : Counts, payload : Payloads, content : Contents]
Settings == [loopback : BOOLEAN, pktn : Counts, mtu : Payloads,
             random : BOOLEAN, constant : BOOLEAN]

TypeOK ==
  /\ pc \in {"idle", "loopback", "pktn", "mtu", "content", "verify", "before",
             "trigger", "receive", "extra", "after", "restore", "save"}
  /\ req \in Requests
  /\ fpga \in Settings
  /\ {air, queue, received, gone, surplus} \subseteq Nat
  /\ quiet \in 0..QuietTime
  /\ row \in [requested : Counts \cup {0}, received : Nat, lost : Nat]
  /\ exit \in {"none", "ok", "error"}
  /\ runs \in 0..MaxRuns /\ faults \in 0..FaultBudget
  /\ {early, unrestored, trouble} \subseteq BOOLEAN
  /\ start \in [Contents -> BOOLEAN]

Init ==
  /\ pc = "idle"
  /\ req \in Requests
  /\ fpga \in Settings
  /\ air = 0 /\ queue = 0 /\ received = 0 /\ quiet = 0
  /\ row = [requested |-> 0, received |-> 0, lost |-> 0]
  /\ exit = "none"
  /\ runs = 0 /\ faults = 0
  /\ gone = 0 /\ surplus = 0
  /\ early = FALSE /\ unrestored = FALSE /\ trouble = FALSE
  /\ start = Bits(fpga)

-----------------------------------------------------------------------------
(* fpga_ctrl.c, and the FPGA's obedience to it.                            *)

\* "random" and "constant" toggle their bit.
Toggled(bit) == [fpga EXCEPT ![bit] = ~@]

\* Mutant: the constant bit hides the random one.
MutContentOf(f) ==
  IF f.constant THEN "constant" ELSE IF f.random THEN "random" ELSE "sequential"

\* mode_from_stats: the random bit hides the constant one.
ContentOf(f) ==
  IF f.random THEN "random" ELSE IF f.constant THEN "constant" ELSE "sequential"

Fault == faults < FaultBudget /\ faults' = faults + 1

Quit ==
  /\ pc' = "idle"
  /\ exit' = "error"
  /\ trouble' = TRUE

\* A command goes out and the run goes on to the next step; it reaches the FPGA, is
\* lost on the way (a toggle that comes twice does the same), or cannot be sent.
Command(obeyed, next) ==
  \/ fpga' = obeyed /\ pc' = next /\ UNCHANGED <<ending, faults>>
  \/ Fault /\ pc' = next /\ trouble' = TRUE /\ UNCHANGED <<fpga, exit>>
  \/ Quit /\ UNCHANGED <<fpga, faults>>

-----------------------------------------------------------------------------
(* main.c: the steps of one run.                                           *)

\* A process is started.  Packets still on the wire are not its own.
StartRun(r) ==
  /\ pc = "idle"
  /\ runs < MaxRuns
  /\ runs' = runs + 1
  /\ req' = r
  /\ pc' = "loopback"
  /\ exit' = "none"
  /\ received' = 0 /\ quiet' = 0 /\ gone' = 0
  /\ surplus' = air
  /\ early' = FALSE /\ unrestored' = FALSE /\ trouble' = FALSE
  /\ start' = Bits(fpga)
  /\ UNCHANGED <<fpga, air, queue, row, faults>>

LeaveLoopback ==
  /\ pc = "loopback"
  /\ \E o \in Call!CallOutcomes(fpga.loopback, FALSE) :
       /\ fpga' = [fpga EXCEPT !.loopback = o[2]]
       /\ \/ o[1] = "ok" /\ pc' = "pktn" /\ UNCHANGED ending
          \/ o[1] = "error" /\ Quit
  /\ UNCHANGED <<req, flow, row, runs, faults, marks>>

\* fpga_ctrl_set_packet_count, fpga_ctrl_set_udp_mtu, fpga_ctrl_set_content_mode
Configure ==
  /\ \/ pc = "pktn" /\ Command([fpga EXCEPT !.pktn = req.count], "mtu")
     \/ pc = "mtu" /\ Command([fpga EXCEPT !.mtu = req.payload], "content")
     \/ pc = "content" /\ Command(Toggled(req.content), "verify")
  /\ UNCHANGED <<req, flow, row, runs, marks>>

AsAsked ==
  /\ fpga.pktn = req.count
  /\ fpga.mtu = req.payload
  /\ ContentOf(fpga) = req.content

\* Mutant: the payload size is not compared.
MutVerify ==
  /\ pc = "verify"
  /\ LET same == fpga.pktn = req.count /\ ContentOf(fpga) = req.content
     IN \/ same /\ pc' = "before" /\ UNCHANGED ending
        \/ ~same /\ pc' = "idle" /\ exit' = "error" /\ UNCHANGED trouble
  /\ UNCHANGED <<req, fpga, flow, row, runs, faults, marks>>

\* verify_fpga_tx_config: any difference, or a failing query, ends the run;
\* what was set stays set.
Verify ==
  /\ pc = "verify"
  /\ \/ AsAsked /\ pc' = "before" /\ UNCHANGED ending
     \/ ~AsAsked /\ pc' = "idle" /\ exit' = "error" /\ UNCHANGED trouble
     \/ Quit
  /\ UNCHANGED <<req, fpga, flow, row, runs, faults, marks>>

\* The FPGA and host snapshots around the test: read, logged, or failed.
Snapshots ==
  /\ \/ pc = "before" /\ pc' = "trigger" /\ UNCHANGED ending
     \/ pc = "after" /\ pc' = "restore" /\ UNCHANGED ending
     \/ pc \in {"before", "after"} /\ Quit
  /\ UNCHANGED <<req, fpga, flow, row, runs, faults, marks>>

\* fpga_tx_test_run: the socket is open, the trigger is sent, or lost with all
\* the packets it would have started.
Trigger ==
  /\ pc = "trigger"
  /\ \/ air' = air + fpga.pktn /\ pc' = "receive" /\ UNCHANGED <<gone, ending, faults>>
     \/ Fault /\ pc' = "receive" /\ gone' = fpga.pktn /\ trouble' = TRUE
        /\ UNCHANGED <<air, exit>>
     \/ Quit /\ UNCHANGED <<air, gone, faults>>
  /\ UNCHANGED <<req, fpga, queue, received, quiet, surplus, early, row,
                 runs, marks>>

\* receive_until_done: the loop that counts.
ReceivePacket ==
  /\ pc = "receive"
  /\ received < req.count
  /\ queue > 0
  /\ queue' = queue - 1
  /\ received' = received + 1
  /\ quiet' = 0
  /\ UNCHANGED <<pc, req, fpga, air, row, ending, runs, faults, gone, surplus,
                 early, marks>>

\* Mutant: quiet time is only looked at before the first packet.
MutReceivePoll ==
  /\ pc = "receive"
  /\ received < req.count
  /\ queue = 0
  /\ quiet' = IF quiet < QuietTime THEN quiet + 1 ELSE quiet
  /\ UNCHANGED <<pc, req, fpga, air, queue, received, row, ending, runs, faults,
                 gone, surplus, early, marks>>

\* Nothing queued: quiet time ends the loop, but only after a first packet.
ReceivePoll ==
  /\ pc = "receive"
  /\ received < req.count
  /\ queue = 0
  /\ quiet' = IF quiet < QuietTime THEN quiet + 1 ELSE quiet
  /\ pc' = IF received > 0 /\ quiet' >= QuietTime THEN "extra" ELSE pc
  /\ UNCHANGED <<req, fpga, air, queue, received, row, ending, runs, faults, gone,
                 surplus, early, marks>>

AllReceived ==
  /\ pc = "receive"
  /\ received >= req.count
  /\ pc' = "extra"
  /\ UNCHANGED <<req, fpga, flow, row, ending, runs, faults, marks>>

\* recvfrom fails for another reason: the loop ends as if all had been received; the
\* last drain does too, and what is queued goes with the socket.
ReceiveFails ==
  /\ \/ /\ pc = "receive" /\ received < req.count
        /\ pc' = "extra"
        /\ UNCHANGED <<queue, early>>
     \/ /\ pc = "extra"
        /\ pc' = "after"
        /\ queue' = 0 /\ early' = (queue > 0 \/ air > 0)
  /\ Fault
  /\ UNCHANGED <<req, fpga, air, received, quiet, row, ending, runs, gone, surplus,
                 marks>>

\* Mutant: the receive that finds nothing counts as a packet.
MutExtraDrain ==
  /\ pc = "extra"
  /\ received' = received + 1
  /\ IF queue > 0
       THEN queue' = queue - 1 /\ UNCHANGED <<pc, early>>
       ELSE pc' = "after" /\ early' = (air > 0) /\ UNCHANGED queue
  /\ UNCHANGED <<req, fpga, air, quiet, row, ending, runs, faults, gone, surplus,
                 marks>>

\* The last drain, until nothing is queued; then the socket is closed.
ExtraDrain ==
  /\ pc = "extra"
  /\ IF queue > 0
       THEN /\ queue' = queue - 1 /\ received' = received + 1
            /\ UNCHANGED <<pc, early>>
       ELSE /\ pc' = "after" /\ early' = (air > 0)
            /\ UNCHANGED <<queue, received>>
  /\ UNCHANGED <<req, fpga, air, quiet, row, ending, runs, faults, gone, surplus,
                 marks>>

\* Mutant: the content command is not sent again.
MutRestore ==
  /\ pc = "restore"
  /\ pc' = "save"
  /\ UNCHANGED <<req, fpga, flow, row, ending, runs, faults, marks>>

\* fpga_ctrl_set_content_mode, the second time.
Restore ==
  /\ pc = "restore"
  /\ Command(Toggled(req.content), "save")
  /\ unrestored' = (pc' = "save" /\ fpga' = fpga)
  /\ UNCHANGED <<req, flow, row, runs, start>>

\* Mutant: lost_packets is left as the counters give it, even below zero.
MutSave ==
  /\ pc = "save"
  /\ row' = [requested |-> req.count, received |-> received,
             lost |-> req.count - received]
  /\ pc' = "idle" /\ exit' = "ok"
  /\ UNCHANGED <<req, fpga, flow, trouble, runs, faults, marks>>

\* The result of fpga_tx_test_run goes to the CSV.
Save ==
  /\ pc = "save"
  /\ \/ /\ row' = [requested |-> req.count, received |-> received,
                   lost |-> IF received <= req.count THEN req.count - received ELSE 0]
        /\ pc' = "idle" /\ exit' = "ok" /\ UNCHANGED trouble
     \/ Quit /\ UNCHANGED row
  /\ UNCHANGED <<req, fpga, flow, runs, faults, marks>>

Host ==
  \/ LeaveLoopback \/ Configure \/ Verify \/ Snapshots \/ Trigger \/ ReceivePacket
  \/ ReceivePoll \/ AllReceived \/ ExtraDrain \/ Restore \/ Save

-----------------------------------------------------------------------------
(* The wire, external.                                                     *)

\* The socket of fpga_tx_test_run is open while it counts.
Arriving == IF pc \in {"receive", "extra"} THEN queue' = queue + 1 ELSE UNCHANGED queue

PacketArrives ==
  /\ air > 0
  /\ air' = air - 1
  /\ Arriving
  /\ UNCHANGED <<pc, req, fpga, received, quiet, row, ending, runs, faults, gone,
                 surplus, early, marks>>

PacketLost ==
  /\ air > 0
  /\ Fault
  /\ air' = air - 1
  /\ gone' = gone + 1
  /\ UNCHANGED <<pc, req, fpga, queue, received, quiet, row, ending, runs, surplus,
                 early, marks>>

\* A packet comes twice, or another datagram comes to the port.
PacketDoubled ==
  /\ air > 0
  /\ Fault
  /\ Arriving
  /\ surplus' = surplus + 1
  /\ UNCHANGED <<pc, req, fpga, air, received, quiet, row, ending, runs, gone,
                 early, marks>>

Wire == PacketArrives \/ PacketLost

Next == (\E r \in Requests : StartRun(r)) \/ Host \/ ReceiveFails \/ Wire \/ PacketDoubled

Spec == Init /\ [][Next]_vars

\* A process that was started runs on; packets do not stay on the wire.
FairSpec == Spec /\ WF_vars(Host) /\ WF_vars(Wire)

-----------------------------------------------------------------------------
(* Properties.                                                             *)

\* Whatever was lost and whatever earlier runs left behind, the FPGA is only
\* triggered when it is out of loopback and set to what the run asks for
\* (verify_fpga_tx_config after unacknowledged commands).
TriggeredAsAsked ==
  [][pc = "trigger" /\ air' > air =>
       /\ ~fpga.loopback
       /\ fpga.pktn = req.count /\ fpga.mtu = req.payload
       /\ ContentOf(fpga) = req.content]_vars

\* lost_packets of a saved row hides a loss only behind a packet too many, and
\* invents one only if the test stopped listening too early.
RowReportsLosses ==
  pc = "idle" /\ exit = "ok" =>
    /\ gone <= row.lost + surplus
    /\ ~early => row.lost <= gone

\* A run that succeeds leaves the content bit it used off again, unless its
\* last command was lost: the toggles of one run cancel out.
SuccessRestoresContent ==
  pc = "idle" /\ exit = "ok" /\ ~unrestored => ~fpga[req.content]

\* What a run does to the next one: its exit code and the content bits it leaves
\* are settled by those it found; if a command was lost or a step failed, only
\* the bit of its own mode may be left either way (main.c toggles it before the
\* test and after it, never on an error path).
EndsAsPromised ==
  [][pc # "idle" /\ pc' = "idle" =>
       LET end == <<IF exit' = "ok" THEN 0 ELSE 1, Bits(fpga')>>
       IN IF trouble' THEN end \in Promise!TroubledTx(start, req.content)
                      ELSE end = Promise!UntroubledTx(start, req.content)]_vars

\* Once a packet has been received the test ends, whatever is lost after it.
EndsAfterFirstPacket == pc = "receive" /\ received > 0 ~> pc # "receive"

\* README: the test reports packets received and lost; so every run ends.
RunEnds == pc # "idle" ~> pc = "idle"
=============================================================================
