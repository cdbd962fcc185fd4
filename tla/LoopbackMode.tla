---------------------------- MODULE LoopbackMode ----------------------------
(***************************************************************************)
(* fpga_loopback_mode.c on top of query_fpga_stats (fpga_stats.c) and the  *)
(* fire-and-forget commands of fpga_ctrl.c.  The FPGA's "loopback" command *)
(* TOGGLES the mode, so a call first asks for the status ("regstats"),     *)
(* toggles only if the answer is not the mode it wants, sleeps 500 ms, and *)
(* asks again.  Requests and answers are UDP datagrams: any of them may be *)
(* lost or overtaken.  Each call is made by one process (a client); two    *)
(* of them can be at work on the same FPGA, and because the status socket  *)
(* is bound with SO_REUSEADDR to the port the FPGA answers to, an answer   *)
(* may reach the other one.                                                *)
(*                                                                         *)
(* The network is lossy and unordered.  If it is prompt, a datagram is     *)
(* delivered or lost before the waits of the process that sent it or asked *)
(* for it end (3000 ms for a query, 500 ms after the toggle).  If it is    *)
(* not, a datagram may outlive its wait: an answer can be read by a later  *)
(* query, of any call, and a toggle can be obeyed after its call returned. *)
(***************************************************************************)
EXTENDS FiniteSets

CONSTANTS
  Clients,   \* processes that may run a call on the FPGA
  Prompt     \* no datagram outlives the wait of its sender

ASSUME PromptAssumption == Prompt \in BOOLEAN

VARIABLES
  pc,         \* where each client is in its call
  want,       \* the mode its call asks for (enable: TRUE, disable: FALSE)
  result,     \* what its last call returned
  got,        \* the first datagram queued on its status socket
  net,        \* datagrams in flight
  loopback,   \* the FPGA's loopback bit
  alone       \* history: nobody else was active, and no datagram of an earlier
              \* wait under way, since this call began

vars == <<pc, want, result, got, net, loopback, alone>>

None == "none"
Junk == "junk"              \* a datagram that is no status frame
Status == {"on", "off"}     \* a status frame, by its loopback bit
StatusOf(bit) == IF bit THEN "on" ELSE "off"

\* "ask": about to query; "bound": socket open, nothing sent yet; "await":
\* query sent.  1 and 2 are the two queries of a call.
PCs == {"idle", "ask1", "bound1", "await1", "toggle", "sleep",
        "ask2", "bound2", "await2"}

\* The two commands, and the answers to "regstats" of each client.
Message == [kind : {"regstats", "loopback"} \cup Status, from : Clients]

TypeOK ==
  /\ pc \in [Clients -> PCs]
  /\ want \in [Clients -> BOOLEAN]
  /\ result \in [Clients -> {"none", "ok", "error"}]
  /\ got \in [Clients -> {None, Junk} \cup Status]
  /\ net \subseteq Message
  /\ loopback \in BOOLEAN
  /\ alone \in [Clients -> BOOLEAN]

Init ==
  /\ pc = [c \in Clients |-> "idle"]
  /\ want \in [Clients -> BOOLEAN]
  /\ result = [c \in Clients |-> "none"]
  /\ got = [c \in Clients |-> None]
  /\ net = {}
  /\ loopback \in BOOLEAN
  /\ alone = [c \in Clients |-> FALSE]

-----------------------------------------------------------------------------
(* The process.                                                            *)

Idle(c) == pc[c] = "idle"
Awaiting(c) == pc[c] \in {"await1", "await2"}
Bound(c) == pc[c] \in {"bound1", "bound2"} \/ Awaiting(c)   \* socket is open
InFlight(c) == {m \in net : m.from = c}         \* its requests, their answers

\* A wait of client c is over: from now on what it leaves in flight, if the
\* network is not prompt, disturbs every call that is running.
WaitIsOver(c) ==
  \/ InFlight(c) = {} /\ UNCHANGED alone
  \/ /\ ~Prompt
     /\ InFlight(c) # {}
     /\ alone' = [d \in Clients |-> FALSE]

\* A process is started and asks for mode w.
StartCall(c, w) ==
  /\ Idle(c)
  /\ Prompt => InFlight(c) = {}
  /\ pc' = [pc EXCEPT ![c] = "ask1"]
  /\ want' = [want EXCEPT ![c] = w]
  /\ result' = [result EXCEPT ![c] = "none"]
  /\ alone' = [d \in Clients |->
                 d = c /\ net = {} /\ \A e \in Clients \ {c} : Idle(e)]
  /\ UNCHANGED <<got, net, loopback>>

\* Mutant: the socket, and what is queued on it, outlives the call.
MutReturn(c, r) ==
  /\ pc' = [pc EXCEPT ![c] = "idle"]
  /\ result' = [result EXCEPT ![c] = r]
  /\ UNCHANGED got

\* The call returns; close() throws away what else is queued on its socket.
Return(c, r) ==
  /\ pc' = [pc EXCEPT ![c] = "idle"]
  /\ result' = [result EXCEPT ![c] = r]
  /\ got' = [got EXCEPT ![c] = None]

\* make_rx_socket: from here on datagrams to the port are queued.
BindSocket(c) ==
  /\ \/ pc[c] = "ask1" /\ pc' = [pc EXCEPT ![c] = "bound1"]
     \/ pc[c] = "ask2" /\ pc' = [pc EXCEPT ![c] = "bound2"]
  /\ UNCHANGED <<want, result, got, net, loopback, alone>>

SendRegstats(c) ==
  /\ \/ pc[c] = "bound1" /\ pc' = [pc EXCEPT ![c] = "await1"]
     \/ pc[c] = "bound2" /\ pc' = [pc EXCEPT ![c] = "await2"]
  /\ net' = net \cup {[kind |-> "regstats", from |-> c]}
  /\ UNCHANGED <<want, result, got, loopback, alone>>

\* socket(), bind() or sendto() fails.
LocalFailure(c) ==
  /\ pc[c] \in {"ask1", "bound1", "toggle", "ask2", "bound2"}
  /\ Return(c, "error")
  /\ UNCHANGED <<want, net, loopback, alone>>

\* Mutant: an expired receive is tried again.
MutTimeout(c) ==
  /\ Awaiting(c)
  /\ got[c] = None
  /\ UNCHANGED vars

Timeout(c) ==
  /\ Awaiting(c)
  /\ got[c] = None
  /\ WaitIsOver(c)
  /\ Return(c, "error")
  /\ UNCHANGED <<want, net, loopback>>

\* Mutant: the statistics stay zeroed, hence "off", when the frame is refused.
MutBadFrame(c) ==
  /\ pc[c] = "await1"
  /\ got[c] = Junk
  /\ pc' = [pc EXCEPT ![c] = IF want[c] THEN "toggle" ELSE "idle"]
  /\ got' = [got EXCEPT ![c] = None]
  /\ UNCHANGED <<want, result, net, loopback, alone>>

\* recvfrom() returns a datagram that parse_fpga_status_frame refuses.
BadFrame(c) ==
  /\ Awaiting(c)
  /\ got[c] = Junk
  /\ Return(c, "error")
  /\ UNCHANGED <<want, net, loopback, alone>>

AlreadyThere(c) ==
  /\ pc[c] = "await1"
  /\ got[c] \in Status
  /\ got[c] = StatusOf(want[c])
  /\ Return(c, "ok")
  /\ UNCHANGED <<want, net, loopback, alone>>

\* Mutant: the toggle is sent whatever the first answer says.
MutMustToggle(c) ==
  /\ pc[c] = "await1"
  /\ got[c] \in Status
  /\ pc' = [pc EXCEPT ![c] = "toggle"]
  /\ got' = [got EXCEPT ![c] = None]
  /\ UNCHANGED <<want, result, net, loopback, alone>>

MustToggle(c) ==
  /\ pc[c] = "await1"
  /\ got[c] \in Status
  /\ got[c] # StatusOf(want[c])
  /\ pc' = [pc EXCEPT ![c] = "toggle"]
  /\ got' = [got EXCEPT ![c] = None]
  /\ UNCHANGED <<want, result, net, loopback, alone>>

\* The toggle, not acknowledged by the FPGA.
SendToggle(c) ==
  /\ pc[c] = "toggle"
  /\ net' = net \cup {[kind |-> "loopback", from |-> c]}
  /\ pc' = [pc EXCEPT ![c] = "sleep"]
  /\ UNCHANGED <<want, result, got, loopback, alone>>

\* usleep(FPGA_LOOPBACK_WAIT_US) is over.
WakeUp(c) ==
  /\ pc[c] = "sleep"
  /\ WaitIsOver(c)
  /\ pc' = [pc EXCEPT ![c] = "ask2"]
  /\ UNCHANGED <<want, result, got, net, loopback>>

\* Mutant: the second answer is awaited but not looked at.
MutConfirm(c) ==
  /\ pc[c] = "await2"
  /\ got[c] \in Status
  /\ Return(c, "ok")
  /\ UNCHANGED <<want, net, loopback, alone>>

\* The second answer decides the call.
Confirm(c) ==
  /\ pc[c] = "await2"
  /\ got[c] \in Status
  /\ Return(c, IF got[c] = StatusOf(want[c]) THEN "ok" ELSE "error")
  /\ UNCHANGED <<want, net, loopback, alone>>

Step(c) ==
  \/ BindSocket(c) \/ SendRegstats(c) \/ LocalFailure(c) \/ Timeout(c) \/ BadFrame(c)
  \/ AlreadyThere(c) \/ MustToggle(c) \/ SendToggle(c) \/ WakeUp(c)
  \/ Confirm(c)

-----------------------------------------------------------------------------
(* The FPGA and the network: not in the repository, known by their use.    *)

Lose(m) ==
  /\ net' = net \ {m}
  /\ UNCHANGED <<pc, want, result, got, loopback, alone>>

\* The FPGA answers with the mode it is in.
FpgaAnswers(m) ==
  /\ m.kind = "regstats"
  /\ net' = (net \ {m})
              \cup {[kind |-> StatusOf(loopback), from |-> m.from]}
  /\ UNCHANGED <<pc, want, result, got, loopback, alone>>

FpgaToggles(m) ==
  /\ m.kind = "loopback"
  /\ net' = net \ {m}
  /\ loopback' = ~loopback
  /\ UNCHANGED <<pc, want, result, got, alone>>

\* An answer reaches the open socket of any client; recvfrom takes the first.
Deliver(m, c) ==
  /\ m.kind \in Status
  /\ Bound(c)
  /\ net' = net \ {m}
  /\ got' = IF got[c] = None THEN [got EXCEPT ![c] = m.kind] ELSE got
  /\ UNCHANGED <<pc, want, result, loopback, alone>>

\* Something else is sent to the port: an echo of test data, another tool.
StrayDatagram(c) ==
  /\ Bound(c)
  /\ got[c] = None
  /\ got' = [got EXCEPT ![c] = Junk]
  /\ UNCHANGED <<pc, want, result, net, loopback, alone>>

NetStep(m) ==
  Lose(m) \/ FpgaAnswers(m) \/ FpgaToggles(m) \/ \E c \in Clients : Deliver(m, c)

-----------------------------------------------------------------------------
Next ==
  \/ \E c \in Clients, w \in BOOLEAN : StartCall(c, w)
  \/ \E c \in Clients : Step(c) \/ StrayDatagram(c)
  \/ \E m \in net : NetStep(m)

Spec == Init /\ [][Next]_vars

\* A client never stops in the middle of a call, the network holds no datagram
\* for ever.  Nobody is bound to make a call.
Fairness ==
  \A c \in Clients :
    /\ WF_vars(Step(c))
    /\ WF_vars(\E m \in InFlight(c) : NetStep(m))

FairSpec == Spec /\ Fairness

-----------------------------------------------------------------------------
(* Properties.                                                             *)

Returns(c, r) == ~Idle(c) /\ pc'[c] = "idle" /\ result'[c] = r

\* A call that returns 0 leaves the FPGA in the mode it asked for, whatever was
\* lost or overtaken, as long as no other client was active meanwhile
\* (fpga_enable_loopback_if_needed, fpga_disable_loopback_if_needed).
SuccessMeansMode ==
  [][\A c \in Clients :
       Returns(c, "ok") /\ alone[c] => loopback' = want[c]]_vars

\* A client that works alone toggles only an FPGA that is not yet in the mode
\* it wants, and never twice: the FPGA moves towards what is asked for, so a
\* failed call leaves the old mode or the wanted one with nothing in flight.
TogglesTowardsGoal ==
  [][\A c \in Clients :
       ~Idle(c) /\ alone[c] /\ loopback' # loopback => loopback' = want[c]]_vars

\* Stated in fpga_loopback_mode.c of the toggle in the disabling call: it is
\* sent only if loopback is currently enabled.
ToggleOnlyIfEnabled ==
  [][\A c \in Clients :
       SendToggle(c) /\ ~want[c] => loopback]_vars

\* Every call returns, whatever the network does: all its waits are bounded.
CallReturns == \A c \in Clients : ~Idle(c) ~> Idle(c)

\* The abstract switch, for a run with one client.
TheClient == CHOOSE c \in Clients : TRUE

Switch == INSTANCE LoopbackSwitch WITH
  mode <- loopback,
  busy <- ~Idle(TheClient),
  asked <- want[TheClient],
  outcome <- result[TheClient]

\* fpga_loopback_mode.c, used by one process at a time, implements the switch:
\* the FPGA moves only towards what a running call asks for, and a call that
\* returns 0 ends in that mode.
ImplementsSwitch == Switch!SwitchSpec

-----------------------------------------------------------------------------
(* The inductive invariant behind SuccessMeansMode.  Of a client that works *)
(* alone it says: every datagram is its own, at most the one its place in   *)
(* the call allows, and every answer it may read shows the present mode.    *)

AloneMeansAlone ==
  \A c \in Clients : alone[c] /\ ~Idle(c) =>
    /\ \A d \in Clients \ {c} : Idle(d)
    /\ \A m \in net : m.from = c

SocketClosedIsEmpty == \A c \in Clients : ~Bound(c) => got[c] = None

AnswersAreFresh ==
  \A c \in Clients : alone[c] /\ Bound(c) =>
    /\ ~Awaiting(c) => got[c] \notin Status
    /\ got[c] \in Status => got[c] = StatusOf(loopback) /\ net = {}
    /\ \A m \in net : m.kind \in Status => m.kind = StatusOf(loopback)
    /\ \A m, n \in net : m = n
    /\ \A m \in net : m.kind # "loopback"

TogglingIsNeeded ==
  \A c \in Clients : alone[c] =>
    /\ pc[c] \in {"ask1", "bound1", "toggle", "ask2", "bound2"} => net = {}
    /\ pc[c] = "toggle" => loopback # want[c]
    /\ pc[c] = "sleep" =>
         /\ \A m \in net : m.kind = "loopback"
         /\ net # {} => loopback # want[c]

Inv == TypeOK /\ AloneMeansAlone /\ SocketClosedIsEmpty
       /\ AnswersAreFresh /\ TogglingIsNeeded
=============================================================================
