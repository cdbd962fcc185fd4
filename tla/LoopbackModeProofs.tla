------------------------- MODULE LoopbackModeProofs -------------------------
(* For any set of clients: the inductive invariant of LoopbackMode, and    *)
(* what it gives a client that works alone.                                *)
EXTENDS LoopbackMode, TLAPS

USE DEF Idle, Bound, Awaiting, InFlight, None, Junk, Status, StatusOf, PCs

\* The initial states have the types.
LEMMA TypeInit == Init => TypeOK
  BY DEF Init, TypeOK

\* Every step of a client or of the network preserves the types.
LEMMA TypeNext == TypeOK /\ [Next]_vars => TypeOK'
<1> SUFFICES ASSUME TypeOK, [Next]_vars PROVE TypeOK'
  OBVIOUS
<1> USE DEF TypeOK, Message
<1>1. ASSUME NEW c \in Clients, NEW w \in BOOLEAN, StartCall(c, w) PROVE TypeOK'
  BY <1>1 DEF StartCall
<1>2. ASSUME NEW c \in Clients, Step(c) PROVE TypeOK'
  <2>1. CASE BindSocket(c) BY <2>1 DEF BindSocket
  <2>2. CASE SendRegstats(c) BY <2>2 DEF SendRegstats
  <2>3. CASE LocalFailure(c) BY <2>3 DEF LocalFailure, Return
  <2>4. CASE Timeout(c) BY <2>4 DEF Timeout, WaitIsOver, Return
  <2>5. CASE BadFrame(c) BY <2>5 DEF BadFrame, Return
  <2>6. CASE AlreadyThere(c) BY <2>6 DEF AlreadyThere, Return
  <2>7. CASE MustToggle(c) BY <2>7 DEF MustToggle
  <2>8. CASE SendToggle(c) BY <2>8 DEF SendToggle
  <2>9. CASE WakeUp(c) BY <2>9 DEF WakeUp, WaitIsOver
  <2>10. CASE Confirm(c) BY <2>10 DEF Confirm, Return
  <2> QED
    BY <1>2, <2>1, <2>2, <2>3, <2>4, <2>5, <2>6, <2>7, <2>8, <2>9, <2>10 DEF Step
<1>3. ASSUME NEW c \in Clients, StrayDatagram(c) PROVE TypeOK'
  BY <1>3 DEF StrayDatagram
<1>4. ASSUME NEW m \in net, NetStep(m) PROVE TypeOK'
  <2>1. CASE Lose(m) BY <2>1 DEF Lose
  <2>2. CASE FpgaAnswers(m) BY <2>2 DEF FpgaAnswers
  <2>3. CASE FpgaToggles(m) BY <2>3 DEF FpgaToggles
  <2>4. ASSUME NEW c \in Clients, Deliver(m, c) PROVE TypeOK'
    BY <2>4 DEF Deliver
  <2> QED BY <1>4, <2>1, <2>2, <2>3, <2>4 DEF NetStep
<1>5. CASE UNCHANGED vars BY <1>5 DEF vars
<1> QED BY <1>1, <1>2, <1>3, <1>4, <1>5 DEF Next

\* The invariant holds before any call.
LEMMA InvInit == Init => Inv
  BY TypeInit DEF Init, Inv, AloneMeansAlone, SocketClosedIsEmpty,
     AnswersAreFresh, TogglingIsNeeded

\* No step breaks the invariant.
LEMMA InvNext == Inv /\ [Next]_vars => Inv'
<1> SUFFICES ASSUME Inv, [Next]_vars PROVE Inv'
  OBVIOUS
<1>t. TypeOK'
  BY TypeNext DEF Inv
<1> USE <1>t DEF Inv, TypeOK, Message, AloneMeansAlone, SocketClosedIsEmpty,
        AnswersAreFresh, TogglingIsNeeded
<1>1. ASSUME NEW c \in Clients, NEW w \in BOOLEAN, StartCall(c, w) PROVE Inv'
  <2>1. \A d \in Clients :
          alone'[d] => d = c /\ net = {} /\ \A e \in Clients \ {c} : Idle(e)
    BY <1>1 DEF StartCall
  <2>2. /\ pc' = [pc EXCEPT ![c] = "ask1"]
        /\ Idle(c) /\ UNCHANGED <<got, net, loopback>>
    BY <1>1 DEF StartCall
  <2>3. AloneMeansAlone'
    BY <2>1, <2>2
  <2>4. SocketClosedIsEmpty'
    BY <2>2
  <2>5. AnswersAreFresh' /\ TogglingIsNeeded'
    BY <2>1, <2>2
  <2> QED BY <2>3, <2>4, <2>5
<1>2. ASSUME NEW c \in Clients, Step(c) PROVE Inv'
  <2>1. CASE BindSocket(c) BY <2>1 DEF BindSocket
  <2>2. CASE SendRegstats(c) BY <2>2 DEF SendRegstats
  <2>3. CASE LocalFailure(c) BY <2>3 DEF LocalFailure, Return
  <2>4. CASE Timeout(c) BY <2>4 DEF Timeout, WaitIsOver, Return
  <2>5. CASE BadFrame(c) BY <2>5 DEF BadFrame, Return
  <2>6. CASE AlreadyThere(c) BY <2>6 DEF AlreadyThere, Return
  <2>7. CASE MustToggle(c) BY <2>7 DEF MustToggle
  <2>8. CASE SendToggle(c) BY <2>8 DEF SendToggle
  <2>9. CASE WakeUp(c) BY <2>9 DEF WakeUp, WaitIsOver
  <2>10. CASE Confirm(c) BY <2>10 DEF Confirm, Return
  <2> QED
    BY <1>2, <2>1, <2>2, <2>3, <2>4, <2>5, <2>6, <2>7, <2>8, <2>9, <2>10 DEF Step
<1>3. ASSUME NEW c \in Clients, StrayDatagram(c) PROVE Inv'
  BY <1>3 DEF StrayDatagram
<1>4. ASSUME NEW m \in net, NetStep(m) PROVE Inv'
  <2>1. CASE Lose(m) BY <2>1 DEF Lose
  <2>2. CASE FpgaAnswers(m) BY <2>2 DEF FpgaAnswers
  <2>3. CASE FpgaToggles(m) BY <2>3 DEF FpgaToggles
  <2>4. ASSUME NEW c \in Clients, Deliver(m, c) PROVE Inv'
    BY <2>4 DEF Deliver
  <2> QED BY <1>4, <2>1, <2>2, <2>3, <2>4 DEF NetStep
<1>5. CASE UNCHANGED vars BY <1>5 DEF vars
<1> QED BY <1>1, <1>2, <1>3, <1>4, <1>5 DEF Next

-----------------------------------------------------------------------------
\* The inductive invariant holds for any set of clients: what is said of a client
\* that works alone on the FPGA (fpga_loopback_mode.c, query_fpga_stats) is true.
THEOREM Invariance == Spec => []Inv
<1>1. Init => Inv BY InvInit
<1>2. Inv /\ [Next]_vars => Inv' BY InvNext
<1> QED BY <1>1, <1>2, PTL DEF Spec

\* Types are one part of the invariant.
THEOREM TypeCorrect == Spec => []TypeOK
<1>1. Inv => TypeOK BY DEF Inv
<1> QED BY <1>1, Invariance, PTL

-----------------------------------------------------------------------------
\* A call that returns 0 leaves the mode it asked for, if its client was alone and
\* no datagram of an earlier wait came in.
THEOREM SuccessIsSound == Spec => SuccessMeansMode
<1> DEFINE A == \A c \in Clients :
                  Returns(c, "ok") /\ alone[c] => loopback' = want[c]
<1>1. Inv /\ [Next]_vars => [A]_vars
  <2> SUFFICES ASSUME Inv, Next, NEW c \in Clients, Returns(c, "ok"), alone[c]
               PROVE  loopback' = want[c]
    OBVIOUS
  <2> USE DEF Inv, TypeOK, AnswersAreFresh, Returns
  <2>1. ASSUME NEW d \in Clients, NEW w \in BOOLEAN, StartCall(d, w) PROVE FALSE
    BY <2>1 DEF StartCall
  <2>2. ASSUME NEW m \in net, NetStep(m) PROVE FALSE
    BY <2>2 DEF NetStep, Lose, FpgaAnswers, FpgaToggles, Deliver
  <2>3. ASSUME NEW d \in Clients, Step(d) \/ StrayDatagram(d)
        PROVE  (AlreadyThere(c) \/ Confirm(c)) /\ d = c
    BY <2>3 DEF Step, StrayDatagram, BindSocket, SendRegstats, LocalFailure, Timeout,
       BadFrame, AlreadyThere, MustToggle, SendToggle, WakeUp, Confirm, Return
  <2>4. CASE AlreadyThere(c)
    BY <2>4 DEF AlreadyThere, Return
  <2>5. CASE Confirm(c)
    BY <2>5 DEF Confirm, Return
  <2> QED BY <2>1, <2>2, <2>3, <2>4, <2>5 DEF Next
<1> QED BY <1>1, Invariance, PTL DEF Spec, SuccessMeansMode

\* While a client works alone the FPGA only ever moves to the mode it wants.
THEOREM TogglesAreSound == Spec => TogglesTowardsGoal
<1> DEFINE A == \A c \in Clients :
                  ~Idle(c) /\ alone[c] /\ loopback' # loopback => loopback' = want[c]
<1>1. Inv /\ [Next]_vars => [A]_vars
  <2> SUFFICES ASSUME Inv, Next, NEW c \in Clients, ~Idle(c), alone[c],
                      loopback' # loopback
               PROVE  loopback' = want[c]
    OBVIOUS
  <2>1. PICK m \in net : FpgaToggles(m)
    BY DEF Next, StartCall, Step, StrayDatagram, BindSocket, SendRegstats,
       LocalFailure, Timeout, BadFrame, AlreadyThere, MustToggle, SendToggle,
       WakeUp, Confirm, Return, NetStep, Lose, FpgaAnswers, Deliver
  <2>2. pc[c] = "sleep"
    BY <2>1 DEF Inv, TypeOK, AnswersAreFresh, TogglingIsNeeded, FpgaToggles
  <2> QED
    BY <2>1, <2>2 DEF Inv, TypeOK, TogglingIsNeeded, FpgaToggles
<1> QED BY <1>1, Invariance, PTL DEF Spec, TogglesTowardsGoal

-----------------------------------------------------------------------------
(* One process at a time: the refinement of LoopbackSwitch.                 *)

\* The only client is always alone, and no toggle outlives its call.
SoleInv ==
  /\ ~Idle(TheClient) => alone[TheClient]
  /\ Idle(TheClient) => \A m \in net : m.kind # "loopback"

\* No step of the only client, or of the network, breaks it.
LEMMA SoleInvNext ==
  ASSUME Prompt, Clients = {TheClient}, Inv, SoleInv, [Next]_vars
  PROVE  SoleInv'
<1> DEFINE c == TheClient
<1> USE DEF Inv, TypeOK, Message, SoleInv
<1>1. ASSUME NEW w \in BOOLEAN, StartCall(c, w) PROVE SoleInv'
  <2>1. net = {}
    BY <1>1 DEF StartCall
  <2> QED BY <1>1, <2>1 DEF StartCall
<1>2. ASSUME Step(c) PROVE SoleInv'
  BY <1>2 DEF Step, BindSocket, SendRegstats, LocalFailure, Timeout, BadFrame,
     AlreadyThere, MustToggle, SendToggle, WakeUp, Confirm, Return, WaitIsOver,
     AnswersAreFresh, TogglingIsNeeded
<1>3. ASSUME StrayDatagram(c) PROVE SoleInv'
  BY <1>3 DEF StrayDatagram
<1>4. ASSUME NEW m \in net, NetStep(m) PROVE SoleInv'
  BY <1>4 DEF NetStep, Lose, FpgaAnswers, FpgaToggles, Deliver
<1>5. CASE UNCHANGED vars BY <1>5 DEF vars
<1> QED BY <1>1, <1>2, <1>3, <1>4, <1>5 DEF Next

\* So it holds throughout, beside the inductive invariant.
LEMMA SoleInvariance ==
  ASSUME Prompt, Clients = {TheClient} PROVE Spec => [](Inv /\ SoleInv)
<1>1. Init => SoleInv BY DEF Init, SoleInv
<1>2. Inv /\ SoleInv /\ [Next]_vars => SoleInv' BY SoleInvNext
<1> QED BY <1>1, <1>2, Invariance, PTL DEF Spec

\* A step of the only client, or of the network, is a step of the switch.
LEMMA StepSimulation ==
  ASSUME Prompt, Clients = {TheClient}, Inv, SoleInv, [Next]_vars
  PROVE  [Switch!SwitchNext]_(Switch!svars)
<1> DEFINE c == TheClient
<1> USE DEF Inv, TypeOK, Message, SoleInv, Switch!SwitchNext, Switch!svars
<1>1. ASSUME NEW w \in BOOLEAN, StartCall(c, w) PROVE Switch!Ask(w)
  BY <1>1 DEF StartCall, Switch!Ask
<1>2. ASSUME LocalFailure(c) \/ Timeout(c) \/ BadFrame(c) PROVE Switch!Fail
  BY <1>2 DEF LocalFailure, Timeout, BadFrame, Return, Switch!Fail
<1>3. ASSUME AlreadyThere(c) PROVE Switch!Succeed
  BY <1>3 DEF AlreadyThere, Return, Switch!Succeed, AnswersAreFresh
<1>4. ASSUME Confirm(c) PROVE Switch!Succeed \/ Switch!Fail
  BY <1>4 DEF Confirm, Return, Switch!Succeed, Switch!Fail, AnswersAreFresh
<1>5. ASSUME BindSocket(c) \/ SendRegstats(c) \/ MustToggle(c) \/ SendToggle(c)
             \/ WakeUp(c) \/ StrayDatagram(c)
      PROVE  UNCHANGED Switch!svars
  BY <1>5 DEF BindSocket, SendRegstats, MustToggle, SendToggle, WakeUp, StrayDatagram
<1>6. ASSUME NEW m \in net, Lose(m) \/ FpgaAnswers(m) \/ (\E d \in Clients : Deliver(m, d))
      PROVE  UNCHANGED Switch!svars
  BY <1>6 DEF Lose, FpgaAnswers, Deliver
<1>7. ASSUME NEW m \in net, FpgaToggles(m) PROVE Switch!Obey
  <2>1. pc[c] = "sleep" /\ loopback # want[c]
    BY <1>7 DEF FpgaToggles, AnswersAreFresh, TogglingIsNeeded
  <2> QED BY <1>7, <2>1 DEF FpgaToggles, Switch!Obey
<1>8. CASE UNCHANGED vars BY <1>8 DEF vars
<1> QED
  BY <1>1, <1>2, <1>3, <1>4, <1>5, <1>6, <1>7, <1>8 DEF Next, Step, NetStep

\* Used by one process at a time over a prompt network, fpga_loopback_mode.c implements the switch.
THEOREM Refinement == ASSUME Prompt, Clients = {TheClient} PROVE Spec => ImplementsSwitch
<1>1. Init => Switch!SwitchInit
  BY DEF Init, Switch!SwitchInit
<1>2. Inv /\ SoleInv /\ [Next]_vars => [Switch!SwitchNext]_(Switch!svars)
  BY StepSimulation
<1> QED
  BY <1>1, <1>2, SoleInvariance, PTL DEF Spec, ImplementsSwitch, Switch!SwitchSpec
=============================================================================
