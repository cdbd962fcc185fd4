---------------------------- MODULE TxTestProofs ----------------------------
(***************************************************************************)
(* For any counts, payloads and number of runs and faults: what a run of   *)
(* TxTest triggers, what its row says of the packets lost, and what it     *)
(* leaves in the FPGA.                                                     *)
(***************************************************************************)
EXTENDS TxTest, TLAPS

Setting == {"loopback", "pktn", "mtu", "content"}
Testing == {"before", "trigger", "receive", "extra", "after", "restore"}

\* From the check on the FPGA is set as asked, until the content bit is toggled back;
\* where nothing was lost it is set so before.
SetAsAsked ==
  /\ pc \in Testing => AsAsked
  /\ pc \in Testing \cup {"pktn", "mtu", "content", "verify", "save"} => ~fpga.loopback
  /\ pc \in {"mtu", "content", "verify"} /\ ~trouble => fpga.pktn = req.count
  /\ pc \in {"content", "verify"} /\ ~trouble => fpga.mtu = req.payload

TriggerInv == TypeOK /\ SetAsAsked

Saved == pc = "idle" /\ exit = "ok"

\* Packets asked for or surplus are lost, received, queued or on the wire.
PacketsAccounted ==
  /\ pc \notin {"receive", "extra"} => queue = 0
  /\ pc \in Setting \cup {"verify", "before", "trigger"} =>
       gone + air <= surplus /\ received = 0
  /\ pc \in {"receive", "extra", "after", "restore", "save"} \/ Saved =>
       gone + received + queue + air <= req.count + surplus
  /\ pc \in {"receive", "extra"} => gone + received + queue + air >= req.count
  /\ pc \in {"after", "restore", "save"} \/ Saved =>
       (~early => gone + received >= req.count)
  /\ Saved =>
       row = [requested |-> req.count, received |-> received,
              lost |-> IF received <= req.count THEN req.count - received ELSE 0]

LossInv == TriggerInv /\ PacketsAccounted

\* Toggled an odd number of times, the bit of the run's content mode is set.
BitRestored ==
  (pc = "save" \/ Saved) /\ ~unrestored => ~fpga[req.content]

RestoreInv == TriggerInv /\ BitRestored

Once == Promise!Flipped(start, req.content)

\* How often the bit has been toggled, as far as every command arrived.
TogglesCounted ==
  /\ pc \in Setting => Bits(fpga) = start
  /\ pc # "idle" => Bits(fpga) \in {start, Once}
  /\ pc \in Testing \cup {"verify"} /\ ~trouble => Bits(fpga) = Once
  /\ pc = "save" /\ ~trouble => Bits(fpga) = start
  /\ pc \in Testing \cup {"save"} /\ ~trouble => ~Promise!Blocked(start, req.content)

ToggleInv == TriggerInv /\ TogglesCounted
-----------------------------------------------------------------------------
(* Types.                                                                  *)

\* What the assumption on the constants says of them.
LEMMA Numbers ==
  /\ Counts \subseteq Nat /\ 0 \notin Counts /\ QuietTime \in Nat /\ QuietTime > 0
  /\ FaultBudget \in Nat /\ MaxRuns \in Nat
  BY TxAssumption

\* What a call of the loopback switch may return and leave behind.
LEMMA Calls ==
  ASSUME NEW m, NEW w, NEW o \in Call!CallOutcomes(m, w)
  PROVE  \/ o[1] = "ok" /\ o[2] = w
         \/ o[1] = "error" /\ o[2] \in {m, w}
  BY DEF Call!CallOutcomes

\* The commands of a run keep the settings what settings are.
LEMMA SettingsKept ==
  ASSUME NEW f \in Settings
  PROVE  /\ \A b \in BOOLEAN : [f EXCEPT !.loopback = b] \in Settings
         /\ \A c \in Counts : [f EXCEPT !.pktn = c] \in Settings
         /\ \A p \in Payloads : [f EXCEPT !.mtu = p] \in Settings
         /\ \A bit \in Contents : [f EXCEPT ![bit] = ~@] \in Settings
<1>1. \A bit \in Contents : bit = "random" \/ bit = "constant"
  BY DEF Contents, Promise!Contents
<1>2. [f EXCEPT !["random"] = ~@] \in Settings /\ [f EXCEPT !["constant"] = ~@] \in Settings
  BY DEF Settings
<1>3. \A bit \in Contents : [f EXCEPT ![bit] = ~@] \in Settings
  BY <1>1, <1>2
<1>4. /\ \A b \in BOOLEAN : [f EXCEPT !.loopback = b] \in Settings
      /\ \A c \in Counts : [f EXCEPT !.pktn = c] \in Settings
      /\ \A p \in Payloads : [f EXCEPT !.mtu = p] \in Settings
  BY DEF Settings
<1> QED BY <1>3, <1>4

\* A command is obeyed or not, and the run goes on or ends.
LEMMA Commanding ==
  ASSUME TypeOK, NEW obeyed \in Settings, NEW next, Command(obeyed, next)
  PROVE  /\ fpga' \in Settings /\ faults' \in 0..FaultBudget
         /\ exit' \in {exit, "error"} /\ trouble' \in BOOLEAN
         /\ \/ pc' = next /\ exit' = exit /\ fpga' = obeyed /\ trouble' = trouble
            \/ pc' = next /\ exit' = exit /\ fpga' = fpga /\ trouble' = TRUE
            \/ pc' = "idle" /\ exit' = "error" /\ fpga' = fpga /\ trouble' = TRUE
<1>1. /\ \/ pc' = next /\ exit' = exit /\ fpga' = obeyed /\ trouble' = trouble
         \/ pc' = next /\ exit' = exit /\ fpga' = fpga /\ trouble' = TRUE
         \/ pc' = "idle" /\ exit' = "error" /\ fpga' = fpga /\ trouble' = TRUE
      /\ faults' = faults \/ Fault
  BY DEF Command, Quit, ending
<1>2. trouble \in BOOLEAN /\ faults \in 0..FaultBudget /\ fpga \in Settings
  BY DEF TypeOK
<1>3. faults' \in 0..FaultBudget
  BY <1>1, <1>2, Numbers DEF Fault
<1> QED BY <1>1, <1>2, <1>3

\* Leaving loopback only moves the loopback bit.
LEMMA Leaving ==
  ASSUME TypeOK, LeaveLoopback
  PROVE  /\ \E b \in BOOLEAN : fpga' = [fpga EXCEPT !.loopback = b] /\ (pc' = "pktn" => ~b)
         /\ \/ pc' = "pktn" /\ exit' = exit /\ trouble' = trouble
            \/ pc' = "idle" /\ exit' = "error" /\ trouble' = TRUE
<1>1. PICK o \in Call!CallOutcomes(fpga.loopback, FALSE) :
        /\ fpga' = [fpga EXCEPT !.loopback = o[2]]
        /\ \/ o[1] = "ok" /\ pc' = "pktn" /\ exit' = exit /\ trouble' = trouble
           \/ o[1] = "error" /\ pc' = "idle" /\ exit' = "error" /\ trouble' = TRUE
  BY DEF LeaveLoopback, Quit, ending
<1>2. \/ o[1] = "ok" /\ o[2] = FALSE
      \/ o[1] = "error" /\ o[2] \in {fpga.loopback, FALSE}
  BY Calls
<1>3. fpga.loopback \in BOOLEAN
  BY DEF TypeOK, Settings
<1>4. o[2] \in BOOLEAN /\ (pc' = "pktn" => o[2] = FALSE)
  BY <1>1, <1>2, <1>3
<1> QED BY <1>1, <1>4

\* The content bits of a state.
LEMMA BitsType == ASSUME NEW f \in Settings PROVE Bits(f) \in [Contents -> BOOLEAN]
  BY DEF Bits, Settings

\* Every step keeps the types.
LEMMA TypeNext == TypeOK /\ [Next]_vars => TypeOK'
<1> SUFFICES ASSUME TypeOK, [Next]_vars PROVE TypeOK'
  OBVIOUS
<1> USE Numbers DEF flow, ending, marks
<1>1. ASSUME pc' \in Setting \cup Testing \cup {"verify", "save", "idle"},
             UNCHANGED <<req, flow, row, runs, start>>,
             fpga' \in Settings, exit' \in {exit, "ok", "error"},
             trouble' \in BOOLEAN, unrestored' \in BOOLEAN, faults' \in 0..FaultBudget
      PROVE  TypeOK'
  BY <1>1 DEF TypeOK, Setting, Testing
<1>2. /\ pc \in Setting \cup Testing \cup {"verify", "save", "idle"}
      /\ fpga \in Settings /\ req \in Requests /\ faults \in 0..FaultBudget
      /\ trouble \in BOOLEAN /\ unrestored \in BOOLEAN /\ early \in BOOLEAN
      /\ req.count \in Counts /\ req.payload \in Payloads /\ req.content \in Contents
  BY DEF TypeOK, Setting, Testing, Requests
<1>3. ASSUME NEW r \in Requests, StartRun(r) PROVE TypeOK'
  <2>1. start' \in [Contents -> BOOLEAN] /\ FALSE \in BOOLEAN
    BY <1>2, <1>3, BitsType DEF StartRun
  <2>2. {early', unrestored', trouble'} \subseteq BOOLEAN
    BY <1>3, <2>1 DEF StartRun
  <2>3. {air', queue', received', gone', surplus'} \subseteq Nat
    BY <1>3 DEF StartRun, TypeOK
  <2>4. runs' \in 0..MaxRuns
    BY <1>3 DEF StartRun, TypeOK
  <2> QED BY <1>3, <2>1, <2>2, <2>3, <2>4 DEF StartRun, TypeOK
<1>4. CASE LeaveLoopback
  <2>1. fpga' \in Settings /\ trouble' \in BOOLEAN
    BY <1>2, <1>4, Leaving, SettingsKept
  <2>2. UNCHANGED <<req, flow, row, runs, start, unrestored, faults>>
    BY <1>4 DEF LeaveLoopback
  <2>3. pc' \in {"pktn", "idle"} /\ exit' \in {exit, "error"}
    BY <1>4, Leaving
  <2> QED BY <1>1, <1>2, <2>1, <2>2, <2>3 DEF Setting
<1>5. CASE Configure
  <2>1. /\ [fpga EXCEPT !.pktn = req.count] \in Settings
        /\ [fpga EXCEPT !.mtu = req.payload] \in Settings
        /\ Toggled(req.content) \in Settings
    BY <1>2, SettingsKept DEF Toggled
  <2>2. PICK obeyed \in Settings, next \in {"mtu", "content", "verify"} : Command(obeyed, next)
    BY <1>5, <2>1 DEF Configure
  <2>3. UNCHANGED <<req, flow, row, runs, start, unrestored>>
    BY <1>5 DEF Configure
  <2>4. pc' \in Setting \cup {"verify", "idle"}
    BY <2>2, Commanding DEF Setting
  <2>5. /\ fpga' \in Settings /\ exit' \in {exit, "error"} /\ trouble' \in BOOLEAN
        /\ faults' \in 0..FaultBudget
    BY <2>2, Commanding
  <2> QED BY <1>1, <1>2, <2>3, <2>4, <2>5
<1>6. CASE Verify \/ Snapshots
  <2>1. UNCHANGED <<req, fpga, flow, row, runs, faults, start, unrestored>>
    BY <1>6 DEF Verify, Snapshots
  <2>2. pc' \in {"before", "trigger", "restore", "idle"} /\ exit' \in {exit, "error"}
    BY <1>6 DEF Verify, Snapshots, Quit
  <2>3. trouble' = trouble \/ trouble' = TRUE
    BY <1>6 DEF Verify, Snapshots, Quit
  <2> QED BY <1>1, <1>2, <2>1, <2>2, <2>3 DEF Testing
<1>7. CASE Trigger
  <2>1. {air', gone'} \subseteq Nat
    <3>1. fpga.pktn \in Nat
      BY <1>2 DEF Settings
    <3> QED BY <1>7, <3>1 DEF Trigger, TypeOK
  <2>2. pc' \in {"receive", "idle"} /\ exit' \in {exit, "error"} /\ faults' \in 0..FaultBudget
    BY <1>2, <1>7 DEF Trigger, Quit, Fault
  <2>3. trouble' = trouble \/ trouble' = TRUE
    BY <1>7 DEF Trigger, Quit
  <2>4. trouble' \in BOOLEAN
    BY <1>2, <2>3
  <2>5. UNCHANGED <<req, fpga, queue, received, quiet, surplus, early, row, runs, marks>>
    BY <1>7 DEF Trigger
  <2> QED BY <2>1, <2>2, <2>4, <2>5 DEF TypeOK
<1>8. CASE ReceivePacket
  BY <1>8 DEF ReceivePacket, TypeOK
<1>9. CASE ReceivePoll
  <2>1. quiet' \in 0..QuietTime /\ pc' \in {"receive", "extra"}
    BY <1>9 DEF ReceivePoll, TypeOK
  <2> QED BY <1>9, <2>1 DEF ReceivePoll, TypeOK
<1>10. CASE AllReceived \/ ReceiveFails
  <2>1. /\ UNCHANGED <<req, fpga, air, received, quiet, gone, surplus, row, ending, runs, marks>>
        /\ pc' \in {"extra", "after"}
    BY <1>10 DEF AllReceived, ReceiveFails
  <2>2. faults' \in 0..FaultBudget
    BY <1>2, <1>10 DEF AllReceived, ReceiveFails, Fault
  <2>3. queue' \in Nat
    <3>1. queue' = queue \/ queue' = 0
      BY <1>10 DEF AllReceived, ReceiveFails
    <3> QED BY <3>1 DEF TypeOK
  <2>4. early' \in BOOLEAN
    <3>1. early' = early \/ early' = (queue > 0 \/ air > 0)
      BY <1>10 DEF AllReceived, ReceiveFails
    <3>2. (queue > 0 \/ air > 0) \in BOOLEAN
      OBVIOUS
    <3> QED BY <1>2, <3>1, <3>2
  <2> QED BY <1>1, <1>2, <2>1, <2>2, <2>3, <2>4 DEF TypeOK, ending, marks
<1>11. CASE ExtraDrain
  <2>1. {queue', received'} \subseteq Nat /\ pc' \in {"extra", "after"}
    BY <1>11 DEF ExtraDrain, TypeOK
  <2>2. early' = early \/ early' = (air > 0)
    BY <1>11 DEF ExtraDrain
  <2>3. early' \in BOOLEAN
    <3>1. (air > 0) \in BOOLEAN
      OBVIOUS
    <3> QED BY <1>2, <2>2, <3>1
  <2> QED BY <1>11, <2>1, <2>3 DEF ExtraDrain, TypeOK
<1>12. CASE Restore
  <2>1. Toggled(req.content) \in Settings /\ Command(Toggled(req.content), "save")
    BY <1>2, <1>12, SettingsKept DEF Toggled, Restore
  <2>2. UNCHANGED <<req, flow, row, runs, start>>
    BY <1>12 DEF Restore
  <2>3. unrestored' \in BOOLEAN
    BY <1>12 DEF Restore
  <2>4. /\ fpga' \in Settings /\ faults' \in 0..FaultBudget /\ exit' \in {exit, "error"}
        /\ trouble' \in BOOLEAN /\ pc' \in {"save", "idle"}
    BY <2>1, Commanding
  <2> QED BY <1>1, <2>2, <2>3, <2>4
<1>13. CASE Save
  <2>1. pc' = "idle" /\ exit' \in {"ok", "error"} /\ (trouble' = trouble \/ trouble' = TRUE)
    BY <1>13 DEF Save, Quit
  <2>2. trouble' \in BOOLEAN
    BY <1>2, <2>1
  <2>3. row' \in [requested : Counts \cup {0}, received : Nat, lost : Nat]
    <3>1. req.count \in Nat /\ received \in Nat
      BY <1>2 DEF TypeOK
    <3> QED BY <1>2, <1>13, <3>1 DEF Save, TypeOK
  <2>4. UNCHANGED <<req, fpga, flow, runs, faults, marks>>
    BY <1>13 DEF Save
  <2> QED BY <2>1, <2>2, <2>3, <2>4 DEF TypeOK
<1>14. CASE Wire \/ PacketDoubled
  <2>1. {air', queue', gone', surplus'} \subseteq Nat /\ faults' \in 0..FaultBudget
    BY <1>14 DEF Wire, PacketArrives, PacketLost, PacketDoubled, Arriving, Fault, TypeOK
  <2>2. UNCHANGED <<pc, req, fpga, received, quiet, row, ending, runs, early, marks>>
    BY <1>14 DEF Wire, PacketArrives, PacketLost, PacketDoubled
  <2> QED BY <2>1, <2>2 DEF TypeOK
<1>15. CASE UNCHANGED vars
  BY <1>15 DEF vars, TypeOK
<1> QED
  BY <1>3, <1>4, <1>5, <1>6, <1>7, <1>8, <1>9, <1>10, <1>11, <1>12, <1>13, <1>14, <1>15
  DEF Next, Host

-----------------------------------------------------------------------------
(* Settings.                                                               *)

\* What each command does to each setting.
LEMMA SettingFields ==
  ASSUME NEW f \in Settings
  PROVE  /\ \A b : /\ [f EXCEPT !.loopback = b].loopback = b
                   /\ [f EXCEPT !.loopback = b].pktn = f.pktn
                   /\ [f EXCEPT !.loopback = b].mtu = f.mtu
                   /\ Bits([f EXCEPT !.loopback = b]) = Bits(f)
         /\ \A c : /\ [f EXCEPT !.pktn = c].pktn = c
                   /\ [f EXCEPT !.pktn = c].loopback = f.loopback
                   /\ Bits([f EXCEPT !.pktn = c]) = Bits(f)
         /\ \A p : /\ [f EXCEPT !.mtu = p].mtu = p
                   /\ [f EXCEPT !.mtu = p].loopback = f.loopback
                   /\ [f EXCEPT !.mtu = p].pktn = f.pktn
                   /\ Bits([f EXCEPT !.mtu = p]) = Bits(f)
         /\ \A bit \in Contents : /\ [f EXCEPT ![bit] = ~@].loopback = f.loopback
                                  /\ [f EXCEPT ![bit] = ~@].pktn = f.pktn
                                  /\ [f EXCEPT ![bit] = ~@].mtu = f.mtu
                                  /\ [f EXCEPT ![bit] = ~@][bit] = ~f[bit]
                                  /\ f[bit] \in BOOLEAN
  BY DEF Settings, Bits, Contents, Promise!Contents

\* The check is all there is between the commands and the trigger, and it is enough.
LEMMA SettingsNext == TriggerInv /\ [Next]_vars => SetAsAsked'
<1> SUFFICES ASSUME TriggerInv, [Next]_vars PROVE SetAsAsked'
  OBVIOUS
<1> USE DEF Testing, ending
<1>1. /\ TypeOK /\ SetAsAsked /\ fpga \in Settings /\ req \in Requests
      /\ req.content \in Contents /\ req.count \in Counts /\ req.payload \in Payloads
  BY DEF TriggerInv, TypeOK, Requests
<1>2. ASSUME UNCHANGED <<fpga, req>>, pc' = "idle" \/ UNCHANGED <<pc, trouble>>
      PROVE  SetAsAsked'
  BY <1>1, <1>2 DEF SetAsAsked, AsAsked, ContentOf
<1>3. ASSUME NEW r \in Requests, StartRun(r) PROVE SetAsAsked'
  BY <1>3 DEF StartRun, SetAsAsked
<1>4. CASE LeaveLoopback
  <2>1. PICK b \in BOOLEAN : fpga' = [fpga EXCEPT !.loopback = b] /\ (pc' = "pktn" => ~b)
    BY <1>1, <1>4, Leaving
  <2>2. pc' = "pktn" => ~fpga'.loopback
    BY <1>1, <2>1, SettingFields
  <2>3. pc' \in {"pktn", "idle"}
    BY <1>1, <1>4, Leaving
  <2> QED BY <2>2, <2>3 DEF SetAsAsked
<1>5. CASE pc = "pktn" /\ Command([fpga EXCEPT !.pktn = req.count], "mtu") /\ req' = req
  <2> DEFINE g == [fpga EXCEPT !.pktn = req.count]
  <2>1. g \in Settings /\ g.pktn = req.count /\ g.loopback = fpga.loopback
    BY <1>1, SettingsKept, SettingFields
  <2>2. \/ pc' = "mtu" /\ fpga' = g
        \/ pc' = "mtu" /\ fpga' = fpga /\ trouble' = TRUE
        \/ pc' = "idle"
    BY <1>1, <1>5, <2>1, Commanding
  <2> HIDE DEF g
  <2>3. ~fpga.loopback
    BY <1>1, <1>5 DEF SetAsAsked
  <2> QED BY <1>5, <2>1, <2>2, <2>3 DEF SetAsAsked
<1>6. CASE pc = "mtu" /\ Command([fpga EXCEPT !.mtu = req.payload], "content") /\ req' = req
  <2> DEFINE g == [fpga EXCEPT !.mtu = req.payload]
  <2>1. g \in Settings /\ g.mtu = req.payload /\ g.loopback = fpga.loopback
        /\ g.pktn = fpga.pktn
    BY <1>1, SettingsKept, SettingFields
  <2>2. \/ pc' = "content" /\ fpga' = g /\ trouble' = trouble
        \/ pc' = "content" /\ fpga' = fpga /\ trouble' = TRUE
        \/ pc' = "idle"
    BY <1>1, <1>6, <2>1, Commanding
  <2> HIDE DEF g
  <2>3. ~fpga.loopback /\ (~trouble => fpga.pktn = req.count)
    BY <1>1, <1>6 DEF SetAsAsked
  <2> QED BY <1>6, <2>1, <2>2, <2>3 DEF SetAsAsked
<1>7. ASSUME Command(Toggled(req.content), "verify"), pc = "content", req' = req
      PROVE  SetAsAsked'
  <2>1. /\ Toggled(req.content) \in Settings /\ Toggled(req.content).mtu = fpga.mtu
        /\ Toggled(req.content).loopback = fpga.loopback
        /\ Toggled(req.content).pktn = fpga.pktn
    BY <1>1, SettingsKept, SettingFields DEF Toggled
  <2>2. \/ pc' = "verify" /\ fpga' = Toggled(req.content) /\ trouble' = trouble
        \/ pc' = "verify" /\ fpga' = fpga /\ trouble' = TRUE
        \/ pc' = "idle"
    BY <1>1, <1>7, <2>1, Commanding
  <2>3. ~fpga.loopback /\ (~trouble => fpga.pktn = req.count /\ fpga.mtu = req.payload)
    BY <1>1, <1>7 DEF SetAsAsked
  <2> QED BY <1>7, <2>1, <2>2, <2>3 DEF SetAsAsked
<1>8. CASE Configure
  BY <1>5, <1>6, <1>7, <1>8 DEF Configure
<1>9. CASE Verify
  <2>1. ~fpga.loopback \/ pc' = "idle"
    BY <1>1, <1>9 DEF Verify, SetAsAsked
  <2> QED BY <1>1, <1>9, <2>1 DEF Verify, Quit, SetAsAsked, AsAsked, ContentOf
<1>10. CASE Snapshots \/ Trigger
  BY <1>1, <1>10 DEF Snapshots, Trigger, Quit, SetAsAsked, AsAsked, ContentOf
<1>11. CASE ReceivePacket \/ ReceivePoll \/ AllReceived \/ ReceiveFails \/ ExtraDrain
  BY <1>1, <1>11
  DEF ReceivePacket, ReceivePoll, AllReceived, ReceiveFails, ExtraDrain, SetAsAsked,
      AsAsked, ContentOf
<1>12. CASE Restore
  <2>1. Toggled(req.content) \in Settings /\ Toggled(req.content).loopback = fpga.loopback
    BY <1>1, SettingsKept, SettingFields DEF Toggled
  <2>2. pc' \in {"save", "idle"} /\ fpga' \in {fpga, Toggled(req.content)}
    BY <1>1, <1>12, <2>1, Commanding DEF Restore
  <2>3. ~fpga.loopback
    BY <1>1, <1>12 DEF Restore, SetAsAsked
  <2> QED BY <2>1, <2>2, <2>3 DEF SetAsAsked
<1>13. CASE Save
  BY <1>2, <1>13 DEF Save, Quit
<1>14. CASE Wire \/ PacketDoubled
  BY <1>2, <1>14 DEF Wire, PacketArrives, PacketLost, PacketDoubled
<1>15. CASE UNCHANGED vars
  BY <1>2, <1>15 DEF vars
<1> QED
  BY <1>3, <1>4, <1>8, <1>9, <1>10, <1>11, <1>12, <1>13, <1>14, <1>15 DEF Next, Host

\* The start of everything.
LEMMA TriggerInit == Init => TriggerInv
<1> SUFFICES ASSUME Init PROVE TriggerInv
  OBVIOUS
<1>1. start \in [Contents -> BOOLEAN]
  BY BitsType DEF Init
<1>2. {early, unrestored, trouble} \subseteq BOOLEAN
  BY DEF Init
<1>3. TypeOK
  BY <1>1, <1>2, Numbers DEF Init, TypeOK
<1>4. SetAsAsked
  BY DEF Init, SetAsAsked, Testing
<1> QED BY <1>3, <1>4 DEF TriggerInv

\* The inductive invariant the others build on.
LEMMA TriggerNext == TriggerInv /\ [Next]_vars => TriggerInv'
  BY TypeNext, SettingsNext DEF TriggerInv

-----------------------------------------------------------------------------
(* Packets.                                                                *)

\* Every packet that is triggered, lost or doubled is accounted for.
LEMMA PacketsNext == LossInv /\ [Next]_vars => PacketsAccounted'
<1> SUFFICES ASSUME LossInv, [Next]_vars PROVE PacketsAccounted'
  OBVIOUS
<1> USE DEF flow, ending, Setting, Saved
<1>1. /\ TypeOK /\ TriggerInv /\ PacketsAccounted
      /\ air \in Nat /\ queue \in Nat /\ received \in Nat /\ gone \in Nat /\ surplus \in Nat
      /\ req.count \in Nat
  BY Numbers DEF LossInv, TriggerInv, TypeOK, Requests
<1>2. ASSUME UNCHANGED <<req, flow>>, pc' \in Setting \cup {"verify", "before", "trigger"},
             pc \in Setting \cup {"verify", "before", "trigger"}
      PROVE  PacketsAccounted'
  BY <1>1, <1>2 DEF PacketsAccounted
<1>3. ASSUME UNCHANGED <<req, flow>>, pc' = "idle", exit' = "error",
             pc \notin {"receive", "extra"}
      PROVE  PacketsAccounted'
  BY <1>1, <1>3 DEF PacketsAccounted
<1>4. ASSUME UNCHANGED <<req, flow>>, pc' \in {"after", "restore", "save"},
             pc \in {"after", "restore", "save"}
      PROVE  PacketsAccounted'
  BY <1>1, <1>4 DEF PacketsAccounted
<1>5. ASSUME NEW r \in Requests, StartRun(r) PROVE PacketsAccounted'
  BY <1>1, <1>5 DEF StartRun, PacketsAccounted
<1>6. CASE LeaveLoopback
  <2>1. UNCHANGED <<req, flow>> /\ pc = "loopback"
    BY <1>6 DEF LeaveLoopback
  <2>2. pc' = "pktn" \/ (pc' = "idle" /\ exit' = "error")
    BY <1>1, <1>6, Leaving
  <2> QED BY <1>2, <1>3, <2>1, <2>2
<1>7. CASE Configure
  <2>1. UNCHANGED <<req, flow>> /\ pc \in {"pktn", "mtu", "content"}
    BY <1>7 DEF Configure
  <2>2. pc' \in {"mtu", "content", "verify"} \/ (pc' = "idle" /\ exit' = "error")
    BY <1>7 DEF Configure, Command, Quit
  <2> QED BY <1>2, <1>3, <2>1, <2>2
<1>8. CASE Verify
  <2>1. UNCHANGED <<req, flow>> /\ pc = "verify"
    BY <1>8 DEF Verify
  <2>2. pc' = "before" \/ (pc' = "idle" /\ exit' = "error")
    BY <1>8 DEF Verify, Quit
  <2> QED BY <1>2, <1>3, <2>1, <2>2
<1>9. CASE Snapshots
  <2>1. UNCHANGED <<req, flow>> /\ pc \in {"before", "after"}
    BY <1>9 DEF Snapshots
  <2>2. \/ pc = "before" /\ pc' = "trigger"
        \/ pc = "after" /\ pc' = "restore"
        \/ pc' = "idle" /\ exit' = "error"
    BY <1>9 DEF Snapshots, Quit
  <2> QED BY <1>2, <1>3, <1>4, <2>1, <2>2
<1>10. CASE Trigger
  <2>1. fpga.pktn = req.count /\ queue = 0 /\ received = 0 /\ gone + air <= surplus
    BY <1>1, <1>10
    DEF Trigger, TriggerInv, SetAsAsked, Testing, AsAsked, PacketsAccounted
  <2>2. UNCHANGED <<req, queue, received, surplus, early>> /\ pc = "trigger"
    BY <1>10 DEF Trigger
  <2>3. CASE pc' = "idle" /\ exit' = "error" /\ UNCHANGED <<air, gone>>
    BY <1>1, <2>1, <2>2, <2>3 DEF PacketsAccounted
  <2>4. CASE pc' = "receive" /\ \/ air' = air + req.count /\ gone' = gone
                                \/ air' = air /\ gone' = req.count
    BY <1>1, <2>1, <2>2, <2>4 DEF PacketsAccounted
  <2> QED BY <1>10, <2>1, <2>3, <2>4 DEF Trigger, Quit
<1>11. CASE ReceivePacket
  BY <1>1, <1>11 DEF ReceivePacket, PacketsAccounted
<1>12. CASE ReceivePoll \/ AllReceived \/ ReceiveFails
  <2>1. CASE pc = "receive"
    <3>1. /\ pc' \in {"receive", "extra"}
          /\ UNCHANGED <<req, air, queue, received, gone, surplus>>
      BY <1>12, <2>1 DEF ReceivePoll, AllReceived, ReceiveFails
    <3> QED BY <1>1, <2>1, <3>1 DEF PacketsAccounted
  <2>2. CASE pc = "extra"
    <3>1. /\ pc' = "after" /\ queue' = 0 /\ early' = (queue > 0 \/ air > 0)
          /\ UNCHANGED <<req, air, received, gone, surplus>>
      BY <1>12, <2>2 DEF ReceivePoll, AllReceived, ReceiveFails
    <3>2. ~early' => ~(queue > 0) /\ ~(air > 0)
      BY <3>1, Zenon
    <3>3. ~early' => queue = 0 /\ air = 0
      BY <1>1, <3>2
    <3> QED BY <1>1, <2>2, <3>1, <3>3 DEF PacketsAccounted
  <2> QED BY <1>12, <2>1, <2>2 DEF ReceivePoll, AllReceived, ReceiveFails
<1>13. CASE ExtraDrain
  <2>1. pc = "extra" /\ UNCHANGED <<req, air, gone, surplus>>
    BY <1>13 DEF ExtraDrain
  <2>2. CASE queue > 0
    <3>1. pc' = "extra" /\ queue' = queue - 1 /\ received' = received + 1
      BY <1>13, <2>1, <2>2 DEF ExtraDrain
    <3> QED BY <1>1, <2>1, <2>2, <3>1 DEF PacketsAccounted
  <2>3. CASE queue = 0
    <3>1. pc' = "after" /\ queue' = queue /\ received' = received /\ early' = (air > 0)
      BY <1>13, <2>3 DEF ExtraDrain
    <3>2. ~early' => ~(air > 0)
      BY <3>1, Zenon
    <3>3. ~early' => air = 0
      BY <1>1, <3>2
    <3> QED BY <1>1, <2>1, <2>3, <3>1, <3>3 DEF PacketsAccounted
  <2> QED BY <1>1, <2>2, <2>3
<1>14. CASE Restore
  <2>1. UNCHANGED <<req, flow>> /\ pc = "restore"
    BY <1>14 DEF Restore
  <2>2. pc' = "save" \/ (pc' = "idle" /\ exit' = "error")
    BY <1>14 DEF Restore, Command, Quit
  <2> QED BY <1>3, <1>4, <2>1, <2>2
<1>15. CASE Save
  <2>1. UNCHANGED <<req, flow>> /\ pc = "save" /\ pc' = "idle"
    BY <1>15 DEF Save, Quit
  <2>2. \/ exit' = "error"
        \/ row' = [requested |-> req.count, received |-> received,
                   lost |-> IF received <= req.count THEN req.count - received ELSE 0]
    BY <1>15 DEF Save, Quit
  <2>3. CASE exit' = "error"
    BY <1>3, <2>1, <2>3
  <2>4. CASE row' = [requested |-> req.count, received |-> received,
                     lost |-> IF received <= req.count THEN req.count - received ELSE 0]
    BY <1>1, <2>1, <2>4 DEF PacketsAccounted
  <2> QED BY <2>2, <2>3, <2>4
<1>16. CASE PacketArrives
  <2>1. /\ air > 0 /\ air' = air - 1
        /\ UNCHANGED <<pc, req, received, row, exit, gone, surplus, early>>
        /\ IF pc \in {"receive", "extra"} THEN queue' = queue + 1 ELSE queue' = queue
    BY <1>16 DEF PacketArrives, Arriving
  <2> QED BY <1>1, <2>1 DEF PacketsAccounted
<1>17. CASE PacketLost
  <2>1. /\ air > 0 /\ air' = air - 1 /\ gone' = gone + 1
        /\ UNCHANGED <<pc, req, received, row, exit, queue, surplus, early>>
    BY <1>17 DEF PacketLost
  <2> QED BY <1>1, <2>1 DEF PacketsAccounted
<1>18. CASE PacketDoubled
  <2>1. /\ surplus' = surplus + 1
        /\ UNCHANGED <<pc, req, received, row, exit, air, gone, early>>
        /\ IF pc \in {"receive", "extra"} THEN queue' = queue + 1 ELSE queue' = queue
    BY <1>18 DEF PacketDoubled, Arriving
  <2> QED BY <1>1, <2>1 DEF PacketsAccounted
<1>19. CASE UNCHANGED vars
  BY <1>1, <1>19 DEF vars, PacketsAccounted
<1> QED
  BY <1>5, <1>6, <1>7, <1>8, <1>9, <1>10, <1>11, <1>12, <1>13, <1>14, <1>15, <1>16, <1>17,
     <1>18, <1>19 DEF Next, Host, Wire

\* The inductive invariant behind RowReportsLosses.
LEMMA Losses == Spec => []LossInv
<1>1. Init => LossInv
  <2>1. Init => PacketsAccounted
    BY DEF Init, PacketsAccounted, Setting, Saved
  <2> QED BY <2>1, TriggerInit DEF LossInv
<1>2. LossInv /\ [Next]_vars => LossInv'
  BY TriggerNext, PacketsNext DEF LossInv
<1> QED BY <1>1, <1>2, PTL DEF Spec

-----------------------------------------------------------------------------
(* Content bits.                                                           *)

\* While the FPGA sends the content asked for, the bit of that content is set.
LEMMA BitIsSet ==
  ASSUME TypeOK, AsAsked
  PROVE  fpga[req.content]
<1>1. req.content = "random" \/ req.content = "constant"
  BY DEF TypeOK, Requests, Contents, Promise!Contents
<1>2. fpga["random"] \in BOOLEAN /\ fpga["constant"] \in BOOLEAN
  BY DEF TypeOK, Settings
<1> QED BY <1>1, <1>2 DEF AsAsked, ContentOf

\* Only the last command of a run clears the bit, and only its loss leaves it set.
LEMMA RestoreNext == RestoreInv /\ [Next]_vars => BitRestored'
<1> SUFFICES ASSUME RestoreInv, [Next]_vars PROVE BitRestored'
  OBVIOUS
<1> USE DEF ending, marks, Saved
<1>1. TypeOK /\ TriggerInv /\ BitRestored /\ fpga \in Settings /\ req.content \in Contents
  BY DEF RestoreInv, TriggerInv, TypeOK, Requests
<1>2. ASSUME pc' # "save", ~(pc' = "idle" /\ exit' = "ok") PROVE BitRestored'
  BY <1>2 DEF BitRestored
<1>3. ASSUME UNCHANGED <<fpga, req, unrestored>>, pc = "save" \/ UNCHANGED <<pc, exit>>
      PROVE  BitRestored'
  BY <1>1, <1>3 DEF BitRestored
<1>4. ASSUME NEW r \in Requests, StartRun(r) PROVE BitRestored'
  BY <1>2, <1>4 DEF StartRun
<1>5. CASE LeaveLoopback
  <2>1. pc' = "pktn" \/ (pc' = "idle" /\ exit' = "error")
    BY <1>1, <1>5, Leaving
  <2> QED BY <1>2, <2>1
<1>6. CASE Configure
  BY <1>2, <1>6 DEF Configure, Command, Quit
<1>7. CASE Verify
  BY <1>2, <1>7 DEF Verify, Quit
<1>8. CASE Snapshots
  BY <1>2, <1>8 DEF Snapshots, Quit
<1>9. CASE Trigger
  BY <1>2, <1>9 DEF Trigger, Quit
<1>10. CASE ReceivePacket \/ ReceivePoll \/ AllReceived \/ ReceiveFails \/ ExtraDrain
  BY <1>2, <1>10 DEF ReceivePacket, ReceivePoll, AllReceived, ReceiveFails, ExtraDrain
<1>11. CASE Restore
  <2>1. /\ Toggled(req.content) \in Settings
        /\ Toggled(req.content)[req.content] = ~fpga[req.content]
    BY <1>1, SettingsKept, SettingFields DEF Toggled
  <2>2. /\ pc = "restore" /\ req' = req /\ unrestored' = (pc' = "save" /\ fpga' = fpga)
        /\ Command(Toggled(req.content), "save")
    BY <1>11 DEF Restore
  <2>3. \/ pc' = "save" /\ fpga' = Toggled(req.content)
        \/ pc' = "save" /\ fpga' = fpga
        \/ pc' = "idle" /\ exit' = "error"
    BY <1>1, <2>1, <2>2, Commanding
  <2>4. fpga[req.content]
    BY <1>1, <2>2, BitIsSet DEF TriggerInv, SetAsAsked, Testing
  <2>5. CASE pc' = "save" /\ fpga' = Toggled(req.content)
    BY <2>1, <2>2, <2>4, <2>5 DEF BitRestored
  <2>6. CASE pc' = "save" /\ fpga' = fpga
    BY <2>2, <2>6 DEF BitRestored
  <2>7. CASE pc' = "idle" /\ exit' = "error"
    BY <1>2, <2>7
  <2> QED BY <2>3, <2>5, <2>6, <2>7
<1>12. CASE Save
  BY <1>3, <1>12 DEF Save
<1>13. CASE Wire \/ PacketDoubled
  BY <1>3, <1>13 DEF Wire, PacketArrives, PacketLost, PacketDoubled
<1>14. CASE UNCHANGED vars
  BY <1>3, <1>14 DEF vars
<1> QED
  BY <1>4, <1>5, <1>6, <1>7, <1>8, <1>9, <1>10, <1>11, <1>12, <1>13, <1>14 DEF Next, Host

\* The inductive invariant behind SuccessRestoresContent.
LEMMA Restored == Spec => []RestoreInv
<1>1. Init => RestoreInv
  <2>1. Init => BitRestored
    BY DEF Init, BitRestored, Saved
  <2> QED BY <2>1, TriggerInit DEF RestoreInv
<1>2. RestoreInv /\ [Next]_vars => RestoreInv'
  BY TriggerNext, RestoreNext DEF RestoreInv
<1> QED BY <1>1, <1>2, PTL DEF Spec

\* Toggling a bit flips it, and twice is not at all.
LEMMA Flipping ==
  ASSUME NEW f \in Settings, NEW bit \in Contents
  PROVE  /\ Bits([f EXCEPT ![bit] = ~@]) = Promise!Flipped(Bits(f), bit)
         /\ Promise!Flipped(Promise!Flipped(Bits(f), bit), bit) = Bits(f)
<1>1. bit = "random" \/ bit = "constant"
  BY DEF Contents, Promise!Contents
<1>2. CASE bit = "random"
  BY <1>2 DEF Settings, Bits, Promise!Flipped, Contents, Promise!Contents
<1>3. CASE bit = "constant"
  BY <1>3 DEF Settings, Bits, Promise!Flipped, Contents, Promise!Contents
<1> QED BY <1>1, <1>2, <1>3

\* The same for the bits a run found.
LEMMA FlippedTwice ==
  ASSUME NEW b \in [Contents -> BOOLEAN], NEW bit \in Contents
  PROVE  Promise!Flipped(Promise!Flipped(b, bit), bit) = b
  BY DEF Promise!Flipped, Contents, Promise!Contents

\* After one toggle the content is the one asked for exactly if nothing was in the way.
LEMMA AsAskedUnlessBlocked ==
  ASSUME TypeOK, Bits(fpga) = Once
  PROVE  ContentOf(fpga) = req.content <=> ~Promise!Blocked(start, req.content)
<1>1. req.content = "random" \/ req.content = "constant"
  BY DEF TypeOK, Requests, Contents, Promise!Contents
<1>2. /\ start \in [Contents -> BOOLEAN] /\ Contents = {"random", "constant"}
      /\ fpga.random \in BOOLEAN /\ fpga.constant \in BOOLEAN
  BY DEF TypeOK, Contents, Promise!Contents, Settings
<1>3. Bits(fpga)["random"] = fpga.random /\ Bits(fpga)["constant"] = fpga.constant
  BY <1>2 DEF Bits
<1>4. CASE req.content = "random"
  <2>1. Once["random"] = ~start["random"]
    BY <1>2, <1>4 DEF Once, Promise!Flipped
  <2>2. fpga.random = ~start["random"]
    BY <1>3, <2>1
  <2> QED BY <1>2, <1>4, <2>2 DEF ContentOf, Promise!Blocked
<1>5. CASE req.content = "constant"
  <2>1. Once["constant"] = ~start["constant"] /\ Once["random"] = start["random"]
    BY <1>2, <1>5 DEF Once, Promise!Flipped
  <2>2. fpga.constant = ~start["constant"] /\ fpga.random = start["random"]
    BY <1>3, <2>1
  <2> QED BY <1>2, <1>5, <2>2 DEF ContentOf, Promise!Blocked
<1> QED BY <1>1, <1>4, <1>5

\* A run toggles the bit of its mode once before the test and once after it.
LEMMA TogglesNext == ToggleInv /\ [Next]_vars => TogglesCounted'
<1> SUFFICES ASSUME ToggleInv, [Next]_vars PROVE TogglesCounted'
  OBVIOUS
<1> USE DEF Setting, Testing, ending, marks
<1>1. /\ TypeOK /\ TriggerInv /\ SetAsAsked /\ TogglesCounted
      /\ fpga \in Settings /\ req.content \in Contents /\ req \in Requests
      /\ start \in [Contents -> BOOLEAN] /\ trouble \in BOOLEAN
      /\ req.count \in Counts /\ req.payload \in Payloads
  BY DEF ToggleInv, TriggerInv, TypeOK, Requests
<1>2. ASSUME pc' = "idle" PROVE TogglesCounted'
  BY <1>2 DEF TogglesCounted
<1>3. ASSUME Bits(fpga)' = Bits(fpga), UNCHANGED <<req, start>>,
             \/ pc' = pc
             \/ pc' \in Setting /\ pc \in Setting
             \/ pc' \in Testing /\ pc \in Testing,
             trouble' = trouble \/ trouble' = TRUE
      PROVE  TogglesCounted'
  <2>1. Once' = Once
    BY <1>3 DEF Once
  <2> QED BY <1>1, <1>3, <2>1 DEF TogglesCounted
<1>4. ASSUME NEW r \in Requests, StartRun(r) PROVE TogglesCounted'
  <2>1. pc' = "loopback" /\ start' = Bits(fpga) /\ fpga' = fpga
    BY <1>4 DEF StartRun
  <2>2. Bits(fpga)' = start'
    BY <2>1 DEF Bits
  <2> QED BY <2>1, <2>2 DEF TogglesCounted
<1>5. CASE LeaveLoopback
  <2>1. PICK b \in BOOLEAN : fpga' = [fpga EXCEPT !.loopback = b]
    BY <1>1, <1>5, Leaving
  <2>2. Bits(fpga') = Bits(fpga) /\ UNCHANGED <<req, start>> /\ pc = "loopback"
    BY <1>1, <1>5, <2>1, SettingFields DEF LeaveLoopback
  <2>3. pc' = "idle" \/ (pc' = "pktn" /\ trouble' = trouble)
    BY <1>1, <1>5, Leaving
  <2> QED BY <1>2, <1>3, <2>2, <2>3
<1>6. CASE Configure /\ pc \in {"pktn", "mtu"}
  <2>1. /\ [fpga EXCEPT !.pktn = req.count] \in Settings
        /\ [fpga EXCEPT !.mtu = req.payload] \in Settings
    BY <1>1, SettingsKept
  <2>2. PICK g \in Settings, next \in {"mtu", "content"} :
          Command(g, next) /\ Bits(g) = Bits(fpga)
    BY <1>1, <1>6, <2>1, SettingFields DEF Configure
  <2>3. UNCHANGED <<req, start>> /\ Bits(fpga') = Bits(fpga)
    BY <1>1, <1>6, <2>2, Commanding DEF Configure
  <2>4. pc' = "idle" \/ (pc' \in Setting /\ (trouble' = trouble \/ trouble' = TRUE))
    BY <1>1, <2>2, Commanding
  <2> QED BY <1>2, <1>3, <1>6, <2>3, <2>4
<1>7. CASE Configure /\ pc = "content"
  <2>1. /\ Toggled(req.content) \in Settings
        /\ Bits(Toggled(req.content)) = Promise!Flipped(Bits(fpga), req.content)
    BY <1>1, SettingsKept, Flipping DEF Toggled
  <2>2. Command(Toggled(req.content), "verify") /\ UNCHANGED <<req, start>>
    BY <1>7 DEF Configure
  <2>3. \/ pc' = "verify" /\ fpga' = Toggled(req.content) /\ trouble' = trouble
        \/ pc' = "verify" /\ fpga' = fpga /\ trouble' = TRUE
        \/ pc' = "idle"
    BY <1>1, <2>1, <2>2, Commanding
  <2>4. Bits(fpga) = start /\ Once' = Once
    BY <1>1, <1>7, <2>2 DEF TogglesCounted, Once
  <2>5. Bits(Toggled(req.content)) = Once
    BY <2>1, <2>4 DEF Once
  <2>6. CASE pc' = "verify" /\ fpga' = Toggled(req.content)
    <3>1. Bits(fpga') = Once
      BY <2>5, <2>6
    <3> QED BY <2>4, <2>6, <3>1 DEF TogglesCounted
  <2>7. CASE pc' = "verify" /\ fpga' = fpga /\ trouble' = TRUE
    <3>1. Bits(fpga') = start /\ start' = start
      BY <2>2, <2>4, <2>7
    <3> QED BY <2>4, <2>7, <3>1 DEF TogglesCounted
  <2> QED BY <1>2, <2>3, <2>6, <2>7
<1>8. CASE Verify
  <2>1. UNCHANGED <<fpga, req, start>> /\ pc = "verify"
    BY <1>8 DEF Verify
  <2>2. pc' = "idle" \/ (pc' = "before" /\ trouble' = trouble /\ AsAsked)
    BY <1>8 DEF Verify, Quit
  <2>3. Bits(fpga') = Bits(fpga) /\ Once' = Once
    BY <2>1 DEF Once
  <2>4. AsAsked /\ ~trouble => ~Promise!Blocked(start, req.content)
    <3> SUFFICES ASSUME AsAsked, ~trouble PROVE ~Promise!Blocked(start, req.content)
      OBVIOUS
    <3>1. Bits(fpga) = Once /\ ContentOf(fpga) = req.content
      BY <1>1, <2>1 DEF TogglesCounted, AsAsked
    <3> QED BY <1>1, <3>1, AsAskedUnlessBlocked
  <2>5. Promise!Blocked(start, req.content)' <=> Promise!Blocked(start, req.content)
    BY <2>1 DEF Promise!Blocked
  <2> QED BY <1>1, <1>2, <2>1, <2>2, <2>3, <2>4, <2>5 DEF TogglesCounted
<1>9. CASE Snapshots \/ Trigger
  <2>1. UNCHANGED <<fpga, req, start>> /\ pc \in Testing
    BY <1>9 DEF Snapshots, Trigger
  <2>2. pc' = "idle" \/ (pc' \in Testing /\ (trouble' = trouble \/ trouble' = TRUE))
    BY <1>9 DEF Snapshots, Trigger, Quit
  <2>3. Bits(fpga)' = Bits(fpga)
    BY <2>1
  <2> QED BY <1>2, <1>3, <2>1, <2>2, <2>3
<1>10. CASE ReceivePacket \/ ReceivePoll \/ AllReceived \/ ReceiveFails \/ ExtraDrain
  <2>1. UNCHANGED <<fpga, req, start, trouble>> /\ pc \in Testing /\ pc' \in Testing
    BY <1>10 DEF ReceivePacket, ReceivePoll, AllReceived, ReceiveFails, ExtraDrain
  <2>2. Bits(fpga)' = Bits(fpga)
    BY <2>1
  <2> QED BY <1>3, <2>1, <2>2
<1>11. CASE Restore
  <2>1. /\ Toggled(req.content) \in Settings
        /\ Bits(Toggled(req.content)) = Promise!Flipped(Bits(fpga), req.content)
    BY <1>1, SettingsKept, Flipping DEF Toggled
  <2>2. Command(Toggled(req.content), "save") /\ UNCHANGED <<req, start>> /\ pc = "restore"
    BY <1>11 DEF Restore
  <2>3. \/ pc' = "save" /\ fpga' = Toggled(req.content) /\ trouble' = trouble
        \/ pc' = "save" /\ fpga' = fpga /\ trouble' = TRUE
        \/ pc' = "idle"
    BY <1>1, <2>1, <2>2, Commanding
  <2>4. /\ Bits(fpga) \in {start, Once} /\ Once' = Once
        /\ ~trouble => Bits(fpga) = Once /\ ~Promise!Blocked(start, req.content)
    BY <1>1, <2>2 DEF TogglesCounted, Once
  <2>5. Promise!Flipped(Once, req.content) = start /\ Promise!Flipped(start, req.content) = Once
    BY <1>1, FlippedTwice DEF Once
  <2>6. CASE pc' = "save" /\ fpga' = Toggled(req.content) /\ trouble' = trouble
    <3>1. Bits(fpga') \in {start, Once} /\ (~trouble => Bits(fpga') = start)
      BY <2>1, <2>4, <2>5, <2>6
    <3>2. Promise!Blocked(start, req.content)' <=> Promise!Blocked(start, req.content)
      BY <2>2 DEF Promise!Blocked
    <3> QED BY <2>2, <2>4, <2>6, <3>1, <3>2 DEF TogglesCounted
  <2>7. CASE pc' = "save" /\ fpga' = fpga /\ trouble' = TRUE
    <3>1. Bits(fpga') \in {start', Once'}
      BY <2>2, <2>4, <2>7
    <3> QED BY <2>7, <3>1 DEF TogglesCounted
  <2> QED BY <1>2, <2>3, <2>6, <2>7
<1>12. CASE Save
  BY <1>2, <1>12 DEF Save, Quit
<1>13. CASE Wire \/ PacketDoubled
  <2>1. UNCHANGED <<fpga, req, start, trouble, pc>>
    BY <1>13 DEF Wire, PacketArrives, PacketLost, PacketDoubled
  <2>2. Bits(fpga)' = Bits(fpga)
    BY <2>1
  <2> QED BY <1>3, <2>1, <2>2
<1>14. CASE UNCHANGED vars
  <2>1. UNCHANGED <<fpga, req, start, trouble, pc>>
    BY <1>14 DEF vars
  <2>2. Bits(fpga)' = Bits(fpga)
    BY <2>1
  <2> QED BY <1>3, <2>1, <2>2
<1>15. CASE Configure
  BY <1>6, <1>7, <1>15 DEF Configure
<1> QED
  BY <1>4, <1>5, <1>8, <1>9, <1>10, <1>11, <1>12, <1>13, <1>14, <1>15 DEF Next, Host

\* The inductive invariant behind EndsAsPromised.
LEMMA TogglesInit == Init => ToggleInv
<1>1. Init => TogglesCounted
  BY DEF Init, TogglesCounted, Setting, Testing
<1> QED BY <1>1, TriggerInit DEF ToggleInv

\* It is kept by every step.
LEMMA ToggleInvNext == ToggleInv /\ [Next]_vars => ToggleInv'
  BY TriggerNext, TogglesNext DEF ToggleInv

\* A step that ends a run leaves what TestOutcomes says of it.
LEMMA RunEndsAsPromised ==
  ASSUME ToggleInv, Next, pc # "idle", pc' = "idle"
  PROVE  IF trouble'
           THEN <<IF exit' = "ok" THEN 0 ELSE 1, Bits(fpga')>>
                  \in Promise!TroubledTx(start, req.content)
           ELSE <<IF exit' = "ok" THEN 0 ELSE 1, Bits(fpga')>>
                  = Promise!UntroubledTx(start, req.content)
<1> USE DEF Setting, Testing, ending
<1>1. /\ TypeOK /\ SetAsAsked /\ TogglesCounted
      /\ fpga \in Settings /\ Bits(fpga) \in {start, Once}
  BY DEF ToggleInv, TriggerInv, TypeOK, TogglesCounted
<1>2. Bits(fpga') = Bits(fpga)
  <2>1. CASE LeaveLoopback
    <3>1. PICK b \in BOOLEAN : fpga' = [fpga EXCEPT !.loopback = b]
      BY <1>1, <2>1, Leaving
    <3> QED BY <1>1, <3>1, SettingFields
  <2>2. CASE ~LeaveLoopback
    <3>1. fpga' = fpga
      <4>1. CASE Configure
        BY <4>1 DEF Configure, Command, Quit
      <4>2. CASE Restore
        BY <4>2 DEF Restore, Command, Quit
      <4>3. CASE Verify \/ Snapshots \/ Trigger \/ Save
        BY <4>3 DEF Verify, Snapshots, Trigger, Save
      <4>4. CASE ReceivePacket \/ ReceivePoll \/ AllReceived \/ ReceiveFails \/ ExtraDrain
        BY <4>4 DEF ReceivePacket, ReceivePoll, AllReceived, ReceiveFails, ExtraDrain
      <4>5. CASE Wire \/ PacketDoubled
        BY <4>5 DEF Wire, PacketArrives, PacketLost, PacketDoubled
      <4> QED BY <2>2, <4>1, <4>2, <4>3, <4>4, <4>5 DEF Next, Host, StartRun
    <3> QED BY <3>1
  <2> QED BY <2>1, <2>2
<1>3. CASE trouble'
  <2>1. Bits(fpga') \in {start, Once}
    BY <1>1, <1>2
  <2> QED BY <1>3, <2>1 DEF Promise!TroubledTx, Once
<1>4. CASE ~trouble'
  <2>1. \/ pc = "verify" /\ ~AsAsked /\ exit' = "error" /\ ~trouble
        \/ pc = "save" /\ exit' = "ok" /\ ~trouble
    <3>1. CASE LeaveLoopback
      BY <1>1, <1>4, <3>1, Leaving
    <3>2. CASE Configure
      BY <1>4, <3>2 DEF Configure, Command, Quit
    <3>3. CASE Verify \/ Snapshots
      BY <1>4, <3>3 DEF Verify, Snapshots, Quit
    <3>4. CASE Trigger \/ Save
      BY <1>4, <3>4 DEF Trigger, Save, Quit
    <3>5. CASE Restore
      BY <1>4, <3>5 DEF Restore, Command, Quit
    <3>6. CASE ReceivePacket \/ ReceivePoll \/ AllReceived \/ ReceiveFails \/ ExtraDrain
      BY <3>6 DEF ReceivePacket, ReceivePoll, AllReceived, ReceiveFails, ExtraDrain
    <3>7. CASE Wire \/ PacketDoubled
      BY <3>7 DEF Wire, PacketArrives, PacketLost, PacketDoubled
    <3> QED BY <3>1, <3>2, <3>3, <3>4, <3>5, <3>6, <3>7 DEF Next, Host, StartRun
  <2>2. CASE pc = "verify" /\ ~AsAsked /\ exit' = "error" /\ ~trouble
    <3>1. Bits(fpga) = Once /\ ContentOf(fpga) # req.content
      BY <1>1, <2>2 DEF TogglesCounted, SetAsAsked, AsAsked
    <3>2. Promise!Blocked(start, req.content)
      BY <1>1, <3>1, AsAskedUnlessBlocked
    <3> QED BY <1>2, <1>4, <2>2, <3>1, <3>2 DEF Promise!UntroubledTx, Once
  <2>3. CASE pc = "save" /\ exit' = "ok" /\ ~trouble
    <3>1. Bits(fpga) = start /\ ~Promise!Blocked(start, req.content)
      BY <1>1, <2>3 DEF TogglesCounted
    <3> QED BY <1>2, <1>4, <2>3, <3>1 DEF Promise!UntroubledTx
  <2> QED BY <2>1, <2>2, <2>3
<1> QED BY <1>3, <1>4

-----------------------------------------------------------------------------
\* Every variable keeps its type, for any counts, payloads, bounds and faults.
THEOREM TypeCorrect == Spec => []TypeOK
<1>1. TriggerInv => TypeOK
  BY DEF TriggerInv
<1> QED BY <1>1, TriggerInit, TriggerNext, PTL DEF Spec

\* Whatever became of the commands, and of those of earlier runs, the FPGA is triggered
\* only as verify_fpga_tx_config found it: as asked, and out of loopback.
THEOREM TriggersAsAsked == Spec => TriggeredAsAsked
<1>1. TriggerInv /\ [Next]_vars =>
        [pc = "trigger" /\ air' > air =>
           /\ ~fpga.loopback
           /\ fpga.pktn = req.count /\ fpga.mtu = req.payload
           /\ ContentOf(fpga) = req.content]_vars
  BY DEF TriggerInv, SetAsAsked, Testing, AsAsked
<1> QED BY <1>1, TriggerInit, TriggerNext, PTL DEF Spec, TriggeredAsAsked

\* For any number of packets and faults: a saved row understates the packets lost by no
\* more than the packets too many, and overstates them only when the test of
\* fpga_tx_test.c stopped listening with packets on the wire.
THEOREM RowsReportLosses == Spec => []RowReportsLosses
<1>1. LossInv => RowReportsLosses
  <2> SUFFICES ASSUME LossInv, Saved
               PROVE  gone <= row.lost + surplus /\ (~early => row.lost <= gone)
    BY DEF RowReportsLosses, Saved
  <2>1. /\ air \in Nat /\ queue \in Nat /\ received \in Nat /\ gone \in Nat
        /\ surplus \in Nat /\ req.count \in Nat /\ PacketsAccounted
    BY Numbers DEF LossInv, TriggerInv, TypeOK, Requests
  <2>2. row.lost = IF received <= req.count THEN req.count - received ELSE 0
    BY <2>1 DEF PacketsAccounted
  <2>3. /\ gone + received + queue + air <= req.count + surplus
        /\ ~early => gone + received >= req.count
    BY <2>1 DEF PacketsAccounted
  <2> QED BY <2>1, <2>2, <2>3
<1> QED BY <1>1, Losses, PTL

\* A test that succeeded leaves the content bit it used off, if its last command arrived.
THEOREM ContentRestored == Spec => []SuccessRestoresContent
<1>1. RestoreInv => SuccessRestoresContent
  BY DEF RestoreInv, BitRestored, Saved, SuccessRestoresContent
<1> QED BY <1>1, Restored, PTL

\* What a run of main.c leaves to the next one is settled by what it found, unless a
\* command was lost or a step failed; this is what Sweep takes for granted of a run.
THEOREM KeepsPromise == Spec => EndsAsPromised
<1>1. ToggleInv /\ [Next]_vars =>
        [pc # "idle" /\ pc' = "idle" =>
           LET end == <<IF exit' = "ok" THEN 0 ELSE 1, Bits(fpga')>>
           IN IF trouble' THEN end \in Promise!TroubledTx(start, req.content)
                          ELSE end = Promise!UntroubledTx(start, req.content)]_vars
  BY RunEndsAsPromised
<1> QED BY <1>1, TogglesInit, ToggleInvNext, PTL DEF Spec, EndsAsPromised
=============================================================================
