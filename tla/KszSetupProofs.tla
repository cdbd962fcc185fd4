--------------------------- MODULE KszSetupProofs ---------------------------
(***************************************************************************)
(* For any timeout, any number of runs and any number of lost writes: what *)
(* KszSetup may leave in the PHY, and what reading it back is worth.       *)
(***************************************************************************)
EXTENDS KszSetup, FiniteSetTheorems, TLAPS

\* The place in the code agrees with the command and the operation it is at.
PlaceAgrees ==
  /\ op <= Len(Ops) + 1
  /\ pc \in {"probe", "poll", "pin"} => command \in {"arp", "setup"} /\ op = 1
  /\ pc = "await" => op <= Len(Ops) /\ Ops[op].kind = "r"
  /\ pc # "await" => got = NoAnswer
  /\ pc = "idle" /\ exit = "ok" => op = Len(Ops) + 1
  /\ since.lost <= spent /\ now.lost <= spent

PlaceInv == TypeOK /\ PlaceAgrees

\* Every write of this run was taken by the PHY, or none can have been.
Delivered == now.lost = 0 /\ ~now.astray
Unanswered == permanent /\ neigh # "good"

\* A permanent entry is what it was when the run began, so one that let a write go
\* astray lets nothing through.
AstrayStays == command = "check" /\ permanent /\ now.astray => Unanswered

\* How far the writes of a "check" have come.
CheckArrives ==
  command = "check" /\ Delivered =>
    /\ op = 2 => ctrl = AddressMode
    /\ op = 3 => ctrl = AddressMode /\ addr = target
    /\ op >= 4 => ctrl = DataMode /\ addr = target

\* The answers that may end the read, and the one that did, tell what the register holds.
Reads(a) == a.reg = "data" => ~Unanswered /\ a.value = mmd[target]

AnswersAreTrue ==
  command = "check" /\ ~leftover /\ now.lost = 0 /\ (permanent \/ ~now.astray) =>
    /\ pc = "await" => Reads(got) /\ \A a \in air : Reads(a)
    /\ Reads(seen)

\* Nothing is printed before the read has ended.
PrintedLast == command = "check" /\ op <= 4 => seen = NoAnswer

\* Who answers a read through a pinned entry is the FPGA.
AnswersAreTheFpgas ==
  command = "check" /\ permanent /\ ~leftover =>
    /\ pc = "await" /\ (got.reg = "data" \/ \E a \in air : a.reg = "data") => neigh = "good"
    /\ seen.reg = "data" => neigh = "good"

ReadInv == PlaceInv /\ AstrayStays /\ CheckArrives /\ AnswersAreTrue /\ PrintedLast

PinInv == ReadInv /\ AnswersAreTheFpgas

\* The first m registers of the set-up, and the wrong ones among them.
Earlier(m) == {Settings[n][1] : n \in 1..m}
WrongOf(m) == Wrong \cap Earlier(m)

\* Each lost write pays for two wrong registers.
Paid(S) == Cardinality(S) <= 2 * since.lost
PaidAhead(S) == Cardinality(S) + 2 <= 2 * since.lost

\* A set-up, after n registers: each register is right, or paid for; and so is the one
\* that the indirect access still points to if a write of this round was lost.
SetupIsPaid ==
  command = "setup" /\ pc # "idle" =>
    \A n \in 0..5 :
      /\ op = 4 * n + 1 => Paid(WrongOf(n))
      /\ op = 4 * n + 2 => \/ ctrl = AddressMode /\ Paid(WrongOf(n))
                          \/ PaidAhead(WrongOf(n))
      /\ op = 4 * n + 3 => \/ ctrl = AddressMode /\ addr = Settings[n + 1][1] /\ Paid(WrongOf(n))
                          \/ PaidAhead(WrongOf(n) \ {addr})
      /\ op = 4 * n + 4 => \/ ctrl = DataMode /\ addr = Settings[n + 1][1] /\ Paid(WrongOf(n))
                          \/ PaidAhead(WrongOf(n) \ {addr})

\* After it, a "check" can do damage only between its first two writes.
CheckIsPaid ==
  complete =>
    /\ Paid(Wrong)
    /\ command = "check" /\ pc # "idle" /\ op = 2 => ctrl = AddressMode \/ PaidAhead(Wrong)

DamageInv ==
  /\ PlaceInv
  /\ complete => ~(command = "setup" /\ pc # "idle")
  /\ ~since.astray => SetupIsPaid /\ CheckIsPaid

-----------------------------------------------------------------------------
(* The operations.                                                         *)

\* What config.h sets, as far as the proofs need to know: five distinct registers.
LEMMA SettingsKnown ==
  /\ Len(Settings) = 5 /\ DOMAIN Settings = 1..5 /\ Count = 20
  /\ \A n \in 1..5 : Settings[n][1] \in Registers /\ Settings[n][2] \in Words
  /\ \A n, m \in 1..5 : Settings[n][1] = Settings[m][1] => n = m
  /\ Registers \subseteq 0..8 /\ Registers \subseteq Words /\ 0 \in Registers
<1>1. Len(Settings) = 5 /\ DOMAIN Settings = 1..5
  BY DEF Settings
<1>2. \A n \in 1..5 : Settings[n][1] \in Registers /\ Settings[n][2] \in Words
  BY <1>1 DEF Registers, Words
<1>3. /\ Settings[1] = <<0, 24>> /\ Settings[2] = <<4, 252>> /\ Settings[3] = <<5, 32767>>
      /\ Settings[4] = <<6, 52428>> /\ Settings[5] = <<8, 76>>
  BY DEF Settings
<1>4. \A n \in 1..5 : n = 1 \/ n = 2 \/ n = 3 \/ n = 4 \/ n = 5
  OBVIOUS
<1>5. /\ Settings[1][1] = 0 /\ Settings[2][1] = 4 /\ Settings[3][1] = 5
      /\ Settings[4][1] = 6 /\ Settings[5][1] = 8
  BY <1>3
<1>6. \A n, m \in 1..5 : Settings[n][1] = Settings[m][1] => n = m
  BY <1>4, <1>5
<1>7. Registers \subseteq 0..8 /\ 0 \in Registers
  BY <1>1, <1>4, <1>5 DEF Registers
<1> QED BY <1>1, <1>2, <1>6, <1>7 DEF Count, Words

\* The value that each register is to have.
LEMMA GoalKnown ==
  ASSUME NEW n \in 1..5
  PROVE  Goal(Settings[n][1]) = Settings[n][2]
<1>1. \E m \in DOMAIN Settings : Settings[m][1] = Settings[n][1]
  BY SettingsKnown
<1> DEFINE m == CHOOSE m \in DOMAIN Settings : Settings[m][1] = Settings[n][1]
<1>2. m \in DOMAIN Settings /\ Settings[m][1] = Settings[n][1]
  BY <1>1
<1> HIDE DEF m
<1>3. m = n
  BY <1>2, SettingsKnown
<1> QED BY <1>3 DEF Goal, m

\* The operations of each command, one by one.
LEMMA ProgramKnown ==
  ASSUME TypeOK
  PROVE  /\ Len(Ops) \in Nat /\ Len(Ops) <= Count
         /\ command = "arp" => Len(Ops) = 0
         /\ command = "setup" => Len(Ops) = 20 /\ \A k \in 1..20 : Ops[k] = Op(k)
         /\ command = "check" => /\ Len(Ops) = 4 /\ Ops[1] = W("ctrl", AddressMode)
                                 /\ Ops[2] = W("data", target)
                                 /\ Ops[3] = W("ctrl", DataMode) /\ Ops[4] = R("data")
         /\ command = "peek" => Len(Ops) = 1 /\ Ops[1] = R("ctrl")
<1>1. command \in {"arp", "setup", "check", "peek"} /\ Count = 20
  BY SettingsKnown DEF TypeOK
<1>2. CASE command = "arp"
  BY <1>1, <1>2 DEF Ops, Program
<1>3. CASE command = "setup"
  <2>1. Ops = [k \in 1..20 |-> Op(k)]
    BY <1>1, <1>3 DEF Ops, Program
  <2>2. Len(Ops) = 20
    BY <2>1
  <2> QED BY <1>1, <1>3, <2>1, <2>2
<1>4. CASE command = "check"
  <2>1. Ops = <<W("ctrl", AddressMode), W("data", target), W("ctrl", DataMode), R("data")>>
    BY <1>4 DEF Ops, Program
  <2> QED BY <1>1, <1>4, <2>1
<1>5. CASE command = "peek"
  <2>1. Ops = <<R("ctrl")>>
    BY <1>5 DEF Ops, Program
  <2> QED BY <1>1, <1>5, <2>1
<1> QED BY <1>1, <1>2, <1>3, <1>4, <1>5

\* The k-th write of the set-up: which of the four, of which register.
LEMMA RoundKnown ==
  ASSUME NEW k \in 1..20
  PROVE  /\ (k - 1) \div 4 \in 0..4
         /\ k % 4 = 1 => Op(k) = W("ctrl", AddressMode)
         /\ k % 4 = 2 => Op(k) = W("data", Settings[((k - 1) \div 4) + 1][1])
         /\ k % 4 = 3 => Op(k) = W("ctrl", DataMode)
         /\ k % 4 = 0 => Op(k) = W("data", Settings[((k - 1) \div 4) + 1][2])
<1>1. (k - 1) \div 4 \in 0..4
  OBVIOUS
<1>2. k % 4 = 1 => Op(k) = W("ctrl", AddressMode)
  BY DEF Op
<1>3. k % 4 = 2 => Op(k) = W("data", Settings[((k - 1) \div 4) + 1][1])
  BY DEF Op
<1>4. k % 4 = 3 => Op(k) = W("ctrl", DataMode)
  BY DEF Op
<1>5. k % 4 = 0 => Op(k) = W("data", Settings[((k - 1) \div 4) + 1][2])
  BY DEF Op
<1> QED BY <1>1, <1>2, <1>3, <1>4, <1>5

\* What an operation may be.
LEMMA OperationType ==
  ASSUME TypeOK, NEW k \in 1..Len(Ops)
  PROVE  \/ \E v \in Modes : Ops[k] = W("ctrl", v)
         \/ \E v \in Words : Ops[k] = W("data", v)
         \/ \E r \in {"ctrl", "data"} : Ops[k] = R(r)
<1>1. /\ command \in {"arp", "setup", "check", "peek"} /\ target \in Words
      /\ AddressMode \in Modes /\ DataMode \in Modes
  BY SettingsKnown DEF TypeOK, Modes
<1>2. CASE command = "setup"
  <2>1. k \in 1..20 /\ Ops[k] = Op(k)
    BY <1>2, ProgramKnown
  <2>2. k % 4 = 0 \/ k % 4 = 1 \/ k % 4 = 2 \/ k % 4 = 3
    BY <2>1
  <2> DEFINE n == ((k - 1) \div 4) + 1
  <2>3. \/ Op(k) = W("ctrl", AddressMode)
        \/ Op(k) = W("data", Settings[n][1])
        \/ Op(k) = W("ctrl", DataMode)
        \/ Op(k) = W("data", Settings[n][2])
    <3>1. k % 4 = 1 => Op(k) = W("ctrl", AddressMode)
      BY <2>1, RoundKnown
    <3>2. k % 4 = 2 => Op(k) = W("data", Settings[n][1])
      BY <2>1, RoundKnown
    <3>3. k % 4 = 3 => Op(k) = W("ctrl", DataMode)
      BY <2>1, RoundKnown
    <3>4. k % 4 = 0 => Op(k) = W("data", Settings[n][2])
      BY <2>1, RoundKnown
    <3> QED BY <2>2, <3>1, <3>2, <3>3, <3>4
  <2>4. n \in 1..5
    BY <2>1, RoundKnown
  <2> HIDE DEF n
  <2> QED BY <1>1, <2>1, <2>3, <2>4, SettingsKnown
<1>3. CASE command = "check"
  <2>1. k = 1 \/ k = 2 \/ k = 3 \/ k = 4
    <3>1. Len(Ops) = 4
      BY <1>3, ProgramKnown
    <3> QED BY <3>1
  <2> QED BY <1>1, <1>3, <2>1, ProgramKnown
<1>4. CASE command \in {"arp", "peek"}
  <2>1. command = "peek" /\ k = 1
    <3>1. CASE command = "arp"
      <4>1. Len(Ops) = 0
        BY <3>1, ProgramKnown
      <4> QED BY <4>1
    <3>2. CASE command = "peek"
      <4>1. Len(Ops) = 1
        BY <3>2, ProgramKnown
      <4> QED BY <3>2, <4>1
    <3> QED BY <1>4, <3>1, <3>2
  <2> QED BY <2>1, ProgramKnown
<1> QED BY <1>1, <1>2, <1>3, <1>4

-----------------------------------------------------------------------------
(* Types, and the place in the code.                                       *)

\* The types, one by one.
LEMMA Types ==
  ASSUME TypeOK
  PROVE  /\ pc \in {"idle", "probe", "poll", "pin", "mdio", "await"}
         /\ command \in {"arp", "setup", "check", "peek"} /\ target \in Registers
         /\ polled \in Nat /\ polled <= Polls /\ runs \in Nat /\ runs <= MaxRuns
         /\ found \in {"none", "good", "stale"} /\ neigh \in {"none", "good", "stale"}
         /\ permanent \in BOOLEAN /\ complete \in BOOLEAN /\ leftover \in BOOLEAN
         /\ op \in Nat /\ 1 <= op /\ op <= Count + 1
         /\ ctrl \in Modes /\ addr \in Words /\ mmd \in [Words -> Words \cup {Unset}]
         /\ air \subseteq Answers /\ got \in Answers \cup {NoAnswer, Junk}
         /\ seen \in Answers \cup {NoAnswer} /\ exit \in {"none", "ok", "error"}
         /\ spent \in Nat /\ spent <= LossBudget
         /\ since \in [lost : 0..LossBudget, astray : BOOLEAN]
         /\ now \in [lost : 0..LossBudget, astray : BOOLEAN]
         /\ Polls \in Nat /\ MaxRuns \in Nat /\ LossBudget \in Nat /\ Count = 20
  BY SetupAssumption, SettingsKnown DEF TypeOK

\* What one more write does: to the PHY, or to the history of what became of the writes.
LEMMA WriteEffect ==
  ASSUME PlaceInv, Write
  PROVE  /\ pc = "mdio" /\ op \in 1..Len(Ops)
         /\ UNCHANGED <<command, target, arp, air, seen, leftover, runs, complete>>
         /\ \/ pc' = "idle" /\ exit' = "error" /\ got' = NoAnswer
               /\ UNCHANGED <<op, phy, history>>
            \/ /\ op' = op + 1 /\ UNCHANGED <<pc, exit, got>>
               /\ \/ /\ neigh = "good" /\ UNCHANGED <<addr, mmd, history>>
                     /\ \E v \in Modes : Ops[op] = W("ctrl", v) /\ ctrl' = v
                  \/ /\ neigh = "good" /\ UNCHANGED <<ctrl, history>>
                     /\ \E v \in Words :
                          /\ Ops[op] = W("data", v)
                          /\ \/ ctrl = AddressMode /\ addr' = v /\ mmd' = mmd
                             \/ /\ ctrl = DataMode /\ addr' = addr
                                /\ mmd' = [mmd EXCEPT ![addr] = v]
                  \/ /\ neigh = "good" /\ spent < LossBudget /\ spent' = spent + 1
                     /\ since' = [since EXCEPT !.lost = @ + 1]
                     /\ now' = [now EXCEPT !.lost = @ + 1] /\ UNCHANGED phy
                  \/ /\ neigh # "good" /\ spent' = spent
                     /\ since' = [since EXCEPT !.astray = TRUE]
                     /\ now' = [now EXCEPT !.astray = TRUE] /\ UNCHANGED phy
<1> USE DEF history, phy
<1>1. /\ pc = "mdio" /\ op \in 1..Len(Ops) /\ Ops[op].kind = "w"
      /\ UNCHANGED <<command, target, arp, air, seen, leftover, runs, complete>>
  BY Types, ProgramKnown DEF PlaceInv, Write
<1>2. \/ \E v \in Modes : Ops[op] = W("ctrl", v)
      \/ \E v \in Words : Ops[op] = W("data", v)
  <2>1. \A r : R(r).kind = "r"
    BY DEF R
  <2>2. TypeOK
    BY DEF PlaceInv
  <2> QED BY <1>1, <2>1, <2>2, OperationType
<1>3. CASE pc' = "idle" /\ exit' = "error" /\ got' = NoAnswer /\ UNCHANGED <<op, phy, history>>
  BY <1>1, <1>3
<1>4. CASE MdioWrite(Ops[op]) /\ op' = op + 1 /\ UNCHANGED <<pc, exit, got>>
  <2>1. CASE neigh = "good" /\ PhyWrites(Ops[op]) /\ UNCHANGED history
    <3>1. CASE \E v \in Modes : Ops[op] = W("ctrl", v)
      <4>1. PICK v \in Modes : Ops[op] = W("ctrl", v)
        BY <3>1
      <4>2. Ops[op].reg = "ctrl" /\ Ops[op].value = v
        BY <4>1 DEF W
      <4>3. ctrl' = v /\ UNCHANGED <<addr, mmd>>
        BY <2>1, <4>2 DEF PhyWrites
      <4> QED BY <1>1, <1>4, <2>1, <4>1, <4>3
    <3>2. CASE \E v \in Words : Ops[op] = W("data", v)
      <4>1. PICK v \in Words : Ops[op] = W("data", v)
        BY <3>2
      <4>2. Ops[op].reg = "data" /\ Ops[op].value = v
        BY <4>1 DEF W
      <4>3. ctrl = AddressMode \/ ctrl = DataMode
        BY Types DEF PlaceInv, Modes
      <4>4. /\ ctrl' = ctrl
            /\ \/ ctrl = AddressMode /\ addr' = v /\ mmd' = mmd
               \/ ctrl = DataMode /\ addr' = addr /\ mmd' = [mmd EXCEPT ![addr] = v]
        BY <2>1, <4>2, <4>3 DEF PhyWrites
      <4> QED BY <1>1, <1>4, <2>1, <4>1, <4>4
    <3> QED BY <1>2, <3>1, <3>2
  <2>2. CASE /\ neigh = "good" /\ spent < LossBudget /\ spent' = spent + 1
             /\ since' = [since EXCEPT !.lost = @ + 1]
             /\ now' = [now EXCEPT !.lost = @ + 1] /\ UNCHANGED phy
    BY <1>1, <1>4, <2>2
  <2>3. CASE /\ neigh # "good" /\ spent' = spent
             /\ since' = [since EXCEPT !.astray = TRUE]
             /\ now' = [now EXCEPT !.astray = TRUE] /\ UNCHANGED phy
    BY <1>1, <1>4, <2>3
  <2> QED BY <1>4, <2>1, <2>2, <2>3 DEF MdioWrite
<1> QED BY <1>3, <1>4 DEF Write, Quit, Ends

\* A write counts one more lost in all three places, or none.
LEMMA LossesCounted ==
  ASSUME PlaceInv, Write
  PROVE  /\ spent' \in 0..LossBudget
         /\ {since', now'} \subseteq [lost : 0..LossBudget, astray : BOOLEAN]
         /\ since'.lost <= spent' /\ now'.lost <= spent'
<1>1. /\ spent \in Nat /\ spent <= LossBudget /\ LossBudget \in Nat
      /\ since \in [lost : 0..LossBudget, astray : BOOLEAN]
      /\ now \in [lost : 0..LossBudget, astray : BOOLEAN]
      /\ since.lost <= spent /\ now.lost <= spent
  BY Types DEF PlaceInv, PlaceAgrees
<1>2. \/ UNCHANGED history
      \/ /\ spent < LossBudget /\ spent' = spent + 1
         /\ since' = [since EXCEPT !.lost = @ + 1]
         /\ now' = [now EXCEPT !.lost = @ + 1]
      \/ /\ spent' = spent
         /\ since' = [since EXCEPT !.astray = TRUE]
         /\ now' = [now EXCEPT !.astray = TRUE]
  BY WriteEffect
<1>3. CASE UNCHANGED history
  BY <1>1, <1>3 DEF history
<1>4. CASE /\ spent < LossBudget /\ spent' = spent + 1
           /\ since' = [since EXCEPT !.lost = @ + 1]
           /\ now' = [now EXCEPT !.lost = @ + 1]
  <2>1. /\ since'.lost = since.lost + 1 /\ since'.astray = since.astray
        /\ now'.lost = now.lost + 1 /\ now'.astray = now.astray
    BY <1>1, <1>4
  <2>2. since.lost + 1 \in 0..LossBudget /\ now.lost + 1 \in 0..LossBudget
    BY <1>1, <1>4
  <2>3. {since', now'} \subseteq [lost : 0..LossBudget, astray : BOOLEAN]
    BY <1>1, <1>4, <2>2
  <2> QED BY <1>1, <1>4, <2>1, <2>3
<1>5. CASE /\ spent' = spent
           /\ since' = [since EXCEPT !.astray = TRUE]
           /\ now' = [now EXCEPT !.astray = TRUE]
  <2>1. since'.lost = since.lost /\ now'.lost = now.lost
    BY <1>1, <1>5
  <2>2. {since', now'} \subseteq [lost : 0..LossBudget, astray : BOOLEAN]
    BY <1>1, <1>5
  <2>3. spent' \in 0..LossBudget
    BY <1>1, <1>5
  <2> QED BY <1>1, <1>5, <2>1, <2>2, <2>3
<1> QED BY <1>2, <1>3, <1>4, <1>5

\* Every step keeps the types.
LEMMA TypeNext == PlaceInv /\ [Next]_vars => TypeOK'
<1> SUFFICES ASSUME PlaceInv, [Next]_vars PROVE TypeOK'
  OBVIOUS
<1> USE DEF arp, phy, read, history
<1>1. TypeOK
  BY DEF PlaceInv
<1>2. ASSUME UNCHANGED <<command, target, phy, history, runs>>,
             pc' \in {"idle", "probe", "poll", "pin", "mdio", "await"},
             polled' \in 0..Polls,
             {found', neigh'} \subseteq {"none", "good", "stale"},
             {permanent', complete', leftover'} \subseteq BOOLEAN,
             op' \in 1..(Count + 1), air' \subseteq Answers,
             got' \in Answers \cup {NoAnswer, Junk}, seen' \in Answers \cup {NoAnswer},
             exit' \in {"none", "ok", "error"}
      PROVE  TypeOK'
  BY <1>1, <1>2 DEF TypeOK
<1>3. ASSUME NEW c \in {"arp", "setup", "check", "peek"}, NEW r \in Registers, StartRun(c, r)
      PROVE  TypeOK'
  <2>1. /\ command' = c /\ target' = r /\ pc' \in {"probe", "mdio"} /\ polled' = 0
        /\ found' = "none" /\ op' = 1 /\ exit' = "none" /\ seen' = NoAnswer /\ leftover' = FALSE
        /\ UNCHANGED <<neigh, permanent, phy, air, got, spent>>
    BY <1>3 DEF StartRun
  <2>2. runs' \in 0..MaxRuns /\ complete' \in BOOLEAN
    BY <1>1, <1>3, Types DEF StartRun
  <2>3. {since', now'} \subseteq [lost : 0..LossBudget, astray : BOOLEAN]
    <3>1. Clean \in [lost : 0..LossBudget, astray : BOOLEAN]
      BY <1>1, Types DEF Clean
    <3> QED BY <1>1, <1>3, <3>1, Types DEF StartRun
  <2>4. 0 \in 0..Polls /\ 1 \in 1..(Count + 1)
    BY <1>1, Types
  <2> QED BY <1>1, <2>1, <2>2, <2>3, <2>4 DEF TypeOK
<1>4. CASE Starts
  BY <1>3, <1>4, SettingsKnown, SetupAssumption DEF Starts
<1>5. CASE SendProbe \/ KernelLearns
  <2>1. /\ UNCHANGED <<command, target, phy, history, runs, polled, found, permanent, complete,
                       leftover, op, air, seen>>
        /\ pc' \in {pc, "poll", "idle"} /\ neigh' \in {neigh, "good"}
        /\ got' \in {got, NoAnswer} /\ exit' \in {exit, "error"}
    BY <1>5 DEF SendProbe, KernelLearns, Quit, Ends
  <2> QED BY <1>1, <1>2, <2>1 DEF TypeOK
<1>6. CASE PollArp
  <2>1. /\ UNCHANGED <<command, target, phy, history, runs, neigh, permanent, complete,
                       leftover, op, air, seen>>
        /\ pc' \in {pc, "pin", "idle"} /\ found' \in {found, neigh}
        /\ got' \in {got, NoAnswer} /\ exit' \in {exit, "error"}
    BY <1>6 DEF PollArp, Quit, Ends
  <2>2. polled' \in 0..Polls
    BY <1>1, <1>6, Types DEF PollArp
  <2> QED BY <1>1, <1>2, <2>1, <2>2 DEF TypeOK
<1>7. CASE PinArp
  <2>1. /\ UNCHANGED <<command, target, phy, history, runs, complete, leftover, op, air, seen>>
        /\ pc' \in {"mdio", "idle"} /\ found' = "none" /\ polled' = 0
        /\ neigh' \in {neigh, found} /\ permanent' \in {permanent, TRUE}
        /\ got' \in {got, NoAnswer} /\ exit' \in {exit, "error"}
    BY <1>7 DEF PinArp, Quit, Ends
  <2>2. 0 \in 0..Polls
    BY <1>1, Types
  <2> QED BY <1>1, <1>2, <2>1, <2>2 DEF TypeOK
<1>8. CASE Write
  <2>1. /\ UNCHANGED <<command, target, arp, air, seen, leftover, runs, complete>>
        /\ pc' \in {pc, "idle"} /\ got' \in {got, NoAnswer} /\ exit' \in {exit, "error"}
    BY <1>8, WriteEffect
  <2>2. op' \in 1..(Count + 1)
    <3>1. op' = op \/ (op' = op + 1 /\ op \in 1..Len(Ops))
      BY <1>8, WriteEffect
    <3>2. Len(Ops) \in Nat /\ Len(Ops) <= Count /\ Count \in Nat
      BY <1>1, ProgramKnown, Types
    <3>3. op \in 1..(Count + 1)
      BY <1>1, Types
    <3> QED BY <3>1, <3>2, <3>3
  <2>3. ctrl' \in Modes /\ addr' \in Words /\ mmd' \in [Words -> Words \cup {Unset}]
    <3>1. /\ \/ ctrl' = ctrl \/ ctrl' \in Modes
          /\ \/ addr' = addr \/ addr' \in Words
          /\ \/ mmd' = mmd \/ \E v \in Words : mmd' = [mmd EXCEPT ![addr] = v]
      BY <1>8, WriteEffect
    <3> QED BY <1>1, <3>1, Types
  <2>4. spent' \in 0..LossBudget
        /\ {since', now'} \subseteq [lost : 0..LossBudget, astray : BOOLEAN]
    BY <1>8, LossesCounted
  <2> QED BY <1>1, <2>1, <2>2, <2>3, <2>4 DEF TypeOK
<1>9. CASE SendRead
  <2>1. /\ UNCHANGED <<command, target, arp, phy, history, runs, complete, op, seen>>
        /\ pc' \in {"await", "idle"} /\ got' \in {got, NoAnswer} /\ exit' \in {exit, "error"}
        /\ leftover' \in BOOLEAN
    BY <1>9 DEF SendRead, Quit, Ends
  <2>2. air' \subseteq Answers
    <3>1. air' = air \/ air' = air \cup {[reg |-> Ops[op].reg, value |-> PhyHolds(Ops[op].reg)]}
      BY <1>9 DEF SendRead
    <3>2. op \in 1..Len(Ops) /\ Ops[op].kind = "r"
      BY <1>1, <1>9, Types, ProgramKnown DEF SendRead
    <3>3. \A r, v : W(r, v).kind = "w"
      BY DEF W
    <3>4. PICK r \in {"ctrl", "data"} : Ops[op] = R(r)
      BY <1>1, <3>2, <3>3, OperationType
    <3>5. Ops[op].reg = r
      BY <3>4 DEF R
    <3>6. PhyHolds(r) \in Modes \cup Words \cup {Unset}
      <4>1. ctrl = AddressMode \/ ctrl = DataMode
        BY <1>1, Types DEF Modes
      <4> QED BY <1>1, <4>1, Types DEF PhyHolds
    <3> QED BY <1>1, <3>1, <3>5, <3>6, Types DEF Answers
  <2> QED BY <1>1, <1>2, <2>1, <2>2 DEF TypeOK
<1>10. CASE EndRead
  <2>1. /\ UNCHANGED <<command, target, arp, phy, history, runs, complete, air, leftover>>
        /\ pc' \in {"mdio", "idle"} /\ got' = NoAnswer /\ exit' \in {exit, "error"}
        /\ seen' \in {seen} \cup Answers /\ op' \in {op, op + 1}
        /\ op' = op + 1 => pc = "await"
    BY <1>1, <1>10, Types DEF EndRead, Quit, Ends
  <2>2. op' \in 1..(Count + 1)
    <3>1. pc = "await" => op <= Len(Ops)
      BY DEF PlaceInv, PlaceAgrees
    <3>2. Len(Ops) \in Nat /\ Len(Ops) <= Count /\ Count \in Nat
      BY <1>1, ProgramKnown, Types
    <3>3. op \in 1..(Count + 1)
      BY <1>1, Types
    <3> QED BY <2>1, <3>1, <3>2, <3>3
  <2> QED BY <1>1, <1>2, <2>1, <2>2 DEF TypeOK
<1>11. CASE Complete
  <2>1. /\ UNCHANGED <<command, target, arp, phy, history, runs, air, leftover, seen, op>>
        /\ pc' = "idle" /\ got' = NoAnswer /\ exit' = "ok" /\ complete' \in BOOLEAN
    BY <1>1, <1>11, Types DEF Complete, Ends
  <2> QED BY <1>1, <1>2, <2>1 DEF TypeOK
<1>12. CASE (\E a \in air : AnswerArrives(a)) \/ StrayDatagram
  <2>1. /\ UNCHANGED <<pc, command, target, arp, phy, history, runs, leftover, seen, op, exit,
                       complete>>
        /\ air' \subseteq air /\ got' \in {got, Junk} \cup air
    BY <1>12 DEF AnswerArrives, StrayDatagram
  <2> QED BY <1>1, <1>2, <2>1 DEF TypeOK
<1>13. CASE UNCHANGED vars
  BY <1>1, <1>2, <1>13 DEF vars, TypeOK
<1> QED
  BY <1>4, <1>5, <1>6, <1>7, <1>8, <1>9, <1>10, <1>11, <1>12, <1>13 DEF Next, Setup

\* Every step keeps the place in agreement with the command.
LEMMA PlaceNext == PlaceInv /\ [Next]_vars => PlaceInv'
<1> SUFFICES ASSUME PlaceInv, [Next]_vars PROVE PlaceAgrees'
  BY TypeNext DEF PlaceInv
<1> USE DEF arp, phy, read, history
<1>1. TypeOK /\ op \in Nat /\ Len(Ops) \in Nat
  BY Types, ProgramKnown DEF PlaceInv
<1>2. ASSUME UNCHANGED <<command, target, op, since, now, spent>>,
             \/ pc' = "idle" /\ exit' = "error" /\ got' = NoAnswer
             \/ pc' = pc /\ exit' = exit /\ (got' = got \/ pc = "await")
             \/ pc \in {"probe", "poll"} /\ pc' \in {"poll", "pin"} /\ got' = got
             \/ pc = "pin" /\ pc' = "mdio" /\ got' = got
             \/ pc' = "await" /\ op <= Len(Ops) /\ Ops[op].kind = "r"
             \/ pc' = "idle" /\ op = Len(Ops) + 1 /\ got' = NoAnswer
      PROVE  PlaceAgrees'
  <2>1. Ops' = Ops
    BY <1>2 DEF Ops
  <2> QED BY <1>2, <2>1 DEF PlaceInv, PlaceAgrees
<1>3. ASSUME NEW c \in {"arp", "setup", "check", "peek"}, NEW r \in Registers, StartRun(c, r)
      PROVE  PlaceAgrees'
  <2>1. /\ pc = "idle" /\ got' = got /\ op' = 1 /\ command' = c /\ exit' = "none"
        /\ pc' = IF c \in {"arp", "setup"} THEN "probe" ELSE "mdio"
    BY <1>3 DEF StartRun
  <2>2. since'.lost <= spent' /\ now'.lost <= spent'
    <3>1. Clean.lost = 0 /\ spent' = spent /\ now' = Clean /\ since' \in {Clean, since}
      BY <1>3 DEF Clean, StartRun
    <3>2. 0 <= spent
      BY <1>1, Types
    <3> QED BY <3>1, <3>2 DEF PlaceInv, PlaceAgrees
  <2>3. Len(Ops') \in Nat
    <3>1. TypeOK'
      BY TypeNext
    <3>2. c = "arp" => Ops' = <<>>
      BY <2>1 DEF Ops, Program
    <3>3. c = "setup" => Ops' = [k \in 1..Count |-> Op(k)]
      BY <2>1 DEF Ops, Program
    <3>4. c = "check" => Ops' = <<W("ctrl", AddressMode), W("data", r),
                                  W("ctrl", DataMode), R("data")>>
      BY <1>3, <2>1 DEF Ops, Program, StartRun
    <3>5. c = "peek" => Ops' = <<R("ctrl")>>
      BY <2>1 DEF Ops, Program
    <3> QED BY <3>2, <3>3, <3>4, <3>5, SettingsKnown
  <2> QED BY <2>1, <2>2, <2>3 DEF PlaceInv, PlaceAgrees
<1>4. CASE Starts
  BY <1>3, <1>4, SettingsKnown, SetupAssumption DEF Starts
<1>5. CASE SendProbe \/ KernelLearns
  BY <1>2, <1>5 DEF SendProbe, KernelLearns, Quit, Ends
<1>6. CASE PollArp
  BY <1>2, <1>6 DEF PollArp, Quit, Ends
<1>7. CASE PinArp
  BY <1>2, <1>7 DEF PinArp, Quit, Ends
<1>8. CASE Write
  <2>1. since'.lost <= spent' /\ now'.lost <= spent'
    BY <1>8, LossesCounted
  <2>2. /\ pc = "mdio" /\ op \in 1..Len(Ops) /\ UNCHANGED <<command, target>>
        /\ \/ pc' = "idle" /\ exit' = "error" /\ got' = NoAnswer /\ op' = op
           \/ op' = op + 1 /\ UNCHANGED <<pc, exit, got>>
    BY <1>8, WriteEffect
  <2>3. Ops' = Ops
    BY <2>2 DEF Ops
  <2> QED BY <1>1, <2>1, <2>2, <2>3 DEF PlaceInv, PlaceAgrees
<1>9. CASE SendRead
  BY <1>2, <1>9 DEF SendRead, Quit, Ends
<1>10. CASE EndRead
  <2>1. /\ pc = "await" /\ got' = NoAnswer /\ UNCHANGED <<command, target, since, now, spent>>
        /\ \/ pc' = "mdio" /\ op' = op + 1 /\ exit' = exit
           \/ pc' = "idle" /\ exit' = "error" /\ op' = op
    BY <1>10 DEF EndRead, Quit, Ends
  <2>2. Ops' = Ops
    BY <2>1 DEF Ops
  <2> QED BY <1>1, <2>1, <2>2 DEF PlaceInv, PlaceAgrees
<1>11. CASE Complete
  BY <1>2, <1>11 DEF Complete, Ends
<1>12. CASE (\E a \in air : AnswerArrives(a)) \/ StrayDatagram
  BY <1>2, <1>12 DEF AnswerArrives, StrayDatagram
<1>13. CASE UNCHANGED vars
  BY <1>2, <1>13 DEF vars
<1> QED
  BY <1>4, <1>5, <1>6, <1>7, <1>8, <1>9, <1>10, <1>11, <1>12, <1>13 DEF Next, Setup

\* The start.
LEMMA PlaceInit == Init => PlaceInv
<1> SUFFICES ASSUME Init PROVE PlaceInv
  OBVIOUS
<1>1. TypeOK
  <2>1. /\ 0 \in Registers /\ 0 \in Words /\ Count = 20 /\ Polls \in Nat /\ MaxRuns \in Nat
        /\ LossBudget \in Nat /\ AddressMode \in Modes
    BY SettingsKnown, SetupAssumption DEF Modes
  <2>2. Clean \in [lost : 0..LossBudget, astray : BOOLEAN]
    BY <2>1 DEF Clean
  <2>3. mmd \in [Words -> Words \cup {Unset}]
    BY DEF Init
  <2>4. permanent \in BOOLEAN /\ neigh \in {"none", "good", "stale"}
    BY DEF Init
  <2>5. /\ {found, neigh} \subseteq {"none", "good", "stale"}
        /\ {permanent, complete, leftover} \subseteq BOOLEAN
        /\ {since, now} \subseteq [lost : 0..LossBudget, astray : BOOLEAN]
    BY <2>2, <2>4 DEF Init
  <2>6. /\ polled \in 0..Polls /\ op \in 1..(Count + 1) /\ runs \in 0..MaxRuns
        /\ spent \in 0..LossBudget
    BY <2>1 DEF Init
  <2> QED BY <2>1, <2>3, <2>5, <2>6 DEF Init, TypeOK
<1>2. PlaceAgrees
  <2>1. Len(Ops) \in Nat
    BY <1>1, ProgramKnown
  <2>2. Clean.lost = 0
    BY DEF Clean
  <2> QED BY <2>1, <2>2 DEF Init, PlaceAgrees
<1> QED BY <1>1, <1>2 DEF PlaceInv

-----------------------------------------------------------------------------
(* What reading back is worth.                                             *)

\* The variables that ReadInv is about stay, or the run ends badly.
LEMMA ReadStays ==
  ASSUME ReadInv, PlaceInv',
         UNCHANGED <<command, target, phy, seen, leftover, now, op, permanent, neigh>>,
         air' \subseteq air,
         pc' = "await" => pc = "await" /\ (got' = got \/ got' \in air \/ got' = Junk)
  PROVE  ReadInv'
<1> USE DEF phy
<1>1. \A a : Reads(a)' <=> Reads(a)
  BY DEF Reads, Unanswered
<1>2. AstrayStays'
  BY DEF ReadInv, AstrayStays, Unanswered
<1>3. CheckArrives'
  BY DEF ReadInv, CheckArrives, Delivered
<1>4. AnswersAreTrue'
  <2>1. SUFFICES ASSUME command = "check", ~leftover, now.lost = 0, permanent \/ ~now.astray
                 PROVE  /\ pc' = "await" => Reads(got)' /\ \A a \in air' : Reads(a)'
                        /\ Reads(seen)'
    BY DEF AnswersAreTrue
  <2>2. /\ pc = "await" => Reads(got) /\ \A a \in air : Reads(a)
        /\ Reads(seen)
    BY <2>1 DEF ReadInv, AnswersAreTrue
  <2>3. Reads(Junk)
    BY DEF Reads, Junk
  <2> QED BY <1>1, <2>2, <2>3 DEF Reads, Unanswered
<1> QED BY <1>2, <1>3, <1>4 DEF ReadInv, PrintedLast

\* ReadInv is about "check" alone.
LEMMA OtherCommands ==
  ASSUME PlaceInv', command' # "check"
  PROVE  ReadInv'
  BY DEF ReadInv, AstrayStays, CheckArrives, AnswersAreTrue, PrintedLast

\* A write keeps ReadInv.
LEMMA ReadWrite ==
  ASSUME ReadInv, PlaceInv', Write
  PROVE  ReadInv'
<1> USE DEF arp, phy, history
<1>1. /\ TypeOK /\ PlaceInv /\ now \in [lost : 0..LossBudget, astray : BOOLEAN]
      /\ LossBudget \in Nat /\ op \in Nat
  BY Types DEF ReadInv, PlaceInv
<1>2. /\ pc = "mdio" /\ op \in 1..Len(Ops)
      /\ UNCHANGED <<command, target, permanent, neigh, air, seen, leftover>>
  BY <1>1, WriteEffect
<1>3. CASE command # "check"
  BY <1>2, <1>3, OtherCommands
<1>4. CASE command = "check" /\ op' = op
  BY <1>1, <1>2, <1>4, WriteEffect, ReadStays
<1>5. CASE command = "check" /\ op' # op
  <2>1. op \in 1..3
    <3>1. Len(Ops) = 4 /\ Ops[4] = R("data")
      BY <1>1, <1>5, ProgramKnown
    <3>2. Ops[op].kind = "w"
      BY DEF Write
    <3>3. R("data").kind = "r"
      BY DEF R
    <3> QED BY <1>2, <3>1, <3>2, <3>3
  <2>2. /\ op' = op + 1 /\ UNCHANGED <<pc, got>>
        /\ \/ /\ neigh = "good" /\ UNCHANGED <<addr, mmd, now>>
              /\ \E v \in Modes : Ops[op] = W("ctrl", v) /\ ctrl' = v
           \/ /\ neigh = "good" /\ UNCHANGED <<ctrl, now>>
              /\ \E v \in Words :
                   /\ Ops[op] = W("data", v)
                   /\ \/ ctrl = AddressMode /\ addr' = v /\ mmd' = mmd
                      \/ ctrl = DataMode /\ addr' = addr /\ mmd' = [mmd EXCEPT ![addr] = v]
           \/ now' = [now EXCEPT !.lost = @ + 1] /\ UNCHANGED phy
           \/ neigh # "good" /\ now' = [now EXCEPT !.astray = TRUE] /\ UNCHANGED phy
    BY <1>1, <1>5, WriteEffect
  <2>3. seen = NoAnswer /\ PrintedLast'
    BY <1>2, <1>5, <2>1, <2>2 DEF ReadInv, PrintedLast
  <2>4. AnswersAreTrue'
    BY <1>2, <2>2, <2>3 DEF AnswersAreTrue, Reads, NoAnswer
  <2>5. AstrayStays'
    <3>1. now'.astray = now.astray \/ neigh # "good"
      BY <1>1, <2>2
    <3> QED BY <1>2, <3>1 DEF ReadInv, AstrayStays, Unanswered
  <2>6. CheckArrives'
    <3>1. CASE ~Delivered'
      BY <3>1 DEF CheckArrives
    <3>2. CASE Delivered'
      <4>1. /\ ~(now' = [now EXCEPT !.lost = @ + 1])
            /\ ~(now' = [now EXCEPT !.astray = TRUE])
        BY <1>1, <3>2 DEF Delivered
      <4>2. now' = now /\ Delivered
        BY <2>2, <3>2, <4>1 DEF Delivered
      <4>3. /\ op = 2 => ctrl = AddressMode
            /\ op = 3 => ctrl = AddressMode /\ addr = target
        BY <1>5, <4>2 DEF ReadInv, CheckArrives
      <4>4. /\ Ops[1] = W("ctrl", AddressMode) /\ Ops[2] = W("data", target)
            /\ Ops[3] = W("ctrl", DataMode)
        BY <1>1, <1>5, ProgramKnown
      <4>5. \A u, v : /\ W("ctrl", u) = W("ctrl", v) => u = v
                      /\ W("data", u) = W("data", v) => u = v
                      /\ W("ctrl", u) # W("data", v)
        <5>1. \A u, v : /\ W("ctrl", u).reg = "ctrl" /\ W("data", v).reg = "data"
                        /\ W("ctrl", u).value = u /\ W("data", v).value = v
          BY DEF W
        <5> QED BY <5>1
      <4>6. CASE op = 1
        <5>1. ctrl' = AddressMode
          BY <2>2, <4>1, <4>4, <4>5, <4>6
        <5> QED BY <1>1, <2>2, <4>6, <5>1 DEF CheckArrives
      <4>7. CASE op = 2
        <5>1. ctrl' = AddressMode /\ addr' = target
          BY <2>2, <4>1, <4>3, <4>4, <4>5, <4>7 DEF AddressMode, DataMode
        <5> QED BY <1>2, <2>2, <4>7, <5>1 DEF CheckArrives
      <4>8. CASE op = 3
        <5>1. ctrl' = DataMode /\ addr' = target
          BY <2>2, <4>1, <4>3, <4>4, <4>5, <4>8
        <5> QED BY <1>2, <2>2, <4>8, <5>1 DEF CheckArrives
      <4> QED BY <2>1, <4>6, <4>7, <4>8
    <3> QED BY <3>1, <3>2
  <2> QED BY <2>3, <2>4, <2>5, <2>6 DEF ReadInv
<1> QED BY <1>3, <1>4, <1>5

\* So does sending the read.
LEMMA ReadSent ==
  ASSUME ReadInv, PlaceInv', SendRead
  PROVE  ReadInv'
<1> USE DEF arp, phy, history
<1>1. /\ TypeOK /\ PlaceInv /\ pc = "mdio" /\ op <= Len(Ops) /\ op \in Nat /\ op >= 1
      /\ got = NoAnswer /\ ctrl \in Modes
      /\ UNCHANGED <<command, target, permanent, neigh, ctrl, addr, mmd, op, seen, now>>
      /\ leftover' = \E a \in air : a.reg = "data"
  BY Types DEF ReadInv, PlaceInv, PlaceAgrees, SendRead
<1>2. CASE command # "check"
  BY <1>1, <1>2, OtherCommands
<1>3. CASE command = "check"
  <2>1. op = 4 /\ Ops[op] = R("data")
    <3>1. /\ Len(Ops) = 4 /\ Ops[1] = W("ctrl", AddressMode) /\ Ops[2] = W("data", target)
          /\ Ops[3] = W("ctrl", DataMode) /\ Ops[4] = R("data")
      BY <1>1, <1>3, ProgramKnown
    <3>2. \A r, v : W(r, v).kind = "w"
      BY DEF W
    <3>3. Ops[op].kind = "r"
      BY DEF SendRead
    <3>4. op = 1 \/ op = 2 \/ op = 3 \/ op = 4
      BY <1>1, <3>1
    <3> QED BY <3>1, <3>2, <3>3, <3>4
  <2>2. seen = NoAnswer /\ PrintedLast'
    BY <1>1, <1>3, <2>1 DEF ReadInv, PrintedLast
  <2>3. AstrayStays' /\ CheckArrives'
    BY <1>1 DEF ReadInv, AstrayStays, CheckArrives, Unanswered, Delivered
  <2>4. AnswersAreTrue'
    <3>1. SUFFICES ASSUME ~leftover', now.lost = 0, permanent \/ ~now.astray, pc' = "await"
                   PROVE  Reads(got)' /\ \A a \in air' : Reads(a)'
      BY <1>1, <2>2 DEF AnswersAreTrue, Reads, NoAnswer
    <3>2. got' = NoAnswer
      BY <1>1, <3>1 DEF SendRead, Quit, Ends
    <3>3. \A a \in air : Reads(a)'
      BY <1>1, <3>1 DEF Reads
    <3>4. CASE air' = air
      BY <3>2, <3>3, <3>4 DEF Reads, NoAnswer
    <3>5. CASE neigh = "good"
               /\ air' = air \cup {[reg |-> Ops[op].reg, value |-> PhyHolds(Ops[op].reg)]}
      <4>1. Delivered
        BY <1>3, <3>1, <3>5 DEF ReadInv, AstrayStays, Unanswered, Delivered
      <4>2. ctrl = DataMode /\ addr = target
        BY <1>3, <2>1, <4>1 DEF ReadInv, CheckArrives
      <4>3. Ops[op].reg = "data"
        BY <2>1 DEF R
      <4>4. PhyHolds("data") = mmd[target]
        BY <4>2 DEF PhyHolds, AddressMode, DataMode
      <4>5. \A a : a = [reg |-> "data", value |-> mmd[target]] => Reads(a)'
        BY <1>1, <3>5 DEF Reads, Unanswered
      <4>6. \A a \in air' : a \in air \/ a = [reg |-> "data", value |-> mmd[target]]
        BY <3>5, <4>3, <4>4
      <4>7. Reads(got)'
        BY <3>2 DEF Reads, NoAnswer
      <4> QED BY <3>3, <4>5, <4>6, <4>7
    <3> QED BY <3>1, <3>4, <3>5 DEF SendRead, Quit, Ends
  <2> QED BY <2>2, <2>3, <2>4 DEF ReadInv
<1> QED BY <1>2, <1>3

\* Every step keeps ReadInv.
LEMMA ReadNext == ReadInv /\ [Next]_vars => ReadInv'
<1> SUFFICES ASSUME ReadInv, [Next]_vars PROVE ReadInv'
  OBVIOUS
<1> USE DEF arp, phy, read, history
<1>1. /\ TypeOK /\ PlaceInv /\ PlaceInv' /\ op \in Nat
  BY PlaceNext, Types DEF ReadInv, PlaceInv
<1>2. ASSUME NEW c, NEW r, StartRun(c, r)
      PROVE  ReadInv'
  <2>1. pc' # "await" /\ op' = 1 /\ now' = Clean /\ seen' = NoAnswer
    BY <1>2 DEF StartRun
  <2> QED BY <1>1, <2>1
      DEF ReadInv, AstrayStays, CheckArrives, AnswersAreTrue, PrintedLast, Clean, Reads, NoAnswer
<1>3. CASE Starts
  BY <1>2, <1>3 DEF Starts
<1>4. CASE SendProbe \/ PollArp \/ PinArp
  <2>1. command' # "check"
    BY <1>1, <1>4 DEF SendProbe, PollArp, PinArp, PlaceInv, PlaceAgrees
  <2> QED BY <1>1, <2>1, OtherCommands
<1>5. CASE KernelLearns
  <2>1. /\ ~permanent /\ permanent' = permanent
        /\ UNCHANGED <<pc, command, target, op, phy, read, now>>
    BY <1>5 DEF KernelLearns
  <2>2. \A a : Reads(a)' <=> Reads(a)
    BY <2>1 DEF Reads, Unanswered
  <2>3. AnswersAreTrue'
    BY <2>1, <2>2 DEF ReadInv, AnswersAreTrue, Reads
  <2>4. AstrayStays' /\ CheckArrives' /\ PrintedLast'
    BY <2>1 DEF ReadInv, AstrayStays, CheckArrives, Delivered, PrintedLast
  <2> QED BY <1>1, <2>3, <2>4 DEF ReadInv
<1>6. CASE Write
  BY <1>1, <1>6, ReadWrite
<1>7. CASE SendRead
  BY <1>1, <1>7, ReadSent
<1>8. CASE EndRead
  <2>1. CASE pc' = "idle"
    BY <1>1, <1>8, <2>1, ReadStays DEF EndRead, Quit, Ends
  <2>2. CASE pc' # "idle"
    <3>1. /\ pc = "await" /\ pc' = "mdio" /\ op' = op + 1 /\ seen' = got
          /\ UNCHANGED <<command, target, arp, phy, leftover, now>>
      BY <1>8, <2>2 DEF EndRead, Quit, Ends
    <3>2. command = "check" => op = 4
      <4>1. op <= Len(Ops) /\ op >= 1 /\ Ops[op].kind = "r"
        BY <1>1, <3>1, Types DEF PlaceInv, PlaceAgrees
      <4>2. \A r, v : W(r, v).kind = "w"
        BY DEF W
      <4>3. SUFFICES ASSUME command = "check" PROVE op = 4
        OBVIOUS
      <4>4. /\ Len(Ops) = 4 /\ Ops[1] = W("ctrl", AddressMode) /\ Ops[2] = W("data", target)
            /\ Ops[3] = W("ctrl", DataMode)
        BY <1>1, <4>3, ProgramKnown
      <4>5. op = 1 \/ op = 2 \/ op = 3 \/ op = 4
        BY <1>1, <4>1, <4>4
      <4> QED BY <4>1, <4>2, <4>4, <4>5
    <3>3. AnswersAreTrue'
      <4>1. \A a : Reads(a)' <=> Reads(a)
        BY <3>1 DEF Reads, Unanswered
      <4>2. command = "check" /\ ~leftover /\ now.lost = 0 /\ (permanent \/ ~now.astray)
              => Reads(got)
        BY <3>1 DEF ReadInv, AnswersAreTrue
      <4> QED BY <3>1, <4>1, <4>2 DEF AnswersAreTrue, Reads, Unanswered
    <3>4. AstrayStays' /\ PrintedLast'
      BY <1>1, <3>1, <3>2 DEF ReadInv, AstrayStays, Unanswered, PrintedLast
    <3>5. CheckArrives'
      BY <1>1, <3>1, <3>2 DEF ReadInv, CheckArrives, Delivered
    <3> QED BY <1>1, <3>3, <3>4, <3>5 DEF ReadInv
  <2> QED BY <2>1, <2>2
<1>9. CASE Complete
  BY <1>1, <1>9, ReadStays DEF Complete, Ends
<1>10. CASE (\E a \in air : AnswerArrives(a)) \/ StrayDatagram
  <2>1. /\ UNCHANGED <<command, target, phy, seen, leftover, now, op, permanent, neigh>>
        /\ air' \subseteq air
        /\ pc' = "await" => pc = "await" /\ (got' = got \/ got' \in air \/ got' = Junk)
    BY <1>10 DEF AnswerArrives, StrayDatagram
  <2> QED BY <1>1, <2>1, ReadStays
<1>11. CASE UNCHANGED vars
  BY <1>1, <1>11, ReadStays DEF vars
<1> QED
  BY <1>3, <1>4, <1>5, <1>6, <1>7, <1>8, <1>9, <1>10, <1>11 DEF Next, Setup

-----------------------------------------------------------------------------
(* Who answers.                                                            *)

\* An answer comes into flight while the entry is the FPGA's, and a pinned one stays.
LEMMA PinNext == PinInv /\ [Next]_vars => PinInv'
<1> SUFFICES ASSUME PinInv, [Next]_vars PROVE AnswersAreTheFpgas'
  BY ReadNext DEF PinInv
<1> USE DEF arp, phy, read, history, AnswersAreTheFpgas
<1>1. TypeOK /\ PlaceAgrees /\ PrintedLast /\ AnswersAreTheFpgas
  BY DEF PinInv, ReadInv, PlaceInv
<1>2. ASSUME NEW c, NEW r, StartRun(c, r) PROVE AnswersAreTheFpgas'
  <2>1. pc' # "await" /\ seen'.reg # "data"
    BY <1>2 DEF StartRun, NoAnswer
  <2> QED BY <2>1
<1>3. CASE Starts
  BY <1>2, <1>3 DEF Starts
<1>4. CASE SendProbe \/ PollArp \/ PinArp
  <2>1. command' # "check"
    BY <1>1, <1>4 DEF SendProbe, PollArp, PinArp, PlaceAgrees
  <2> QED BY <2>1
<1>5. CASE KernelLearns
  BY <1>1, <1>5 DEF KernelLearns
<1>6. CASE Write
  BY <1>1, <1>6 DEF Write, Quit, Ends
<1>7. CASE SendRead
  <2>1. /\ UNCHANGED <<command, permanent, neigh, seen>> /\ got.reg # "data"
        /\ leftover' = \E a \in air : a.reg = "data"
        /\ pc' = "await" => got' = got
    BY <1>1, <1>7 DEF SendRead, Quit, Ends, PlaceAgrees, NoAnswer
  <2>2. ASSUME command = "check" PROVE seen.reg # "data"
    <3>1. op <= 4
      BY <1>1, <1>7, <2>2, ProgramKnown DEF SendRead
    <3> QED BY <1>1, <2>2, <3>1 DEF PrintedLast, NoAnswer
  <2> QED BY <1>1, <1>7, <2>1, <2>2 DEF SendRead
<1>8. CASE EndRead
  BY <1>1, <1>8 DEF EndRead, Quit, Ends
<1>9. CASE Complete
  BY <1>1, <1>9 DEF Complete, Ends
<1>10. CASE (\E a \in air : AnswerArrives(a)) \/ StrayDatagram
  <2>1. /\ UNCHANGED <<command, permanent, neigh, seen, leftover, pc>>
        /\ air' \subseteq air
        /\ got' = got \/ got' \in air \/ got'.reg = "junk"
    BY <1>10 DEF AnswerArrives, StrayDatagram, Junk
  <2> QED BY <1>1, <2>1
<1>11. CASE UNCHANGED vars
  BY <1>1, <1>11 DEF vars
<1> QED
  BY <1>3, <1>4, <1>5, <1>6, <1>7, <1>8, <1>9, <1>10, <1>11 DEF Next, Setup

-----------------------------------------------------------------------------
(* What lost writes may damage.                                            *)

\* Sets of registers, and how many they are.
LEMMA Counted ==
  ASSUME NEW S \in SUBSET Registers
  PROVE  /\ Cardinality(S) \in Nat
         /\ \A T : T \subseteq S => Cardinality(T) <= Cardinality(S)
         /\ \A T, x : T \subseteq S \cup {x} => Cardinality(T) <= Cardinality(S) + 1
<1>1. IsFiniteSet(S)
  <2>1. S \in SUBSET (0..8)
    BY SettingsKnown
  <2>2. IsFiniteSet(0..8)
    <3>1. \A a, b \in Int : IsFiniteSet(a..b)
      BY FS_Interval
    <3>2. 0 \in Int /\ 8 \in Int
      OBVIOUS
    <3> QED BY <3>1, <3>2, Zenon
  <2> QED BY <2>1, <2>2, FS_Subset
<1>2. Cardinality(S) \in Nat
  BY <1>1, FS_CardinalityType
<1>3. ASSUME NEW T, T \subseteq S PROVE Cardinality(T) <= Cardinality(S)
  BY <1>1, <1>3, FS_Subset
<1>4. ASSUME NEW T, NEW x, T \subseteq S \cup {x} PROVE Cardinality(T) <= Cardinality(S) + 1
  <2>1. /\ IsFiniteSet(S \cup {x})
        /\ Cardinality(S \cup {x}) = IF x \in S THEN Cardinality(S) ELSE Cardinality(S) + 1
    BY <1>1, FS_AddElement
  <2>2. Cardinality(T) <= Cardinality(S \cup {x})
    BY <1>4, <2>1, FS_Subset
  <2>3. IsFiniteSet(T) /\ Cardinality(T) \in Nat
    <3>1. T \in SUBSET (S \cup {x})
      BY <1>4
    <3>2. IsFiniteSet(T)
      BY <2>1, <3>1, FS_Subset
    <3> QED BY <3>2, FS_CardinalityType
  <2> QED BY <1>2, <2>1, <2>2, <2>3
<1> QED BY <1>2, <1>3, <1>4

\* One register more at a time.
LEMMA EarlierKnown ==
  /\ WrongOf(0) = {} /\ WrongOf(5) = Wrong
  /\ \A n \in 0..5 : WrongOf(n) \in SUBSET Registers
  /\ \A n \in 0..4 : /\ Earlier(n + 1) = Earlier(n) \cup {Settings[n + 1][1]}
                     /\ Settings[n + 1][1] \notin Earlier(n)
<1>1. WrongOf(0) = {}
  BY DEF WrongOf, Earlier
<1>2. WrongOf(5) = Wrong
  <2>1. Registers = Earlier(5)
    BY SettingsKnown DEF Registers, Earlier
  <2>2. Wrong \subseteq Registers
    BY DEF Wrong
  <2> QED BY <2>1, <2>2 DEF WrongOf
<1>3. \A n \in 0..5 : WrongOf(n) \in SUBSET Registers
  BY DEF WrongOf, Wrong
<1>4. ASSUME NEW n \in 0..4
      PROVE  /\ Earlier(n + 1) = Earlier(n) \cup {Settings[n + 1][1]}
             /\ Settings[n + 1][1] \notin Earlier(n)
  <2>1. 1..(n + 1) = (1..n) \cup {n + 1}
    OBVIOUS
  <2>2. Earlier(n + 1) = Earlier(n) \cup {Settings[n + 1][1]}
    BY <2>1 DEF Earlier
  <2>3. \A m \in 1..n : m \in 1..5 /\ n + 1 \in 1..5 /\ m # n + 1
    OBVIOUS
  <2>4. Settings[n + 1][1] \notin Earlier(n)
    BY <2>3, SettingsKnown DEF Earlier
  <2> QED BY <2>2, <2>4
<1> QED BY <1>1, <1>2, <1>3, <1>4

\* A write into a register makes no other register wrong, and sets that one right if
\* the value is its own.
LEMMA WrongWritten ==
  ASSUME TypeOK, NEW v, mmd' = [mmd EXCEPT ![addr] = v]
  PROVE  /\ Wrong' \subseteq Wrong \cup {addr}
         /\ \A n \in 1..5 : addr = Settings[n][1] /\ v = Settings[n][2]
                            => Wrong' \subseteq Wrong \ {addr}
<1>1. mmd \in [Words -> Words \cup {Unset}] /\ addr \in Words /\ Registers \subseteq Words
  BY Types, SettingsKnown
<1>2. \A r \in Registers : mmd'[r] = IF r = addr THEN v ELSE mmd[r]
  BY <1>1
<1>3. Wrong' = {r \in Registers : mmd'[r] # Goal(r)}
  BY DEF Wrong, Goal
<1>4. Wrong' \subseteq Wrong \cup {addr}
  BY <1>2, <1>3 DEF Wrong
<1>5. ASSUME NEW n \in 1..5, addr = Settings[n][1], v = Settings[n][2]
      PROVE  Wrong' \subseteq Wrong \ {addr}
  <2>1. Goal(addr) = v
    BY <1>5, GoalKnown
  <2> QED BY <1>2, <1>3, <1>4, <2>1
<1> QED BY <1>4, <1>5

\* What is wrong depends on the registers alone.
LEMMA WrongStays ==
  ASSUME mmd' = mmd
  PROVE  Wrong' = Wrong /\ \A n : WrongOf(n)' = WrongOf(n)
  BY DEF Wrong, WrongOf, Earlier, Goal

\* What a write of the set-up does, if none of them goes astray.
LEMMA SetupEffect ==
  ASSUME PlaceInv, Write, op' = op + 1, ~since'.astray
  PROVE  /\ since.lost \in Nat /\ since'.lost \in Nat /\ ~since.astray
         /\ UNCHANGED <<pc, command, target, complete>>
         /\ \/ since'.lost = since.lost + 1 /\ UNCHANGED phy
            \/ /\ since'.lost = since.lost
               /\ \E v \in Modes : Ops[op] = W("ctrl", v) /\ ctrl' = v /\ UNCHANGED <<addr, mmd>>
            \/ /\ since'.lost = since.lost /\ ctrl' = ctrl
               /\ \E v \in Words :
                    /\ Ops[op] = W("data", v)
                    /\ \/ ctrl = AddressMode /\ addr' = v /\ mmd' = mmd
                       \/ ctrl = DataMode /\ addr' = addr /\ mmd' = [mmd EXCEPT ![addr] = v]
<1>1. TypeOK /\ since \in [lost : 0..LossBudget, astray : BOOLEAN] /\ LossBudget \in Nat
  BY Types DEF PlaceInv
<1>2. op' # op
  BY <1>1, Types
<1>3. /\ UNCHANGED <<pc, command, target, complete>>
      /\ \/ /\ UNCHANGED <<addr, mmd, since>>
            /\ \E v \in Modes : Ops[op] = W("ctrl", v) /\ ctrl' = v
         \/ /\ UNCHANGED <<ctrl, since>>
            /\ \E v \in Words :
                 /\ Ops[op] = W("data", v)
                 /\ \/ ctrl = AddressMode /\ addr' = v /\ mmd' = mmd
                    \/ ctrl = DataMode /\ addr' = addr /\ mmd' = [mmd EXCEPT ![addr] = v]
         \/ since' = [since EXCEPT !.lost = @ + 1] /\ UNCHANGED phy
         \/ since' = [since EXCEPT !.astray = TRUE] /\ UNCHANGED phy
  BY <1>2, WriteEffect DEF history, phy
<1>4. ~(since' = [since EXCEPT !.astray = TRUE])
  BY <1>1
<1>5. CASE since' = [since EXCEPT !.lost = @ + 1] /\ UNCHANGED phy
  <2>1. since'.lost = since.lost + 1 /\ since'.astray = since.astray /\ since.lost \in Nat
    BY <1>1, <1>5
  <2> QED BY <1>3, <1>5, <2>1
<1>6. CASE since' = since
  <2>1. since.lost \in Nat /\ since'.lost = since.lost /\ ~since.astray
    BY <1>1, <1>6
  <2>2. ~(since' = [since EXCEPT !.lost = @ + 1])
    BY <1>1, <1>6
  <2> QED BY <1>3, <1>4, <2>1, <2>2
<1> QED BY <1>3, <1>4, <1>5, <1>6

\* A write of the set-up: what it damages, or leaves as it was, is paid for.
LEMMA SetupWrite ==
  ASSUME PlaceInv, Write, op' = op + 1, command = "setup", ~since'.astray, SetupIsPaid
  PROVE  SetupIsPaid'
<1>1. /\ TypeOK /\ pc = "mdio" /\ pc' = "mdio" /\ command' = "setup" /\ op \in 1..20
      /\ Ops[op] = Op(op) /\ since.lost \in Nat /\ since'.lost \in Nat
  <2>1. TypeOK /\ pc = "mdio" /\ op \in 1..Len(Ops)
    BY WriteEffect DEF PlaceInv
  <2>2. Len(Ops) = 20 /\ \A k \in 1..20 : Ops[k] = Op(k)
    BY <2>1, ProgramKnown
  <2> QED BY <2>1, <2>2, SetupEffect
<1>2. ASSUME NEW n \in 0..4
      PROVE  /\ WrongOf(n) \in SUBSET Registers /\ WrongOf(n)' \in SUBSET Registers
             /\ WrongOf(n + 1)' \in SUBSET Registers
             /\ Earlier(n + 1) = Earlier(n) \cup {Settings[n + 1][1]}
             /\ Settings[n + 1][1] \notin Earlier(n)
  BY EarlierKnown DEF WrongOf, Wrong
<1>3. ASSUME NEW k \in 1..20, NEW n \in Int
      PROVE  /\ k = 4 * n + 1 \/ k = 4 * n + 2 \/ k = 4 * n + 3 \/ k = 4 * n + 4
                 => n \in 0..4 /\ n = (k - 1) \div 4
             /\ k = 4 * n + 1 => k % 4 = 1
             /\ k = 4 * n + 2 => k % 4 = 2
             /\ k = 4 * n + 3 => k % 4 = 3
             /\ k = 4 * n + 4 => k % 4 = 0
  OBVIOUS
<1>4. ASSUME NEW n \in Int
      PROVE  /\ op = 4 * n + 1 => Ops[op] = W("ctrl", AddressMode)
             /\ op = 4 * n + 2 => Ops[op] = W("data", Settings[n + 1][1])
             /\ op = 4 * n + 3 => Ops[op] = W("ctrl", DataMode)
             /\ op = 4 * n + 4 => Ops[op] = W("data", Settings[n + 1][2])
  BY <1>1, <1>3, RoundKnown
<1>5. \A u, v : /\ W("ctrl", u) = W("ctrl", v) => u = v
                /\ W("data", u) = W("data", v) => u = v
                /\ W("ctrl", u) # W("data", v)
  <2>1. \A u, v : /\ W("ctrl", u).reg = "ctrl" /\ W("data", v).reg = "data"
                  /\ W("ctrl", u).value = u /\ W("data", v).value = v
    BY DEF W
  <2> QED BY <2>1
<1>6. AddressMode # DataMode
  BY DEF AddressMode, DataMode
<1>7. ASSUME NEW n \in 0..5, op' = 4 * n + 2
      PROVE  (ctrl' = AddressMode /\ Paid(WrongOf(n))') \/ PaidAhead(WrongOf(n))'
  <2>1. n \in 0..4 /\ op = 4 * n + 1
    BY <1>1, <1>7
  <2>2. WrongOf(n) \in SUBSET Registers
    BY <1>2, <2>1
  <2>3. Paid(WrongOf(n))
    BY <1>1, <1>7, <2>1 DEF SetupIsPaid
  <2>4. Ops[op] = W("ctrl", AddressMode)
    BY <1>4, <2>1
  <2>5. \/ since'.lost = since.lost + 1 /\ mmd' = mmd
        \/ since'.lost = since.lost /\ mmd' = mmd /\ ctrl' = AddressMode
    BY <1>5, <2>4, SetupEffect DEF phy
  <2>6. WrongOf(n)' = WrongOf(n)
    BY <2>5, WrongStays
  <2>7. Cardinality(WrongOf(n)) \in Nat
    BY <2>2, Counted
  <2> QED BY <1>1, <2>3, <2>5, <2>6, <2>7 DEF Paid, PaidAhead
<1>8. ASSUME NEW n \in 0..5, op' = 4 * n + 3
      PROVE  \/ ctrl' = AddressMode /\ addr' = Settings[n + 1][1] /\ Paid(WrongOf(n))'
             \/ PaidAhead(WrongOf(n) \ {addr})'
  <2> DEFINE reg == Settings[n + 1][1]
  <2>1. n \in 0..4 /\ op = 4 * n + 2
    BY <1>1, <1>8
  <2>2. WrongOf(n) \in SUBSET Registers /\ WrongOf(n)' \in SUBSET Registers
    BY <1>2, <2>1
  <2>3. (ctrl = AddressMode /\ Paid(WrongOf(n))) \/ PaidAhead(WrongOf(n))
    BY <1>1, <1>8, <2>1 DEF SetupIsPaid
  <2>4. Ops[op] = W("data", reg)
    BY <1>4, <2>1
  <2> HIDE DEF reg
  <2>5. \/ since'.lost = since.lost + 1 /\ mmd' = mmd
        \/ /\ since'.lost = since.lost /\ ctrl' = ctrl
           /\ \/ ctrl = AddressMode /\ addr' = reg /\ mmd' = mmd
              \/ ctrl = DataMode /\ addr' = addr /\ mmd' = [mmd EXCEPT ![addr] = reg]
    BY <1>5, <2>4, SetupEffect DEF phy
  <2>6. /\ Cardinality(WrongOf(n)) \in Nat
        /\ \A T : T \subseteq WrongOf(n) => Cardinality(T) <= Cardinality(WrongOf(n))
    BY <2>2, Counted
  <2>9. Cardinality(WrongOf(n)) \in Nat /\ Cardinality(WrongOf(n)' \ {addr'}) \in Nat
    <3>1. WrongOf(n)' \ {addr'} \in SUBSET Registers
      BY <2>2
    <3> QED BY <2>2, <3>1, Counted
  <2>7. CASE mmd' = mmd
    <3>1. WrongOf(n)' = WrongOf(n)
      BY <2>7, WrongStays
    <3>2. Cardinality(WrongOf(n)' \ {addr'}) <= Cardinality(WrongOf(n))
      BY <2>6, <3>1
    <3>3. CASE since'.lost = since.lost + 1
      <4>1. Cardinality(WrongOf(n)) <= 2 * since.lost
        BY <1>1, <2>3, <2>6 DEF Paid, PaidAhead
      <4>2. Cardinality(WrongOf(n)' \ {addr'}) + 2 <= 2 * since'.lost
        BY <1>1, <2>9, <3>2, <3>3, <4>1
      <4> QED BY <4>2 DEF PaidAhead
    <3>4. CASE since'.lost = since.lost /\ ctrl = AddressMode /\ ctrl' = ctrl /\ addr' = reg
      <4>1. CASE Paid(WrongOf(n))
        BY <3>1, <3>4, <4>1 DEF Paid, reg
      <4>2. CASE PaidAhead(WrongOf(n))
        <5>1. Cardinality(WrongOf(n)' \ {addr'}) + 2 <= 2 * since'.lost
          BY <1>1, <2>9, <3>2, <3>4, <4>2 DEF PaidAhead
        <5> QED BY <5>1 DEF PaidAhead
      <4> QED BY <2>3, <4>1, <4>2
    <3>5. CASE since'.lost = since.lost /\ ctrl = DataMode /\ ctrl' = ctrl /\ addr' = addr
      <4>1. PaidAhead(WrongOf(n))
        BY <1>6, <2>3, <3>5
      <4>2. Cardinality(WrongOf(n)' \ {addr'}) + 2 <= 2 * since'.lost
        BY <1>1, <2>9, <3>2, <3>5, <4>1 DEF PaidAhead
      <4> QED BY <4>2 DEF PaidAhead
    <3> QED BY <2>5, <3>3, <3>4, <3>5
  <2>8. CASE since'.lost = since.lost /\ ctrl = DataMode /\ addr' = addr
             /\ mmd' = [mmd EXCEPT ![addr] = reg]
    <3>1. PaidAhead(WrongOf(n))
      BY <1>6, <2>3, <2>8
    <3>2. Wrong' \subseteq Wrong \cup {addr}
      BY <1>1, <2>8, WrongWritten
    <3>3. WrongOf(n)' \ {addr'} \subseteq WrongOf(n)
      BY <2>8, <3>2 DEF WrongOf, Earlier
    <3>4. Cardinality(WrongOf(n)' \ {addr'}) <= Cardinality(WrongOf(n))
      BY <2>6, <3>3
    <3>5. Cardinality(WrongOf(n)' \ {addr'}) + 2 <= 2 * since'.lost
      BY <1>1, <2>8, <2>9, <3>1, <3>4 DEF PaidAhead
    <3> QED BY <3>5 DEF PaidAhead
  <2> QED BY <2>5, <2>7, <2>8
<1>9. ASSUME NEW n \in 0..5, op' = 4 * n + 4
      PROVE  \/ ctrl' = DataMode /\ addr' = Settings[n + 1][1] /\ Paid(WrongOf(n))'
             \/ PaidAhead(WrongOf(n) \ {addr})'
  <2>1. n \in 0..4 /\ op = 4 * n + 3
    BY <1>1, <1>9
  <2>2. WrongOf(n) \in SUBSET Registers
    BY <1>2, <2>1
  <2>3. \/ ctrl = AddressMode /\ addr = Settings[n + 1][1] /\ Paid(WrongOf(n))
        \/ PaidAhead(WrongOf(n) \ {addr})
    BY <1>1, <1>9, <2>1 DEF SetupIsPaid
  <2>4. Ops[op] = W("ctrl", DataMode)
    BY <1>4, <2>1
  <2>5. /\ mmd' = mmd /\ addr' = addr
        /\ \/ since'.lost = since.lost + 1
           \/ since'.lost = since.lost /\ ctrl' = DataMode
    BY <1>5, <2>4, SetupEffect DEF phy
  <2>6. WrongOf(n)' = WrongOf(n)
    BY <2>5, WrongStays
  <2>7. /\ Cardinality(WrongOf(n)) \in Nat /\ Cardinality(WrongOf(n) \ {addr}) \in Nat
        /\ Cardinality(WrongOf(n) \ {addr}) <= Cardinality(WrongOf(n))
    <3>1. WrongOf(n) \ {addr} \in SUBSET Registers /\ WrongOf(n) \ {addr} \subseteq WrongOf(n)
      BY <2>2
    <3> QED BY <2>2, <3>1, Counted
  <2>8. CASE since'.lost = since.lost + 1
    <3>1. Cardinality(WrongOf(n) \ {addr}) + 2 <= 2 * since'.lost
      BY <1>1, <2>3, <2>7, <2>8 DEF Paid, PaidAhead
    <3> QED BY <2>5, <2>6, <3>1 DEF PaidAhead
  <2>9. CASE since'.lost = since.lost /\ ctrl' = DataMode
    BY <2>3, <2>5, <2>6, <2>9 DEF Paid, PaidAhead
  <2> QED BY <2>5, <2>8, <2>9
<1>10. ASSUME NEW m \in 0..5, op' = 4 * m + 1
       PROVE  Paid(WrongOf(m))'
  <2>1. PICK n \in 0..4 : m = n + 1 /\ op = 4 * n + 4
    <3>1. m - 1 \in 0..4 /\ m = (m - 1) + 1 /\ op = 4 * (m - 1) + 4
      BY <1>1, <1>10
    <3> QED BY <3>1
  <2> DEFINE reg == Settings[n + 1][1]
             val == Settings[n + 1][2]
  <2>2. /\ WrongOf(n) \in SUBSET Registers /\ WrongOf(n + 1)' \in SUBSET Registers
        /\ Earlier(n + 1) = Earlier(n) \cup {reg} /\ reg \notin Earlier(n)
    BY <1>2
  <2>10. n \in 0..5 /\ n + 1 \in 1..5
    OBVIOUS
  <2>3. \/ ctrl = DataMode /\ addr = reg /\ Paid(WrongOf(n))
        \/ PaidAhead(WrongOf(n) \ {addr})
    BY <1>1, <2>1, <2>10 DEF SetupIsPaid
  <2>4. Ops[op] = W("data", val)
    BY <1>4, <2>1
  <2>11. SUFFICES Paid(WrongOf(n + 1))'
    BY <2>1 DEF Paid, WrongOf
  <2> HIDE DEF reg, val
  <2>5. \/ since'.lost = since.lost + 1 /\ mmd' = mmd
        \/ /\ since'.lost = since.lost
           /\ \/ ctrl = AddressMode /\ mmd' = mmd
              \/ ctrl = DataMode /\ mmd' = [mmd EXCEPT ![addr] = val]
    BY <1>5, <2>4, SetupEffect DEF phy
  <2>6. Wrong' \subseteq Wrong \cup {addr}
    BY <1>1, <2>5, WrongStays, WrongWritten
  <2> DEFINE rest == WrongOf(n) \ {addr}
  <2>7. /\ rest \in SUBSET Registers
        /\ WrongOf(n + 1)' \subseteq (rest \cup {addr}) \cup {reg}
    BY <2>2, <2>6 DEF WrongOf, Earlier
  <2>8. CASE PaidAhead(rest)
    <3>1. Cardinality(WrongOf(n + 1)') <= Cardinality(rest) + 2
      <4>1. Cardinality(WrongOf(n + 1)' \ {reg}) <= Cardinality(rest) + 1
        <5>1. WrongOf(n + 1)' \ {reg} \subseteq rest \cup {addr}
          BY <2>7
        <5> QED BY <2>7, <5>1, Counted
      <4>2. Cardinality(WrongOf(n + 1)') <= Cardinality(WrongOf(n + 1)' \ {reg}) + 1
        <5>1. WrongOf(n + 1)' \ {reg} \in SUBSET Registers
          BY <2>2
        <5>2. WrongOf(n + 1)' \subseteq (WrongOf(n + 1)' \ {reg}) \cup {reg}
          OBVIOUS
        <5> QED BY <5>1, <5>2, Counted
      <4>3. /\ Cardinality(WrongOf(n + 1)') \in Nat /\ Cardinality(rest) \in Nat
            /\ Cardinality(WrongOf(n + 1)' \ {reg}) \in Nat
        <5>1. WrongOf(n + 1)' \ {reg} \in SUBSET Registers
          BY <2>2
        <5> QED BY <2>2, <2>7, <5>1, Counted
      <4> QED BY <4>1, <4>2, <4>3
    <3>2. Cardinality(WrongOf(n + 1)') \in Nat /\ Cardinality(rest) \in Nat
      BY <2>2, <2>7, Counted
    <3>3. Cardinality(WrongOf(n + 1)') <= 2 * since'.lost
      BY <1>1, <2>5, <2>8, <3>1, <3>2 DEF PaidAhead
    <3> QED BY <3>3 DEF Paid
  <2>9. CASE ctrl = DataMode /\ addr = reg /\ Paid(WrongOf(n))
    <3>1. Cardinality(WrongOf(n)) \in Nat /\ Cardinality(WrongOf(n + 1)') \in Nat
      BY <2>2, Counted
    <3>2. CASE since'.lost = since.lost + 1 /\ mmd' = mmd
      <4>1. WrongOf(n + 1)' \subseteq WrongOf(n) \cup {reg}
        BY <2>2, <3>2, WrongStays DEF WrongOf, Earlier
      <4>2. Cardinality(WrongOf(n + 1)') <= Cardinality(WrongOf(n)) + 1
        BY <2>2, <4>1, Counted
      <4>3. Cardinality(WrongOf(n + 1)') <= 2 * since'.lost
        BY <1>1, <2>9, <3>1, <3>2, <4>2 DEF Paid
      <4> QED BY <4>3 DEF Paid
    <3>3. CASE since'.lost = since.lost /\ mmd' = [mmd EXCEPT ![addr] = val]
      <4>1. Wrong' \subseteq Wrong \ {reg}
        BY <1>1, <2>9, <2>10, <3>3, WrongWritten DEF reg, val
      <4>2. WrongOf(n + 1)' \subseteq WrongOf(n)
        BY <2>2, <4>1 DEF WrongOf, Earlier
      <4>3. Cardinality(WrongOf(n + 1)') <= Cardinality(WrongOf(n))
        BY <2>2, <4>2, Counted
      <4>4. Cardinality(WrongOf(n + 1)') <= 2 * since'.lost
        BY <1>1, <2>9, <3>1, <3>3, <4>3 DEF Paid
      <4> QED BY <4>4 DEF Paid
    <3> QED BY <1>6, <2>5, <2>9, <3>2, <3>3
  <2> QED BY <2>3, <2>8, <2>9
<1> QED BY <1>7, <1>8, <1>9, <1>10 DEF SetupIsPaid

\* Neither "arp" nor "peek" writes, only "check" and "peek" read, and "check" at its end.
LEMMA WhoReadsAndWrites ==
  ASSUME TypeOK, op \in 1..Len(Ops)
  PROVE  /\ Ops[op].kind = "w" => command = "setup" \/ (command = "check" /\ op \in 1..3)
         /\ Ops[op].kind = "r" => command = "peek" \/ (command = "check" /\ op = 4)
<1>1. (\A r, v : W(r, v).kind = "w") /\ \A r : R(r).kind = "r"
  BY DEF W, R
<1>2. command \in {"arp", "setup", "check", "peek"}
  BY Types
<1>3. CASE command = "arp"
  <2>1. Len(Ops) = 0
    BY <1>3, ProgramKnown
  <2> QED BY <2>1
<1>4. CASE command = "setup"
  <2>1. op \in 1..20 /\ Ops[op] = Op(op)
    BY <1>4, ProgramKnown
  <2>2. Op(op).kind = "w"
    <3>1. op % 4 = 0 \/ op % 4 = 1 \/ op % 4 = 2 \/ op % 4 = 3
      BY <2>1
    <3>2. \E r, v : Op(op) = W(r, v)
      BY <2>1, <3>1, RoundKnown
    <3> QED BY <1>1, <3>2
  <2> QED BY <1>4, <2>1, <2>2
<1>5. CASE command = "check"
  <2>1. /\ Len(Ops) = 4 /\ Ops[1] = W("ctrl", AddressMode) /\ Ops[2] = W("data", target)
        /\ Ops[3] = W("ctrl", DataMode) /\ Ops[4] = R("data")
    BY <1>5, ProgramKnown
  <2>2. op = 1 \/ op = 2 \/ op = 3 \/ op = 4
    BY <2>1
  <2> QED BY <1>1, <1>5, <2>1, <2>2
<1>6. CASE command = "peek"
  <2>1. Len(Ops) = 1 /\ Ops[1] = R("ctrl")
    BY <1>6, ProgramKnown
  <2>2. op = 1
    BY <2>1
  <2> QED BY <1>1, <1>6, <2>1, <2>2
<1> QED BY <1>2, <1>3, <1>4, <1>5, <1>6

\* A write of a "check" after a complete set-up.
LEMMA CheckWrite ==
  ASSUME PlaceInv, Write, op' = op + 1, command = "check", complete, ~since'.astray, CheckIsPaid
  PROVE  CheckIsPaid'
<1>1. TypeOK /\ op \in 1..3 /\ pc = "mdio" /\ command' = command
  <2>1. TypeOK /\ pc = "mdio" /\ op \in 1..Len(Ops) /\ Ops[op].kind = "w"
    BY WriteEffect DEF PlaceInv, Write
  <2> QED BY <2>1, WhoReadsAndWrites, SetupEffect
<1>2. /\ since.lost \in Nat /\ since'.lost \in Nat
      /\ Wrong \in SUBSET Registers /\ Wrong' \in SUBSET Registers
  BY SetupEffect DEF Wrong
<1>3. /\ Cardinality(Wrong) \in Nat /\ Cardinality(Wrong') \in Nat
      /\ \A x : Wrong' \subseteq Wrong \cup {x} => Cardinality(Wrong') <= Cardinality(Wrong) + 1
  BY <1>2, Counted
<1>4. /\ Cardinality(Wrong) <= 2 * since.lost
      /\ op = 2 => ctrl = AddressMode \/ Cardinality(Wrong) + 2 <= 2 * since.lost
  BY <1>1 DEF CheckIsPaid, Paid, PaidAhead
<1>5. SUFFICES /\ Cardinality(Wrong') <= 2 * since'.lost
               /\ op = 1 => ctrl' = AddressMode \/ Cardinality(Wrong') + 2 <= 2 * since'.lost
  BY <1>1 DEF CheckIsPaid, Paid, PaidAhead
<1>6. CASE since'.lost = since.lost + 1 /\ UNCHANGED phy
  <2>1. Wrong' = Wrong
    BY <1>6, WrongStays DEF phy
  <2> QED BY <1>2, <1>3, <1>4, <1>6, <2>1
<1>7. CASE since'.lost = since.lost /\ mmd' = mmd
           /\ \E v \in Modes : Ops[op] = W("ctrl", v) /\ ctrl' = v
  <2>1. Wrong' = Wrong
    BY <1>7, WrongStays
  <2>2. op = 1 => ctrl' = AddressMode
    <3>1. Ops[1] = W("ctrl", AddressMode)
      BY <1>1, ProgramKnown
    <3>2. \A v : W("ctrl", v).value = v
      BY DEF W
    <3> QED BY <1>7, <3>1, <3>2
  <2> QED BY <1>2, <1>3, <1>4, <1>7, <2>1, <2>2
<1>8. CASE since'.lost = since.lost
           /\ \E v \in Words :
                /\ Ops[op] = W("data", v)
                /\ \/ ctrl = AddressMode /\ mmd' = mmd
                   \/ ctrl = DataMode /\ mmd' = [mmd EXCEPT ![addr] = v]
  <2>1. PICK v \in Words : /\ Ops[op] = W("data", v)
                           /\ \/ ctrl = AddressMode /\ mmd' = mmd
                              \/ ctrl = DataMode /\ mmd' = [mmd EXCEPT ![addr] = v]
    BY <1>8
  <2>2. op = 2
    <3>1. Ops[1] = W("ctrl", AddressMode) /\ Ops[3] = W("ctrl", DataMode)
      BY <1>1, ProgramKnown
    <3>2. \A u : W("ctrl", u).reg = "ctrl" /\ W("data", u).reg = "data"
      BY DEF W
    <3>3. op = 1 \/ op = 2 \/ op = 3
      BY <1>1
    <3> QED BY <2>1, <3>1, <3>2, <3>3
  <2>3. CASE ctrl = AddressMode /\ mmd' = mmd
    <3>1. Wrong' = Wrong
      BY <2>3, WrongStays
    <3> QED BY <1>4, <1>8, <2>2, <3>1
  <2>4. CASE ctrl = DataMode /\ mmd' = [mmd EXCEPT ![addr] = v]
    <3>1. Cardinality(Wrong') <= Cardinality(Wrong) + 1
      BY <1>1, <1>3, <2>4, WrongWritten
    <3>2. Cardinality(Wrong) + 2 <= 2 * since.lost
      BY <1>4, <2>2, <2>4 DEF AddressMode, DataMode
    <3> QED BY <1>2, <1>3, <1>8, <2>2, <3>1, <3>2
  <2> QED BY <2>1, <2>3, <2>4
<1> QED BY <1>6, <1>7, <1>8, SetupEffect

\* A step that neither starts nor ends a run, writes nor reads.
LEMMA DamageStays ==
  ASSUME DamageInv, PlaceInv', UNCHANGED <<command, target, phy, since, op, complete>>,
         pc = "idle" => pc' = "idle"
  PROVE  DamageInv'
<1>1. Wrong' = Wrong /\ \A n : WrongOf(n)' = WrongOf(n)
  BY WrongStays DEF phy
<1>2. complete' => ~(command' = "setup" /\ pc' # "idle")
  BY DEF DamageInv
<1>3. ASSUME ~since.astray, SetupIsPaid PROVE SetupIsPaid'
  <2>1. SUFFICES ASSUME command = "setup", pc' # "idle", NEW n \in 0..5
                 PROVE  /\ op = 4 * n + 1 => Paid(WrongOf(n))'
                        /\ op = 4 * n + 2 => \/ ctrl = AddressMode /\ Paid(WrongOf(n))'
                                            \/ PaidAhead(WrongOf(n))'
                        /\ op = 4 * n + 3 =>
                             \/ ctrl = AddressMode /\ addr = Settings[n + 1][1] /\ Paid(WrongOf(n))'
                             \/ PaidAhead(WrongOf(n) \ {addr})'
                        /\ op = 4 * n + 4 =>
                             \/ ctrl = DataMode /\ addr = Settings[n + 1][1] /\ Paid(WrongOf(n))'
                             \/ PaidAhead(WrongOf(n) \ {addr})'
    BY DEF SetupIsPaid, phy
  <2>2. /\ Paid(WrongOf(n))' <=> Paid(WrongOf(n))
        /\ PaidAhead(WrongOf(n))' <=> PaidAhead(WrongOf(n))
        /\ PaidAhead(WrongOf(n) \ {addr})' <=> PaidAhead(WrongOf(n) \ {addr})
    BY <1>1 DEF Paid, PaidAhead, phy
  <2> QED BY <1>3, <2>1, <2>2 DEF SetupIsPaid
<1>4. ASSUME CheckIsPaid PROVE CheckIsPaid'
  BY <1>1, <1>4 DEF CheckIsPaid, Paid, PaidAhead, phy
<1> QED BY <1>2, <1>3, <1>4 DEF DamageInv

\* Every step keeps DamageInv.
LEMMA DamageNext == DamageInv /\ [Next]_vars => DamageInv'
<1> SUFFICES ASSUME DamageInv, [Next]_vars PROVE DamageInv'
  OBVIOUS
<1> USE DEF arp, read, history
<1>1. TypeOK /\ PlaceInv /\ PlaceInv' /\ op \in Nat
  BY PlaceNext, Types DEF DamageInv, PlaceInv
<1>2. ASSUME NEW r, StartRun("setup", r)
      PROVE  DamageInv'
  <2>1. /\ command' = "setup" /\ op' = 1 /\ since' = Clean /\ ~complete'
    BY <1>2 DEF StartRun
  <2>2. SetupIsPaid'
    <3>1. ASSUME NEW n \in 0..5 PROVE op' = 4 * n + 1 => Paid(WrongOf(n))'
      <4>1. SUFFICES ASSUME op' = 4 * n + 1 PROVE Paid(WrongOf(n))'
        OBVIOUS
      <4>2. n = 0
        BY <2>1, <4>1
      <4>3. Wrong' \cap Earlier(n) = {}
        BY <4>2 DEF Earlier
      <4>4. Cardinality(Wrong' \cap Earlier(n)) = 0
        BY <4>3, FS_EmptySet
      <4>5. since'.lost = 0
        BY <2>1 DEF Clean
      <4> QED BY <4>4, <4>5 DEF Paid, WrongOf
    <3>2. \A n \in 0..5 : op' # 4 * n + 2 /\ op' # 4 * n + 3 /\ op' # 4 * n + 4
      BY <2>1
    <3> QED BY <3>1, <3>2 DEF SetupIsPaid
  <2> QED BY <1>1, <2>1, <2>2 DEF DamageInv, CheckIsPaid
<1>3. ASSUME NEW c \in {"arp", "check", "peek"}, NEW r, StartRun(c, r)
      PROVE  DamageInv'
  <2>1. /\ command' = c /\ c # "setup" /\ op' = 1 /\ since' = since /\ mmd' = mmd
        /\ complete' = complete
    BY <1>1, <1>3, Types DEF StartRun, phy
  <2>2. Wrong' = Wrong
    BY <2>1, WrongStays
  <2> QED BY <1>1, <2>1, <2>2 DEF DamageInv, SetupIsPaid, CheckIsPaid, Paid
<1>4. CASE Starts
  BY <1>2, <1>3, <1>4 DEF Starts
<1>5. CASE SendProbe \/ PollArp \/ PinArp \/ KernelLearns \/ SendRead
  <2>1. UNCHANGED <<command, target, phy, since, op, complete>> /\ pc # "idle"
    BY <1>5 DEF SendProbe, PollArp, PinArp, KernelLearns, SendRead
  <2> QED BY <1>1, <2>1, DamageStays
<1>6. CASE Write
  <2>1. /\ pc = "mdio" /\ op \in 1..Len(Ops) /\ UNCHANGED <<command, target, complete>>
        /\ (op' = op + 1 /\ pc' = pc) \/ (UNCHANGED <<op, phy, since>> /\ pc' = "idle")
    BY <1>1, <1>6, WriteEffect
  <2>2. CASE UNCHANGED <<op, phy, since>> /\ pc' = "idle"
    BY <1>1, <2>1, <2>2, DamageStays
  <2>3. CASE op' = op + 1 /\ pc' = pc
    <3>1. complete' => ~(command' = "setup" /\ pc' # "idle")
      BY <2>1, <2>3 DEF DamageInv
    <3>2. ASSUME ~since'.astray PROVE SetupIsPaid' /\ CheckIsPaid'
      <4>1. SetupIsPaid /\ CheckIsPaid
        BY <1>1, <1>6, <2>3, <3>2, SetupEffect DEF DamageInv
      <4>2. command = "setup" \/ command = "check"
        BY <1>1, <1>6, <2>1, WhoReadsAndWrites DEF Write
      <4>3. CASE command = "setup"
        <5>1. SetupIsPaid'
          BY <1>1, <1>6, <2>3, <3>2, <4>1, <4>3, SetupWrite
        <5>2. ~complete'
          BY <2>1, <4>3 DEF DamageInv
        <5> QED BY <5>1, <5>2 DEF CheckIsPaid
      <4>4. CASE command = "check"
        <5>1. SetupIsPaid'
          BY <2>1, <4>4 DEF SetupIsPaid
        <5>2. CASE complete
          BY <1>1, <1>6, <2>3, <3>2, <4>1, <4>4, <5>1, <5>2, CheckWrite
        <5>3. CASE ~complete
          BY <2>1, <5>1, <5>3 DEF CheckIsPaid
        <5> QED BY <5>2, <5>3
      <4> QED BY <4>2, <4>3, <4>4
    <3> QED BY <1>1, <3>1, <3>2 DEF DamageInv
  <2> QED BY <2>1, <2>2, <2>3
<1>7. CASE EndRead
  <2>1. CASE pc' = "idle"
    <3>1. UNCHANGED <<command, target, phy, since, op, complete>>
      BY <1>7, <2>1 DEF EndRead, Quit, Ends
    <3> QED BY <1>1, <2>1, <3>1, DamageStays
  <2>2. CASE pc' # "idle"
    <3>1. /\ pc = "await" /\ pc' = "mdio" /\ op' = op + 1
          /\ UNCHANGED <<command, target, phy, since, complete>>
      BY <1>7, <2>2 DEF EndRead, Quit, Ends
    <3>2. command = "peek" \/ (command = "check" /\ op = 4)
      <4>1. op \in 1..Len(Ops) /\ Ops[op].kind = "r"
        BY <1>1, <3>1, Types, ProgramKnown DEF PlaceInv, PlaceAgrees
      <4> QED BY <1>1, <4>1, WhoReadsAndWrites
    <3>3. Wrong' = Wrong
      BY <3>1, WrongStays DEF phy
    <3>4. CheckIsPaid => CheckIsPaid'
      BY <3>1, <3>2, <3>3 DEF CheckIsPaid, Paid
    <3> QED BY <1>1, <3>1, <3>2, <3>4 DEF DamageInv, SetupIsPaid
  <2> QED BY <2>1, <2>2
<1>8. CASE Complete
  <2>1. /\ pc = "mdio" /\ op = Len(Ops) + 1 /\ pc' = "idle"
        /\ UNCHANGED <<command, target, phy, since, op>>
        /\ complete' = (complete \/ command = "setup")
    BY <1>8 DEF Complete, Ends
  <2>2. CASE command # "setup"
    <3>1. complete' = complete
      BY <1>1, <2>1, <2>2, Types
    <3> QED BY <1>1, <2>1, <3>1, DamageStays
  <2>3. CASE command = "setup"
    <3>1. op = 21
      <4>1. Len(Ops) = 20
        BY <1>1, <2>3, ProgramKnown
      <4> QED BY <2>1, <4>1
    <3>2. Wrong' = Wrong
      BY <2>1, WrongStays DEF phy
    <3>3. ~since.astray => Paid(Wrong)
      <4>1. 5 \in 0..5 /\ op = 4 * 5 + 1
        BY <3>1
      <4>2. ~since.astray => Paid(WrongOf(5))
        BY <2>1, <2>3, <4>1 DEF DamageInv, SetupIsPaid
      <4> QED BY <4>2, EarlierKnown
    <3>4. ~since.astray => Paid(Wrong)'
      BY <2>1, <3>2, <3>3 DEF Paid
    <3> QED BY <1>1, <2>1, <3>4 DEF DamageInv, SetupIsPaid, CheckIsPaid
  <2> QED BY <2>2, <2>3
<1>9. CASE (\E a \in air : AnswerArrives(a)) \/ StrayDatagram
  <2>1. UNCHANGED <<pc, command, target, phy, since, op, complete>>
    BY <1>9 DEF AnswerArrives, StrayDatagram
  <2> QED BY <1>1, <2>1, DamageStays
<1>10. CASE UNCHANGED vars
  BY <1>1, <1>10, DamageStays DEF vars
<1> QED
  BY <1>4, <1>5, <1>6, <1>7, <1>8, <1>9, <1>10 DEF Next, Setup

-----------------------------------------------------------------------------
\* Every variable keeps its type.
THEOREM TypeCorrect == Spec => []TypeOK
<1>1. PlaceInv => TypeOK
  BY DEF PlaceInv
<1> QED BY <1>1, PlaceInit, PlaceNext, PTL DEF Spec

\* What "mdio-seq" printed of a register is what the register holds, as far as its own
\* writes arrived, or went by a pinned entry, and no answer of an earlier read was about.
THEOREM ReadBack == Spec => []ReadBackIsTrue
<1>1. Init => ReadInv
  BY PlaceInit DEF Init, ReadInv, AstrayStays, CheckArrives, AnswersAreTrue, PrintedLast
<1>2. ReadInv => ReadBackIsTrue
  BY DEF ReadInv, AnswersAreTrue, Reads, ReadBackIsTrue
<1> QED BY <1>1, <1>2, ReadNext, PTL DEF Spec

\* A register read back through a pinned entry proves the entry right: a stale address
\* that "fpga-arp" took from the kernel's table is found out by the first read.
THEOREM StalePinExposed == Spec => []StalePinShows
<1>1. Init => PinInv
  BY PlaceInit DEF Init, PinInv, ReadInv, AstrayStays, CheckArrives, AnswersAreTrue,
     PrintedLast, AnswersAreTheFpgas
<1>2. PinInv => StalePinShows
  BY DEF PinInv, AnswersAreTheFpgas, StalePinShows
<1> QED BY <1>1, <1>2, PinNext, PTL DEF Spec

\* A set-up that reported its completion left at most two registers wrong for each write
\* lost in it, or in the reads since; and it takes writes lost, or gone astray, to leave
\* any wrong.
THEOREM DamageConfined == Spec => []DamageIsConfined
<1>1. Init => DamageInv
  BY PlaceInit DEF Init, DamageInv, SetupIsPaid, CheckIsPaid
<1>2. DamageInv => DamageIsConfined
  BY DEF DamageInv, CheckIsPaid, Paid, DamageIsConfined
<1> QED BY <1>1, <1>2, DamageNext, PTL DEF Spec
=============================================================================
