------------------------------ MODULE KszSetup ------------------------------
(***************************************************************************)
(* The commands that reach the PHY through the FPGA's MDIO block.          *)
(* "fpga-setup" is fpga_setup_ksz9031_1gbe (fpga_setup.c): it resolves and *)
(* pins the FPGA's ARP entry (fpga_config.c; "fpga-arp" does only that)    *)
(* and sends the KSZ9031 write sequence of config.h (fpga_mdio.c).  The    *)
(* registers set lie behind the PHY's indirect access: register 0x0D       *)
(* selects whether 0x0E holds an address or the data at that address, so   *)
(* each of them takes four writes.  A write is one UDP datagram that       *)
(* nothing acknowledges.  A read is a datagram, and the next datagram on   *)
(* the port, from whomever, is its answer.  Beside the set-up the model    *)
(* has "mdio-seq" with the four operations that read a register back, and  *)
(* "mdio-read" of 0x0D.                                                    *)
(***************************************************************************)
EXTENDS Integers, Sequences, FiniteSets

CONSTANTS
  Polls,        \* polls of the ARP table until the timeout: timeout_ms / 100
  LossBudget,   \* bound: writes lost over all runs
  MaxRuns,      \* bound: runs of the commands
  Checked       \* the registers that are read back

\* ETHERBENCH_KSZ9031_1GBE_OPS_INIT: the registers of MMD 2 and their values.
Settings == << <<0, 24>>, <<4, 252>>, <<5, 32767>>, <<6, 52428>>, <<8, 76>> >>
Count == 4 * Len(Settings)      \* ETHERBENCH_KSZ9031_1GBE_OPS_COUNT

AddressMode == 2         \* the two values written to 0x0D
DataMode == 16386
Modes == {AddressMode, DataMode}

W(r, v) == [kind |-> "w", reg |-> r, value |-> v]
R(r) == [kind |-> "r", reg |-> r]

\* Mutant: the switch to the data of the register is forgotten.
MutOp(k) ==
  LET setting == Settings[((k - 1) \div 4) + 1]
  IN CASE k % 2 = 1 -> W("ctrl", AddressMode)
       [] k % 4 = 2 -> W("data", setting[1])
       [] k % 4 = 0 -> W("data", setting[2])

\* The k-th operation: select address, address, select data, data.
Op(k) ==
  LET setting == Settings[((k - 1) \div 4) + 1]
  IN CASE k % 4 = 1 -> W("ctrl", AddressMode)
       [] k % 4 = 2 -> W("data", setting[1])
       [] k % 4 = 3 -> W("ctrl", DataMode)
       [] k % 4 = 0 -> W("data", setting[2])

Registers == {Settings[n][1] : n \in DOMAIN Settings}
Words == Registers \cup {Settings[n][2] : n \in DOMAIN Settings}
Goal(r) == Settings[CHOOSE n \in DOMAIN Settings : Settings[n][1] = r][2]

ASSUME SetupAssumption ==
  {Polls, LossBudget, MaxRuns} \subseteq Nat /\ Checked \subseteq Registers

\* The operations of each command; "fpga-arp" has none.
Program(command, r) ==
  CASE command = "setup" -> [k \in 1..Count |-> Op(k)]
    [] command = "check" -> <<W("ctrl", AddressMode), W("data", r),
                              W("ctrl", DataMode), R("data")>>
    [] command = "peek"  -> <<R("ctrl")>>
    [] OTHER -> <<>>

Unset == -1      \* what a register holds after reset
Answers == [reg : {"ctrl", "data"}, value : Modes \cup Words \cup {Unset}]
NoAnswer == [reg |-> "none", value |-> Unset]
Junk == [reg |-> "junk", value |-> Unset]      \* not of three bytes

VARIABLES
  pc,        \* "idle", "probe", "poll", "pin", "mdio" or "await"
  command, target,    \* the command that runs or ran last; the register it checks
  polled,    \* elapsed_ms of fpga_check_arp, in polls
  found,     \* the address that read_arp_table saw: "none", "good" or "stale"
  neigh, permanent,   \* the kernel's ARP entry, and whether it is pinned
  op,        \* the operation fpga_mdio_run_sequence does next
  ctrl, addr, mmd,    \* the PHY: 0x0D, the address latched, the registers
  air,       \* answers to reads in flight
  got,       \* the first datagram queued on the socket of a read
  seen,      \* what the last read of the last run printed
  exit,      \* how the last run ended: "none", "ok" or "error"
  runs,      \* runs started
  spent,     \* history: writes lost over all runs
  since, now,    \* history: what was lost, or went to a stale address, since the
                 \* last set-up began, and in this run
  complete,  \* history: the last set-up reported its completion
  leftover   \* history: an answer for 0x0E was in flight when this run's read began

arp == <<polled, found, neigh, permanent>>
phy == <<ctrl, addr, mmd>>
read == <<air, got, seen, leftover>>
history == <<spent, since, now>>
vars == <<pc, command, target, arp, op, phy, read, exit, runs, history, complete>>

Clean == [lost |-> 0, astray |-> FALSE]
Ops == Program(command, target)

TypeOK ==
  /\ pc \in {"idle", "probe", "poll", "pin", "mdio", "await"}
  /\ command \in {"arp", "setup", "check", "peek"}
  /\ target \in Registers
  /\ polled \in 0..Polls
  /\ {found, neigh} \subseteq {"none", "good", "stale"}
  /\ {permanent, complete, leftover} \subseteq BOOLEAN
  /\ op \in 1..(Count + 1)
  /\ ctrl \in Modes
  /\ addr \in Words
  /\ mmd \in [Words -> Words \cup {Unset}]
  /\ air \subseteq Answers
  /\ got \in Answers \cup {NoAnswer, Junk}
  /\ seen \in Answers \cup {NoAnswer}
  /\ exit \in {"none", "ok", "error"}
  /\ runs \in 0..MaxRuns
  /\ spent \in 0..LossBudget
  /\ {since, now} \subseteq [lost : 0..LossBudget, astray : BOOLEAN]

Init ==
  /\ pc = "idle"
  /\ command = "arp" /\ target = 0
  /\ polled = 0 /\ found = "none"
  /\ neigh \in {"none", "good", "stale"}
  /\ permanent \in BOOLEAN /\ (neigh = "none" => ~permanent)
  /\ op = 1
  /\ ctrl = AddressMode /\ addr = 0      \* as after its reset; runs cut short leave others
  /\ mmd = [w \in Words |-> Unset]
  /\ air = {} /\ got = NoAnswer /\ seen = NoAnswer
  /\ exit = "none"
  /\ runs = 0
  /\ spent = 0 /\ since = Clean /\ now = Clean
  /\ complete = FALSE /\ leftover = FALSE

-----------------------------------------------------------------------------
(* fpga_arp_setup                                                          *)

\* The command ends; the socket of a read, and what is queued on it, is gone.
Ends(status) ==
  /\ pc' = "idle"
  /\ exit' = status
  /\ got' = NoAnswer

Quit == Ends("error")

\* main.c starts one of the commands.
StartRun(c, r) ==
  /\ pc = "idle"
  /\ runs < MaxRuns
  /\ runs' = runs + 1
  /\ command' = c /\ target' = r
  /\ pc' = IF c \in {"arp", "setup"} THEN "probe" ELSE "mdio"
  /\ polled' = 0 /\ found' = "none"
  /\ op' = 1
  /\ exit' = "none"
  /\ seen' = NoAnswer /\ leftover' = FALSE
  /\ now' = Clean
  /\ since' = IF c = "setup" THEN Clean ELSE since
  /\ complete' = (complete /\ c # "setup")
  /\ UNCHANGED <<neigh, permanent, phy, air, got, spent>>

\* send_udp_probe
SendProbe ==
  /\ pc = "probe"
  /\ \/ pc' = "poll" /\ UNCHANGED <<exit, got>>
     \/ Quit
  /\ UNCHANGED <<command, target, arp, op, phy, air, seen, leftover, runs, history, complete>>

\* The kernel resolves the address, because of the probe or of the writes; a
\* permanent entry it does not touch.
KernelLearns ==
  /\ pc # "idle"
  /\ ~permanent
  /\ neigh # "good"
  /\ neigh' = "good"
  /\ UNCHANGED <<pc, command, target, polled, found, permanent, op, phy, read, exit, runs,
                 history, complete>>

\* Mutant: the time spent waiting is not counted.
MutPollArp ==
  /\ pc = "poll"
  /\ neigh # "none"
  /\ found' = neigh
  /\ pc' = "pin"
  /\ UNCHANGED <<command, target, polled, neigh, permanent, op, phy, read, exit, runs, history,
                 complete>>

\* Mutant: one turn of the loop too many.
MutPollOnce ==
  /\ pc = "poll"
  /\ \/ neigh # "none" /\ pc' = "pin" /\ found' = neigh /\ UNCHANGED <<polled, exit, got>>
     \/ /\ neigh = "none" /\ polled <= Polls
        /\ polled' = polled + 1
        /\ UNCHANGED <<pc, found, exit, got>>
     \/ neigh = "none" /\ polled > Polls /\ Quit /\ UNCHANGED <<polled, found>>
  /\ UNCHANGED <<command, target, neigh, permanent, op, phy, air, seen, leftover, runs,
                 history, complete>>

\* One turn of the loop of fpga_check_arp: read_arp_table takes the address of any
\* entry, fresh or stale.
PollArp ==
  /\ pc = "poll"
  /\ \/ neigh # "none" /\ pc' = "pin" /\ found' = neigh /\ UNCHANGED <<polled, exit, got>>
     \/ /\ neigh = "none" /\ polled < Polls
        /\ polled' = polled + 1
        /\ UNCHANGED <<pc, found, exit, got>>
     \/ neigh = "none" /\ polled = Polls /\ Quit /\ UNCHANGED <<polled, found>>
     \/ Quit /\ UNCHANGED <<polled, found>>       \* /proc/net/arp cannot be read
  /\ UNCHANGED <<command, target, neigh, permanent, op, phy, air, seen, leftover, runs,
                 history, complete>>

\* "ip neigh replace ... nud permanent" with the address found, whatever the kernel
\* has learnt since; fails without privileges.
PinArp ==
  /\ pc = "pin"
  /\ polled' = 0 /\ found' = "none"      \* locals of the functions left
  /\ \/ neigh' = found /\ permanent' = TRUE /\ pc' = "mdio" /\ UNCHANGED <<exit, got>>
     \/ Quit /\ UNCHANGED <<neigh, permanent>>
  /\ UNCHANGED <<command, target, op, phy, air, seen, leftover, runs, history, complete>>

-----------------------------------------------------------------------------
(* fpga_mdio_run_sequence                                                  *)

\* The PHY, external: what a write to 0x0D or 0x0E does.
PhyWrites(o) ==
  IF o.reg = "ctrl"
    THEN ctrl' = o.value /\ UNCHANGED <<addr, mmd>>
    ELSE /\ UNCHANGED ctrl
         /\ IF ctrl = AddressMode
              THEN addr' = o.value /\ UNCHANGED mmd
              ELSE mmd' = [mmd EXCEPT ![addr] = o.value] /\ UNCHANGED addr

\* The PHY, external: what a read of 0x0D or 0x0E finds.
PhyHolds(r) ==
  CASE r = "ctrl" -> ctrl
    [] r = "data" /\ ctrl = AddressMode -> addr
    [] r = "data" /\ ctrl = DataMode -> mmd[addr]

\* fpga_mdio_write: one datagram, then the delay.  It reaches the PHY, or is lost,
\* or goes to an address that is not the FPGA's; the program cannot tell.
MdioWrite(o) ==
  \/ neigh = "good" /\ PhyWrites(o) /\ UNCHANGED history
  \/ /\ neigh = "good"
     /\ spent < LossBudget
     /\ spent' = spent + 1
     /\ since' = [since EXCEPT !.lost = @ + 1]
     /\ now' = [now EXCEPT !.lost = @ + 1]
     /\ UNCHANGED phy
  \/ /\ neigh # "good"
     /\ since' = [since EXCEPT !.astray = TRUE]
     /\ now' = [now EXCEPT !.astray = TRUE]
     /\ UNCHANGED <<phy, spent>>

\* One turn of fpga_mdio_run_sequence; a datagram that cannot be sent ends it.
Write ==
  /\ pc = "mdio"
  /\ op <= Len(Ops)
  /\ Ops[op].kind = "w"
  /\ \/ MdioWrite(Ops[op]) /\ op' = op + 1 /\ UNCHANGED <<pc, exit, got>>
     \/ Quit /\ UNCHANGED <<op, phy, history>>
  /\ UNCHANGED <<command, target, arp, air, seen, leftover, runs, complete>>

\* fpga_mdio_read: the socket is bound, the request sent, and answered if it
\* reaches the FPGA.
SendRead ==
  /\ pc = "mdio"
  /\ op <= Len(Ops)
  /\ Ops[op].kind = "r"
  /\ leftover' = \E a \in air : a.reg = "data"
  /\ \/ /\ pc' = "await"
        /\ \/ neigh = "good"
              /\ air' = air \cup {[reg |-> Ops[op].reg, value |-> PhyHolds(Ops[op].reg)]}
           \/ UNCHANGED air
        /\ UNCHANGED <<exit, got>>
     \/ Quit /\ UNCHANGED air
  /\ UNCHANGED <<command, target, arp, op, phy, seen, runs, history, complete>>

\* Mutant: an expired receive leaves the result of 0, and the sequence goes on.
MutEndRead ==
  /\ pc = "await"
  /\ pc' = "mdio" /\ op' = op + 1
  /\ seen' = IF got \in Answers THEN got ELSE [reg |-> Ops[op].reg, value |-> 0]
  /\ got' = NoAnswer
  /\ UNCHANGED <<command, target, arp, phy, air, leftover, exit, runs, history, complete>>

\* recvfrom returns the first datagram, or its timeout expires.  Register and value
\* are taken from the answer; the register is not compared with the one asked for.
EndRead ==
  /\ pc = "await"
  /\ \/ /\ got \in Answers
        /\ pc' = "mdio" /\ op' = op + 1
        /\ seen' = got /\ got' = NoAnswer
        /\ UNCHANGED exit
     \/ /\ got \notin Answers
        /\ Quit
        /\ UNCHANGED <<op, seen>>
  /\ UNCHANGED <<command, target, arp, phy, air, leftover, runs, history, complete>>

\* Every operation is done: "KSZ9031 1GbE configuration completed".
Complete ==
  /\ pc = "mdio"
  /\ op = Len(Ops) + 1
  /\ Ends("ok")
  /\ complete' = (complete \/ command = "setup")
  /\ UNCHANGED <<command, target, arp, op, phy, air, seen, leftover, runs, history>>

Setup == SendProbe \/ PollArp \/ PinArp \/ Write \/ SendRead \/ EndRead \/ Complete

\* An answer reaches the port, now or much later, or is lost.
AnswerArrives(a) ==
  /\ air' = air \ {a}
  /\ \/ pc = "await" /\ got = NoAnswer /\ got' = a
     \/ UNCHANGED got
  /\ UNCHANGED <<pc, command, target, arp, op, phy, seen, leftover, exit, runs, history,
                 complete>>

\* Some other datagram, such as a status frame, is sent to the port.
StrayDatagram ==
  /\ pc = "await"
  /\ got = NoAnswer
  /\ got' = Junk
  /\ UNCHANGED <<pc, command, target, arp, op, phy, air, seen, leftover, exit, runs, history,
                 complete>>

Starts ==
  \/ StartRun("arp", 0) \/ StartRun("setup", 0) \/ StartRun("peek", 0)
  \/ \E r \in Checked : StartRun("check", r)

Next ==
  \/ Starts \/ Setup \/ KernelLearns
  \/ (\E a \in air : AnswerArrives(a)) \/ StrayDatagram

Spec == Init /\ [][Next]_vars

\* A process that was started runs on; the kernel need not learn anything.
FairSpec == Spec /\ WF_vars(Setup)

-----------------------------------------------------------------------------
(* Properties.                                                             *)

Wrong == {r \in Registers : mmd[r] # Goal(r)}

\* The damage of lost writes is confined: a set-up that reports its completion has
\* configured every register, whatever state an earlier run, cut short or with writes
\* lost, left the indirect access in, but those that its lost writes belong to and the
\* ones set or read before them; and reading registers back afterwards, in runs that may
\* fail half way, spoils none without a lost write of its own.  (Writes that went to a
\* stale address apart.)
DamageIsConfined ==
  pc = "idle" /\ complete /\ ~since.astray => Cardinality(Wrong) <= 2 * since.lost

\* A register that was read back holds the value printed, unless a write of that run
\* was lost, or an answer to an earlier read of 0x0E, which had timed out, was still in
\* flight.  So an address that was stale when it was pinned shows: nothing answers.  Only
\* without a pinned entry may the writes go astray and the read not.  (An answer to a
\* read of another register gives itself away.)
ReadBackIsTrue ==
  pc = "idle" /\ exit = "ok" /\ command = "check"
  /\ now.lost = 0 /\ (permanent \/ ~now.astray)
  /\ ~leftover /\ seen.reg = "data"
    => seen.value = mmd[target]

\* "fpga-arp" accepts a stale address, or one that the kernel has replaced before it is
\* pinned, and a set-up through it completes.  That does not stay unnoticed: a register
\* read back through a pinned entry shows that the entry is the FPGA's, since nobody
\* else answers; whatever was lost, but with no answer to an earlier read under way.
StalePinShows ==
  pc = "idle" /\ exit = "ok" /\ command = "check" /\ permanent
  /\ ~leftover /\ seen.reg = "data"
    => neigh = "good"

\* Every run ends: the ARP table is polled a bounded number of times.
RunEnds == pc # "idle" ~> pc = "idle"
=============================================================================
