# A TLA+ verification of etherbench

`etherbench` is a command line program in C that measures the Ethernet link between a
Linux host and an FPGA, and a Python script that runs it many times and summarises what
it logged.  The FPGA is driven with UDP datagrams that it does not acknowledge, several
of which *toggle* a bit instead of setting it; its status is a UDP datagram; the test
data are UDP datagrams; its PHY is configured by UDP datagrams.  The interesting
questions are therefore about what is lost, doubled, late or sent by somebody else, about
what a failed run leaves behind for the next one, and about whether the numbers in the
logs are true and stay there.  The modules here model that, TLC checks it on small
instances, and TLAPS proves every safety property of the passing runs for all values of the
constants, or under the assumptions section 5 names.

Paths are those of the repository with `src/` in front: `src/src/main.c`,
`src/scripts/etherbench_sweep.py`.

## 1. Inventory

Every command of the program is one sequential process that ends; there are no threads.
Concurrency comes from the FPGA and the network, from a second process on the same FPGA
or the same log, and from processes that follow each other on a FPGA and on log files that
remember.

| part | code | state it keeps | operations | module |
|---|---|---|---|---|
| loopback mode | `fpga_loopback_mode.c` | loopback bit (in the FPGA) | enable / disable if needed | `LoopbackMode`, `LoopbackSwitch` |
| status query | `fpga_stats.c` | a socket per query | send `regstats`, receive, parse | in `LoopbackMode`, `TxTest`; the frame's counters in `LossRow` |
| FPGA commands | `fpga_ctrl.c` | packet count, payload, content bits, loopback bit (in the FPGA) | one datagram each, not acknowledged | in `LoopbackMode`, `TxTest` |
| RTT test | `fpga_rtt.c`, `main.c` | sequence number, counters, samples | one packet out, one datagram back | `RttTest` |
| loopback load test | `fpga_loopback_load.c`, `main.c` | two sockets, counters, four snapshots | paced send loop, two kinds of drain, two rows | `LoopbackTest` |
| TX test | `fpga_tx_test.c`, `main.c` | a socket, counters, quiet time | configure, verify, trigger, receive, restore, save | `TxTest` |
| PHY set-up, MDIO | `fpga_setup.c`, `fpga_config.c`, `fpga_mdio.c`, `config.h` | kernel's ARP entry, PHY registers | probe, poll, pin, twenty writes; a read: one request, one answer | `KszSetup` |
| statistics | `iface_stats.c`, `net_stats.c`, `fpga_stats.c`, `main.c` | counters of the interface, the kernel and the FPGA | read, decode, subtract | `LossRow` |
| CSV logs | the seven `append_*_csv` | a file per kind of row | look for it, open, header, row, close | `CsvLog` |
| sweep | `scripts/etherbench_sweep.py` | logs, manifest, summaries | run, record, summarise | `Sweep`, `TestOutcomes` |
| plots, comparison | `etherbench_sweep.py` | – | SVG, merging of CSVs | not modelled: output |
| argument parsing | `main.c` | – | range checks | not modelled |
| `fpga-net`, `fpga-test` | `main.c`, `fpga_config.c` | – | one datagram | not modelled |

How they meet: the three measuring commands call the loopback mode pair, which calls the
status query and the FPGA commands; they share the FPGA's bits and the CSV logs.  The
sweep calls the measuring commands as processes, and sees their exit codes and rows only.

What is hard, part by part, and what makes it correct:

* **Loopback mode.**  The command toggles; query, answer and toggle may each be lost; the
  answer may have gone to another process (`SO_REUSEADDR`), and any datagram to the port is
  taken for it.  Correct: a call that returns 0 leaves the mode it asked for; nothing a
  lone call does moves the FPGA away from what it asks; every call returns.
* **RTT test.**  An echo after its timeout, twice, not at all, or of an earlier run, whose
  numbers are the same.  Correct: each sample belongs to one packet; an old echo that passed
  for a packet's own is exposed by that; the saved row adds up; losing packets, which is what
  is measured, does not abort the test.
* **Loopback load test.**  Losses of three segments are computed from four counters read at
  four moments with control frames counted in between; the last drain gives up after a
  quiet time.  Correct: a gap is what truly disappeared in its segment; a loss is never
  understated; the command ends, with the promised rows.
* **TX test.**  Toggles survive the run; a run that fails after the content command leaves
  the bit behind; the trigger may be lost.  Correct: the FPGA is only triggered as asked;
  a reported loss is a loss; one run's toggles cancel out; what a failed run does to the
  next is bounded.
* **PHY set-up.**  A register is reached through an address/data pair, one unacknowledged
  write at a time, possibly continuing where a run that was cut short stopped, possibly to an
  address that is no longer the FPGA's; a read takes the next datagram for its answer.
  Correct: a run that loses nothing configures the PHY whatever it found, a lost write spoils
  little, and reading a register back tells.
* **Statistics.**  Counters are read one after the other while frames pass, a file that cannot
  be read counts as 0, an FPGA that was reset starts again at 0, its counters have 40 bits, and
  two status frames have to be taken off.  Correct: the row is exact when nothing of that
  happens, and what is invented otherwise shows.
* **CSV logs.**  Looking for the file, creating it and writing the header are three steps of a
  process that others may overlap with, or that is killed; the write itself is not checked.
  Correct: a saved row is there once; overlapping runs do not lose the header; a log created
  undisturbed stays readable.
* **Sweep.**  Exceptions, Ctrl-C, a killed script, hanging children, full disks, dry runs, and
  a restart that appends to the same directory.  Correct: manifest, logs and summaries agree; a
  sweep that ended has every planned run recorded, below one header.

The hazards with their lines are listed in `PROJECT.json`, each with the properties that
would notice it.

## 2. Modules, and how they correspond to the code

```
LoopbackSwitch <--refines-- LoopbackMode --- MCLoopbackMode
      |  CallOutcomes           `----------- LoopbackModeProofs (TLAPS)
      +--> RttTest, LoopbackTest, TxTest --promise--> TestOutcomes <-- Sweep --- MCSweep
KszSetup        LossRow        CsvLog --- MCCsvLog

RttTest, LoopbackTest, TxTest, KszSetup, LossRow, CsvLog, Sweep: each is extended by a
module of the same name with -Proofs at its end (TLAPS)
```

The composition is by contract, one level at a time.  `LoopbackMode` is shown (checked and
proved) to implement `LoopbackSwitch`; the three tests take a call of the pair as one step
with the outcomes `LoopbackSwitch!CallOutcomes`.  Each test is in turn checked to end as
`TestOutcomes` promises (`EndsAsPromised`), and `Sweep` takes one process as one step with
those outcomes.  `LossRow` goes below `LoopbackTest`, which takes a snapshot as one step and
counters as natural numbers; `CsvLog` goes below every step that adds a row.

**LoopbackSwitch** — the abstract specification of
`fpga_enable_loopback_if_needed` / `fpga_disable_loopback_if_needed`: a mode that moves
only during a call and only towards what the call asks for.

**LoopbackMode** — one client per process.  `pc[c]` is the place in the call (`ask`,
`bound`, `await` for each of the two queries; `toggle`; `sleep`), `got[c]` the first
datagram queued on its status socket, `net` the datagrams in flight.  `BindSocket`,
`SendRegstats`, `Timeout`, `BadFrame` and the delivery are `query_fpga_stats`;
`AlreadyThere`, `MustToggle`, `SendToggle`, `WakeUp`, `Confirm` are the branches of the two
functions, which differ only in the bit they want.  `LocalFailure` is any failing
socket call.  The network loses and reorders; `Deliver` gives an answer to *any* open
status socket; `StrayDatagram` puts something else first.  With `Prompt` a datagram is
delivered or lost within the wait of the process that caused it (3000 ms for an answer,
500 ms for a toggle); without it, one that outlives its wait makes every client that is at
it a disturbed one (`WaitIsOver`), and may be read by any later query.  Two equal datagrams
in flight are one; doubled ones are not modelled here.

**RttTest** — `send_and_receive_once` as `SendPacket` and then one of `EchoIsMine`,
`EchoIsNotMine`, `ReceiveFails`, `Timeout`; the loop over probes and packets as `seq`;
`main.c`'s saving as `SaveRow`.  `queue` is the socket, `air` what is in flight.  The samples
are pairs (packet sent, echo read) in the place of times.  Every run numbers its packets from
0 and fills them alike, and `recvfrom` cuts a datagram to the size of a packet, so the echo
`OldEcho(s)` of packet `s` of an earlier run, of at least that size, passes for that of
`s` (`Passes`); `inherited` are those in flight when the run starts.

**LoopbackTest** — one action per step of the command in `main.c` (`Enable`,
`SnapshotFpga`, `SnapshotHost`, `OpenSockets`, `Disable`, `WriteRow`) and per turn of the
loops of `fpga_loopback_load.c` (`SendPacket`, `DrainInner`, `SendLoopEnds`, `DrainPacket`,
`DrainPoll`, `DrainFails`).  `count` are the four counters as they are, `snap` what was read of them;
the gaps are computed from `snap` exactly as `append_loopback_loss_csv` does.  `lost`,
`foreign`, `unasked`, `late` are history: what truly happened.  `FloodPacket` is a packet the
FPGA sends of itself: within the fault budget, or without bound under `Flood`.

**TxTest** — `StartRun`, `LeaveLoopback`, `Configure` (three commands), `Verify`,
`Snapshots`, `Trigger`, `ReceivePacket`/`ReceivePoll`/`AllReceived`/`ReceiveFails`
(`receive_until_done`; a failing `recvfrom` ends its loop, or its last drain with packets still
queued), `ExtraDrain`, `Restore`, `Save`.  `fpga` holds the settings, which
outlive a run; a run may start with packets of the one before still on the wire.

**KszSetup** — the commands `fpga-arp`, `fpga-setup`, `mdio-seq` with the four operations that
read a register back ("check"), and `mdio-read` of 0x0D ("peek").  `SendProbe`, `PollArp`,
`PinArp` are `fpga_arp_setup`: `found` is the address `read_arp_table` saw, fresh or
stale, which is pinned later, whatever the kernel has learnt since.  `Write`, `SendRead` and
`EndRead` are one turn of `fpga_mdio_run_sequence`; `Op` is the table of `config.h`.
`PhyWrites` and `PhyHolds` are the PHY's indirect access, external.  `air` are answers in
flight, possibly to a read that has timed out; `got` is the first datagram on the socket.

**LossRow** — the readings of `fpga-loopback-test` in their order: the status frame
(`ReadFpga`), `rx_packets` and `tx_packets` (`ReadIface`, a file each, 0 if it cannot be read),
`/proc/net/snmp` (`ReadSnmp`, all or nothing), and the load test's own two readings of
`tx_packets` (`ReadTx`).  `count` are the counters modulo their width, `snap` what the
program has of them; `HostCounts` is where those of the interface may stand at first, far
enough from the end of their 64 bits that the run does not reach it (`HostAssumption`);
`Reported`, `Measured` and the gaps are computed from `snap` in
`uint64_t` and `int64_t`.  Between readings a `Packet` passes or is lost, others broadcast, the
FPGA is `Reset`.  The widths are scaled: what matters is that the smaller fits several times
into the larger.  `udpOut` stands for the counters of `/proc/net/snmp`, and the counters of
bytes, errors and drops are treated as those of packets are.

**CsvLog** — a run is a process that appends one row.  `Check`, `Open`, `Write`/`WriteShort`
and `Close` are `file_exists`, `fopen`, the write that `fclose` does (header and row together
are shorter than stdio's buffer: at most 1037 bytes of header and a row of 51 numbers) and
the return.  `WriteShort` is a full disk: of header and row, what comes before the place it
stopped at (`Pieces`).
`Kill` may come at any time before the process is done.  `Readable` is what `read_csv` and
the conversions of the summaries need.

**Sweep** — `StartSweep` (after what `Refuse` stands for: payloads that cannot be parsed, a
missing binary), `RunRttOrLoopback`/`RunTx`/`Hang` (one `subprocess.run`), `DryRun` (none, and
`returncode` stays 0), `Record` (manifest row and flush), `LoopsEnd`,
`OpenSummary`/`FillSummary`/`SummarizeReturns` (truncation and writing are two steps),
`SummarizeRaises`, `Rebuild` (the `summarize` command), `Interrupt` (Ctrl-C, or an exception
at the manifest row) and `Crash` (the script is killed; its child may go on alone).  The
`finally` of `run_sweep` is the call of `Summarize` with `last` true.  The plot drawn beside
each summary is part of `FillSummary`; its failing is part of `SummarizeRaises`.

A log is a number of whole rows, and what `CsvLog` shows may happen to it: a row that a full
disk or a kill cut short is counted in `short`, whatever exit code the process had, a log whose
end is a piece of a row, or that is empty without a header, is `torn`, and takes the next row
with it; one that has a line which is no row is `spoilt`, and `summarize` may raise at it every
time (it reads all logs before it writes any summary).  The `dry` field of a manifest row is
not in the file, where a dry run looks like a success; `LogsMatchManifest` uses it to tell
them apart.

## 3. Runs

| run | spec and bounds | what it shows |
|---|---|---|
| `loopback_one` | one client | `LoopbackMode` implements `LoopbackSwitch` (`ImplementsSwitch`); every call returns (`CallReturns`) |
| `loopback_two` | two clients, symmetry, a late network | the inductive invariant `Inv` used in the proofs; `SuccessMeansMode` and `TogglesTowardsGoal` when calls may overlap and datagrams outlive their waits, of those calls that neither disturbed |
| `loopback_race` | two clients | *violated*: `ToggleOnlyIfEnabled` |
| `loopback_test` | 3 packets, 2 faults, room for 1, drain every 2 | the loss row locates losses (`GapsLocateLosses`), accounts for every packet (`NothingDisappears`), never understates (`LossNeverUnderstated`); the command keeps its promise and ends |
| `loopback_flood` | a flooding FPGA, counters that saturate | *violated*: `DrainEnds` |
| `rtt_test` | 1 probe, 3 packets, 2 odd datagrams, 2 old echoes | `SamplesAreOwn`, `DeceptionIsExposed`, `OnlyOddDatagramsAbort`, promise, termination |
| `tx_test` | 2 runs, counts 1 and 2, 2 payloads, 3 contents by 2 bits, 2 faults | `TriggeredAsAsked`, `RowReportsLosses`, `SuccessRestoresContent`, promise, `EndsAfterFirstPacket` |
| `tx_hang` | 1 run, 1 fault | *violated*: `RunEnds` |
| `ksz_setup` | 3 runs of any command, 2 lost writes, 1 poll, 2 registers read back | `DamageIsConfined`, `ReadBackIsTrue`, `StalePinShows`, termination |
| `sweep` | 2 sweeps of 3 tests, dry or not, 1 point, 2 faults | `LogsMatchManifest`, `SummariesAreCurrent`, `EveryRunIsRecorded`, `TroubleSpoilsOneMore` |
| `csv_log` | 4 runs on one log, symmetry, any of them killed or with a full disk | `HeaderSurvives`, `SavedRowsSurvive` |
| `loss_row` | 2 packets, 2 foreign frames, 2 resets, 2 unreadable files, FPGA counters at 0, 3, 6, 7 of 8, those of the interface at 5 of 64 | `RowIsExact`, `InventedFramesShow`, `ResetOnlyMisplaces` |

### Why the bounds are enough

* *Clients*: the hazards of a second process are pairwise.  Calls are unlimited in number,
  so a disturbed call may follow any other; the proofs cover any set of clients.
* *`loopback_test`*: three packets with a drain at indices 0 and 2 give a stretch without a
  drain, in which a queue of one overflows; two faults put two losses in one segment or in
  two, or a loss beside a foreign frame or a packet nobody asked for.
* *`rtt_test`*: with a probe (the code has three, all alike) and three packets an odd echo may
  fall on a probe, on a measured packet, or two packets later; two odd ones include a late
  echo that is also doubled; two old echoes may deceive two packets, or the last and another.
* *`tx_test`*: the second run finds what the first left, and the initial settings are
  arbitrary, so it stands for any run after any history.  Counts of 1 and 2 tell a lost
  first packet from a lost last one and let a run inherit a wrong count.
* *`ksz_setup`*: two lost writes may hit the same register, neighbours, or two runs.  Of three
  runs the first may leave the indirect access anywhere by failing, the second be the set-up
  and the third read back; or the first two reads, whose answers come late.  The registers
  read back are the first and the last of the table.
* *`csv_log`*: two runs race for the creation, a third is killed or meets a full disk, a fourth
  appends to what that left.
* *`loss_row`*: a counter of 8 wraps within the few frames of a run from 6 and 7, not from 0 and
  3; two resets may lie on both sides of a reading; two unreadable files may be both readings
  of a counter.
* *`sweep`*: the second sweep appends to what the first left; two faults let a crash, or a
  second short write, follow a failure; one run of each test is every kind of step and every kind of neighbour.
* The bounds on faults (`FaultBudget`, `OddBudget`, `LossBudget`), runs (`MaxRuns`,
  `MaxSweeps`) are in the guards and nowhere in the properties.  `CountCap` makes the
  counters of `loopback_flood` stop, where the FPGA sends for ever; it is 0, for no cap, in
  `loopback_test`.

Deadlock is checked for `LoopbackMode`, where a call can always be made; the other modules
stop when the command has ended or its bound of runs is used up.

### Fairness

`WF` of the host's steps (`Host`, `Setup`, `Step` of `LoopbackMode`): a process that was started is scheduled
and its waits expire; they are sequential code with `SO_RCVTIMEO` and `usleep`.  `WF` of the
network: no datagram stays in flight for ever; it arrives *or is lost*, so nothing is ever
assumed to arrive.  Failures, losses beyond that, odd datagrams, broadcasts, interrupts,
crashes and failing receives carry no fairness and may never happen.  `KszSetup` does not
assume that the kernel learns the address, `LoopbackMode` not that calls are made.

Of a sweep no liveness is claimed: the script waits for a child without a timeout, and a child
may hang (`tx_hang`, `loopback_flood`); only the operator ends it then (`Interrupt`).

### What is assumed

* `CallReturns`, `ImplementsSwitch` and the theorem `Refinement` take the network to be prompt:
  a datagram of a query or toggle is delivered or lost within the wait of its process.  The
  invariant and the two safety properties do not.
* In `LoopbackTest` a snapshot is one step and counters are not reset; `LossRow` has it the
  other way round, with the traffic of the test reduced to whole packets.
* In `TxTest` a command is obeyed before the query that verifies it is answered, or never: on a
  direct cable nothing overtakes and nothing waits for seconds.  A toggle that comes twice is
  one that was lost; the other commands may come any number of times.
* No process but etherbench writes to the logs, and `O_APPEND` puts a write at the end.
* A failing `fopen` of the existence check means that the file is not there.
* In `Sweep`, a child does what the models of the tests showed; child processes of `rtt`
  and `loopback` do not depend on what they find in the FPGA, apart from failing.  A child that
  outlives a killed script is done before the next sweep starts.
* What a process has written to a file and closed or flushed stays there.  Neither the script nor
  the program calls `fsync`, so a machine that loses power may lose rows of a log and keep their
  manifest row, or the reverse; that is not modelled, and the properties do not claim it.
* A manifest row is written whole or not at all: with a full disk `writerow` or `flush` raises,
  and a piece of a line that stays in `sweep_runs.csv` is not modelled.  Nothing reads that file.
* The statistics (averages, goodput, wire rates) are computed from counters that are
  modelled, and are themselves left out.

## 4. Disagreements found

* `loopback_race`: `fpga_loopback_mode.c:104` says the toggle is "only sent if loopback is
  currently enabled".  It is sent if it *was* when the FPGA answered; another process may
  toggle in between.
* `loopback_flood`: the last drain is documented as waiting at most 1000 ms
  (`fpga_loopback_load.c:582`).  Its total clock advances only while nothing arrives.
* `tx_hang`: `receive_until_done` looks at the quiet time only after a first packet
  (`fpga_tx_test.c:121`), so a lost trigger leaves the command, and a sweep, waiting.

Four things the models show that the documentation is vague about: a failed
`fpga-loopback-test` or `fpga-rtt` may leave loopback on (`EndsAsPromised`, the outcomes of
`TestOutcomes`); "KSZ9031 1GbE configuration completed" says that the writes were sent,
not that they arrived (`DamageIsConfined`); the probe of `fpga-arp` (`fpga_config.c:153`) forces
Linux to resolve the address only if it has no entry for it: a stale or permanent one, of a
board that was replaced, is read back at once by `read_arp_table`, which does not look at its
flags, and pinned with "FPGA ARP OK" (only a read tells, `StalePinShows`); and the rows of a dry
run are not marked in `sweep_runs.csv`, where they look like successes (`LogsMatchManifest`).

## 5. Proofs

Each safety property of a passing run is a theorem of its module's specification, together
with the type invariant, `TypeCorrect`.  The constants are bounds in the runs and arbitrary
in the theorems: any number of packets, probes, runs, lost datagrams and so on.

| module | theorems, with the property each states |
|---|---|
| `LoopbackModeProofs` | `Invariance` (`Inv`), `SuccessIsSound` (`SuccessMeansMode`), `TogglesAreSound` (`TogglesTowardsGoal`), `Refinement` (`ImplementsSwitch`) |
| `RttTestProofs` | `SamplesOwned` (`SamplesAreOwn`), `DeceptionShows` (`DeceptionIsExposed`), `LossNeverAborts` (`OnlyOddDatagramsAbort`), `KeepsPromise` (`EndsAsPromised`) |
| `LoopbackTestProofs` | `AllAccountedFor` (`NothingDisappears`), `GapsAreLosses` (`GapsLocateLosses`), `NeverUnderstated` (`LossNeverUnderstated`), `KeepsPromise` (`EndsAsPromised`) |
| `TxTestProofs` | `TriggersAsAsked` (`TriggeredAsAsked`), `RowsReportLosses` (`RowReportsLosses`), `ContentRestored` (`SuccessRestoresContent`), `KeepsPromise` (`EndsAsPromised`) |
| `KszSetupProofs` | `ReadBack` (`ReadBackIsTrue`), `StalePinExposed` (`StalePinShows`), `DamageConfined` (`DamageIsConfined`) |
| `LossRowProofs` | `ExactRow` (`RowIsExact`), `InventionShows` (`InventedFramesShow`), `ResetMisplaces` (`ResetOnlyMisplaces`) |
| `CsvLogProofs` | `RowsSurvive` (`SavedRowsSurvive`), `HeaderKept` (`HeaderSurvives`), `LogReadable` (an undisturbed log stays a table; proved only) |
| `SweepProofs` | `PlanRecorded` (`EveryRunIsRecorded`), `LogsAndManifest` (`LogsMatchManifest`), `SummariesCurrent` (`SummariesAreCurrent`), `OneMoreSpoiled` (`TroubleSpoilsOneMore`) |

Since `LoopbackMode` implements `LoopbackSwitch` for every interleaving of one client and a
prompt network, and each test takes a call with `LoopbackSwitch`'s outcomes and is proved to
end as `TestOutcomes` says, what is proved of a sweep rests on the datagrams as far as those
two conditions go.

### The arguments

**LoopbackMode.**  `SuccessMeansMode` is about the instant a call returns; it is not inductive,
since whether the answer read then is still true depends on what may be in flight.  `Inv`
says, of a client that has been alone since its call began: everything in flight is its own
(`AloneMeansAlone`); a closed socket holds nothing (`SocketClosedIsEmpty`: answers to an
earlier call were thrown away with its socket); every answer that it has or may still get
shows the present mode, and no toggle is under way while it waits (`AnswersAreFresh`); a
toggle in flight is needed, and with it in flight the mode is still the unwanted one
(`TogglingIsNeeded`).  Each action disturbs one or two of these and is restored by the rest:
`WakeUp` and `Timeout` are where the promptness of the network enters: what they waited for
has arrived or is lost, or else nobody counts as alone any more (`WaitIsOver`); `StartCall` is
where the socket's closing does.  For the refinement, `SoleInv` adds that the
only client is alone in each of its calls and that no toggle outlives its call; without it
an idle FPGA could move.

**RttTest.**  `CountInv` ties the sequence number to the counters and the place in the code,
and the samples to packets before the present one: each packet adds one sample or one
loss, so the samples are in order and the row adds up.  The other two properties are about
echoes that are *not* read yet.  `TrapInv` says that the own echo of a packet that was deceived,
once it is back, waits in the queue before any echo of the last packet (`EchoWaits`): the
queue is read from its head, so the test cannot reach its end past it.  `OrdinaryInv` says that
while nothing odd has happened there is at most one echo of each packet anywhere, and one of a
packet that is done with only if an old echo could have passed for it.

**LoopbackTest.**  The gaps are differences of counters read at four moments, so the invariant
has to remember what they were.  `CountInv` has a conservation law (`PacketsKept`: sent
packets and unasked ones are on their way, queued, drained or lost in one place), the counters
as sums of it (`CountersCount`), and what the four snapshots say of counters at *their* moment
(`SnapshotsHold`), with foreign frames as slack and the status queries counted apart.  Each
theorem is then arithmetic on the final state.

**TxTest.**  `TriggerInv`: between the check and the restoration the FPGA is set as asked, since
`Verify` lets nothing else through and nobody else sends commands.  `LossInv` bounds lost,
received, queued and flying packets by those asked for plus `surplus`, and from below until
the drain gives up.  `ToggleInv` counts the toggles of one content bit: none, one, and, where every
command arrived, two.

**KszSetup.**  `ReadInv`: a run of "check" that lost nothing has taken the indirect access to data
mode and its register, step by step (`CheckArrives`), so any answer that can end its read tells
the register's content (`AnswersAreTrue`).  `PinInv` is about who sent that answer, whatever was
lost: one comes into flight only while the entry is the FPGA's, and a pinned entry does not
change (`AnswersAreTheFpgas`).  `DamageInv`: each lost write pays for two wrong
registers, one that it should have set, and one that the indirect access still points to and
the next data hits.  The second is paid for in advance (`PaidAhead`) as long as the indirect
access may be misplaced; that is why a budget of two per loss is what is proved, and what
`DamageIsConfined` says.

**LossRow.**  Besides `PassedTrue`, `HostReadings` and `FpgaReadings` say, reading by reading
(`Stage`), how the value the program has relates to what had passed then: it is that, or 0 from
a file that could not be read; and for the FPGA at most what passed since the first reading,
exactly that if there was neither reset nor wrap-around, or the `uint64_t` below 0 where the
status frame was taken off a counter of 0.  The wide and the narrow counter need only fit four
times into each other, for the signed gaps.

**CsvLog.**  `RowsInv`: no line of a run is in the file before it has written, none is there twice,
a torn line is already spoilt, and the runs without their row, plus one if the end of the file is
torn, are at most two for each short write.  `TableInv`: undisturbed, at most one run would
still write a header; until it has, nobody else writes, and once there are lines, nobody will.
`HeaderInv` holds without that calm: whoever is about to open a file that is not there will write
the header, so the first to open it does, unless it is killed or the disk is full.

**Sweep.**  `RowsInv`: the rows of this sweep are the first part of its plan, one for each run
before the present one; a header is owed exactly by a sweep that found none and is still
running.  `LogsInv` counts a success that waits for its manifest row (`Waiting`), and takes from
what the short writes of a log allow the row that a torn end is going to cost (`Doomed`): a
short write pays for two rows, its own at once and the next one when it comes.  `SummaryInv`
follows the list of summaries still to be written in a call: those already written show
their logs, and a test without rows has none to be rewritten.  `CleanInv`: after
an untroubled "tx" run the bit it uses is off, unless the random one hid it.

### Assumptions of the theorems

* `LoopbackMode`: `Prompt` is a Boolean; `Refinement` assumes `Clients = {TheClient}` and
  `Prompt`, which are its subject.
* `RttTest`, `TxTest`, `KszSetup`, `Sweep`, `LoopbackTest`: the assumption on constants in the
  module, that they are numbers, lists and sets of the right kind and not empty where the
  program refuses 0.
* `LoopbackTest`: `AllAccountedFor`, `GapsAreLosses` and `NeverUnderstated` assume
  `CountCap = 0`, that is, counters that count; the cap is a device of `loopback_flood`.  They
  hold for a flooding FPGA as well.
* `CsvLog`: the set of runs is finite (`RunsAssumption`).
* `LossRow`: a 40 bit counter fits four times into a 64 bit one (`WidthAssumption`), and the
  64 bit counters of the interface do not come to their end during the run (`HostAssumption`); at
  full speed that takes thousands of years.  The narrow counters may wrap.

The invariants named here were checked by TLC on the runs' instances before they were proved.

### What is only model-checked

Liveness, since fairness and `ENABLED` are outside the prover's reach: `CallReturns`, `RttTest` and
`LoopbackTest` `Terminates`, `EndsAfterFirstPacket`, `KszSetup` `RunEnds`.  The three
runs that expect a violation have nothing to prove.

## 6. Plan

Done: the modules above, in the order loopback mode (the pair everything calls), the
three tests, the PHY set-up, the sweep, then the two layers below the tests, `CsvLog` and
`LossRow`; the runs; and the proofs of all their safety properties.

Next:

1. The composition.  `RttTest` and `LoopbackTest` take a call of the pair as one step with
   `LoopbackSwitch!CallOutcomes`; state as a theorem that every call of `LoopbackSwitch`, taken
   from its start to its return, has one of those outcomes.
2. `TestOutcomes` for several tests on one FPGA: that the outcomes `Sweep` takes keep its
   loopback bit as the next test needs it.
3. Shorter proofs where a lemma on queues or counters serves two modules.

## 7. Not modelled

* *Plots and `compare`*: SVG files and merged summaries are output, with no state that a later
  command reads.
* *Argument parsing*: `strtol` with a range check per argument; the modules take arguments that
  have passed it.
* *`fpga-net`, `fpga-test`, flood mode as a command*: one datagram each, nothing kept on the
  host; what a flooding FPGA does to a test is in `LoopbackTest`.
* *A lone `mdio-write`, and sequences other than the read-back*: the operations are those of
  `Write` and `SendRead`, the order is the operator's.
* *Pacing and rates*: waits that change no state, and floating point numbers computed from
  counters that are modelled.
