-------------------------------- MODULE Sweep --------------------------------
(***************************************************************************)
(* "etherbench_sweep.py run" (run_sweep): every test at every point, one   *)
(* etherbench process after the other, a manifest row after each, and the  *)
(* summaries rebuilt from the logs of those processes, after each run if   *)
(* asked for and at the end in any case.  What a process does is what      *)
(* TestOutcomes promises of it, and what becomes of the row it writes when *)
(* the disk is full is what CsvLog says.  A sweep may be cut short by an   *)
(* exception, by the operator or by being killed, and started again on the *)
(* same directory, where it appends; with --dry-run it only fills the      *)
(* manifest.  "etherbench_sweep.py summarize" rebuilds the summaries.      *)
(***************************************************************************)
EXTENDS Integers, Sequences, FiniteSets

CONSTANTS
  Tests,         \* --tests: a sequence of "rtt", "loopback", "tx"
  Points,        \* payloads times --repeat: the runs of each test
  MaxSweeps,     \* bound: sweeps on the directory
  FaultBudget    \* bound: troubled runs, hangs, failures, short writes and cuts

ASSUME SweepAssumption ==
  /\ Tests \in Seq({"rtt", "loopback", "tx"})
  /\ Points \in Nat \ {0}
  /\ MaxSweeps \in Nat /\ FaultBudget \in Nat

Promise == INSTANCE TestOutcomes

VARIABLES
  pc,        \* "off", "command", "hung", "record", "open" or "fill"
  opts,      \* the options of this sweep
  k,         \* the run to start next, in the order of the three loops
  code,      \* returncode of the last one
  todo,      \* summaries still to write in this call of summarize
  finally,   \* that call is the one that ends the process
  pending,   \* how the process will then have ended
  ended,     \* how the last process ended
  bits,      \* the content bits of the FPGA
  logs,      \* whole rows in the log of each test
  torn,      \* logs where the next row will not be one: it goes on where a piece of
             \* one ends, or is taken for the header that is not there
  spoilt,    \* logs with a line that is not a row, or will get one
  manifest,  \* rows of sweep_runs.csv
  header,    \* header lines in sweep_runs.csv
  owed,      \* the header is still in the buffer
  summary,   \* the log rows each summary shows, or Torn
  sweeps, faults,   \* how much of the bounds is used up
  cut,       \* history: runs that never got their manifest row
  clean,     \* history: the last "tx" run of these options was untroubled
  short      \* history: rows of each log that a full disk or a kill cut short

fpga == <<bits, clean>>
files == <<logs, torn, spoilt, short>>
record == <<manifest, header, owed, cut>>
call == <<todo, finally, pending>>
vars == <<pc, opts, k, code, call, ended, fpga, files, record, summary, sweeps, faults>>

Torn == -1      \* truncated when opened, not yet written
Last == Len(Tests) * Points
TestOf(n) == Tests[((n - 1) \div Points) + 1]
Logs == {"rtt", "load", "loss", "tx"}
Summaries == <<"rtt", "loopback", "tx">>
LogsOf(test) == IF test = "loopback" THEN {"load", "loss"} ELSE {test}
FirstLog(test) == IF test = "loopback" THEN "load" ELSE test

\* With --dry-run nothing looks at --stop-on-error and at the updates after each run.
Options ==
  [mode : Promise!Contents, stop : BOOLEAN, update : BOOLEAN, dry : {FALSE}]
  \cup [mode : Promise!Contents, stop : {FALSE}, update : {FALSE}, dry : {TRUE}]

\* A row of sweep_runs.csv; that it is of a dry run is not in the file.
Rows == [sweep : 1..MaxSweeps, run : 1..Last, code : {0, 1}, dry : BOOLEAN]

TypeOK ==
  /\ pc \in {"off", "command", "hung", "record", "open", "fill"}
  /\ opts \in Options
  /\ k \in 1..(Last + 1)
  /\ code \in {0, 1}
  /\ todo \in Seq({"rtt", "loopback", "tx"})
  /\ finally \in BOOLEAN /\ owed \in BOOLEAN /\ clean \in BOOLEAN
  /\ {pending, ended} \subseteq {"none", "ok", "error", "rebuilt", "crash", "broken", "refused"}
  /\ bits \in [Promise!Contents -> BOOLEAN]
  /\ logs \in [Logs -> Nat]
  /\ torn \subseteq spoilt /\ spoilt \subseteq Logs
  /\ short \in [Logs -> Nat]
  /\ manifest \in Seq(Rows)
  /\ header \in Nat /\ cut \in Nat
  /\ summary \in [Logs -> Nat \cup {Torn}]
  /\ sweeps \in 0..MaxSweeps /\ faults \in 0..FaultBudget

Init ==
  /\ pc = "off"
  /\ opts = [mode |-> "random", stop |-> FALSE, update |-> TRUE, dry |-> FALSE]
  /\ k = 1 /\ code = 0
  /\ todo = <<>> /\ finally = FALSE /\ pending = "none" /\ ended = "none"
  /\ bits \in [Promise!Contents -> BOOLEAN] /\ clean = FALSE
  /\ logs = [f \in Logs |-> 0] /\ torn = {} /\ spoilt = {}
  /\ short = [f \in Logs |-> 0]
  /\ manifest = <<>> /\ header = 0 /\ owed = FALSE /\ cut = 0
  /\ summary = [f \in Logs |-> 0]
  /\ sweeps = 0 /\ faults = 0

-----------------------------------------------------------------------------
(* run_sweep                                                               *)

Fault == faults < FaultBudget /\ faults' = faults + 1

\* Entering summarize; "last" when it is the one of "finally", before which the
\* manifest has been closed, and its buffer with the header written out.
Summarize(last, end) ==
  /\ pc' = "open"
  /\ todo' = Summaries
  /\ finally' = last
  /\ pending' = end

\* The process ends, and its variables with it.
Over(end) ==
  /\ pc' = "off" /\ ended' = end
  /\ k' = 1 /\ code' = 0
  /\ todo' = <<>> /\ finally' = FALSE /\ pending' = "none"

CloseManifest ==
  /\ header' = IF owed THEN header + 1 ELSE header
  /\ owed' = FALSE
  /\ UNCHANGED manifest

\* The payloads cannot be parsed, the directory not be made, or the binary is not
\* there: that is before the "try", and "finally" is not passed by.
Refuse ==
  /\ pc = "off"
  /\ ended' = "refused"
  /\ UNCHANGED <<pc, opts, k, code, call, fpga, files, record, summary, sweeps, faults>>

\* The manifest is opened for appending, and gets a header if it is empty; if it
\* cannot be opened that is an error like any other.
StartSweep(o) ==
  /\ pc = "off"
  /\ sweeps < MaxSweeps
  /\ sweeps' = sweeps + 1
  /\ opts' = o
  /\ k' = 1
  /\ ended' = "none"
  /\ \/ pc' = "command" /\ owed' = (header = 0) /\ UNCHANGED <<call, faults>>
     \/ Fault /\ Summarize(TRUE, "error") /\ UNCHANGED owed
  /\ clean' = (clean /\ o.mode = opts.mode)
  /\ UNCHANGED <<code, bits, files, manifest, header, cut, summary>>

\* subprocess.run has returned c: with --stop-on-error a failure raises, before
\* the manifest row is written.
Returned(c) ==
  /\ code' = c
  /\ IF c # 0 /\ opts.stop
       THEN Summarize(TRUE, "error") /\ CloseManifest /\ cut' = cut + 1
       ELSE pc' = "record" /\ UNCHANGED <<call, record>>

\* Rows are written to these logs.  Those of "missing" do not get there whole, and of
\* those of "pieces" something does, or a log without a header.
Written(rows, missing, pieces) ==
  /\ logs' = [f \in Logs |-> IF f \in rows \ (missing \cup torn) THEN logs[f] + 1 ELSE logs[f]]
  /\ torn' = (torn \ (rows \ missing)) \cup pieces
  /\ spoilt' = spoilt \cup pieces
  /\ short' = [f \in Logs |-> IF f \in missing THEN short[f] + 1 ELSE short[f]]

\* The disk may be full when a row is written; the exit code is the same.
AddRows(rows, missing) ==
  /\ missing \subseteq rows
  /\ \E pieces \in SUBSET missing : Written(rows, missing, pieces)

\* --dry-run: nothing is run, and returncode keeps its 0.
DryRun ==
  /\ pc = "command" /\ k <= Last /\ opts.dry
  /\ code' = 0
  /\ pc' = "record"
  /\ UNCHANGED <<opts, k, call, ended, fpga, files, record, summary, sweeps, faults>>

\* The process of the next run is started.
Running(tests) == pc = "command" /\ k <= Last /\ ~opts.dry /\ TestOf(k) \in tests

RunRttOrLoopback ==
  /\ Running({"rtt", "loopback"})
  /\ \E o \in IF TestOf(k) = "rtt" THEN Promise!RttOutcomes ELSE Promise!LoopbackOutcomes :
       \E missing \in SUBSET o.rows :
         /\ IF o.code = 0 /\ missing = {} THEN UNCHANGED faults ELSE Fault
         /\ AddRows(o.rows, missing)
         /\ Returned(o.code)
  /\ UNCHANGED <<opts, k, ended, fpga, summary, sweeps>>

RunTx ==
  /\ Running({"tx"})
  /\ \E o \in {Promise!UntroubledTx(bits, opts.mode)} \cup Promise!TroubledTx(bits, opts.mode),
        missing \in SUBSET {"tx"} :
       /\ clean' = (o = Promise!UntroubledTx(bits, opts.mode))
       /\ IF clean' /\ missing = {} THEN UNCHANGED faults ELSE Fault
       /\ bits' = o[2]
       /\ AddRows(IF o[1] = 0 THEN {"tx"} ELSE {}, missing)
       /\ Returned(o[1])
  /\ UNCHANGED <<opts, k, ended, summary, sweeps>>

\* subprocess.run waits without a timeout for a process that never returns:
\* "fpga-tx-test" when its trigger was lost, "fpga-loopback-test" when packets keep
\* coming (DrainEnds in LoopbackTest).
Hang ==
  /\ Running({"loopback", "tx"})
  /\ Fault
  /\ IF TestOf(k) = "tx"
       THEN /\ ~Promise!Blocked(bits, opts.mode)
            /\ bits' = Promise!Flipped(bits, opts.mode)
            /\ clean' = FALSE
       ELSE UNCHANGED fpga
  /\ pc' = "hung"
  /\ UNCHANGED <<opts, k, code, call, ended, files, record, summary, sweeps>>

\* Mutant: a run that failed gets no row.
MutRecord ==
  /\ pc = "record"
  /\ manifest' = IF code = 0
                   THEN Append(manifest, [sweep |-> sweeps, run |-> k, code |-> code, dry |-> opts.dry])
                   ELSE manifest
  /\ header' = IF owed THEN header + 1 ELSE header
  /\ owed' = FALSE
  /\ k' = k + 1 /\ code' = 0
  /\ IF opts.update THEN Summarize(FALSE, "none") ELSE pc' = "command" /\ UNCHANGED call
  /\ UNCHANGED <<opts, ended, fpga, files, cut, summary, sweeps, faults>>

\* Mutant: "returncode" keeps the value it was initialised with.
MutRecordCode ==
  /\ pc = "record"
  /\ manifest' = Append(manifest, [sweep |-> sweeps, run |-> k, code |-> 0, dry |-> opts.dry])
  /\ header' = IF owed THEN header + 1 ELSE header
  /\ owed' = FALSE
  /\ k' = k + 1 /\ code' = 0
  /\ IF opts.update THEN Summarize(FALSE, "none") ELSE pc' = "command" /\ UNCHANGED call
  /\ UNCHANGED <<opts, ended, fpga, files, cut, summary, sweeps, faults>>

\* Mutant: the loop has moved on when the row is written.
MutRecordRun ==
  /\ pc = "record"
  /\ manifest' = Append(manifest, [sweep |-> sweeps, run |-> k + 1, code |-> code, dry |-> opts.dry])
  /\ header' = IF owed THEN header + 1 ELSE header
  /\ owed' = FALSE
  /\ k' = k + 1 /\ code' = 0
  /\ IF opts.update THEN Summarize(FALSE, "none") ELSE pc' = "command" /\ UNCHANGED call
  /\ UNCHANGED <<opts, ended, fpga, files, cut, summary, sweeps, faults>>

\* writerow and flush
Record ==
  /\ pc = "record"
  /\ manifest' = Append(manifest, [sweep |-> sweeps, run |-> k, code |-> code, dry |-> opts.dry])
  /\ header' = IF owed THEN header + 1 ELSE header
  /\ owed' = FALSE
  /\ k' = k + 1 /\ code' = 0
  /\ IF opts.update THEN Summarize(FALSE, "none") ELSE pc' = "command" /\ UNCHANGED call
  /\ UNCHANGED <<opts, ended, fpga, files, cut, summary, sweeps, faults>>

LoopsEnd ==
  /\ pc = "command" /\ k = Last + 1
  /\ Summarize(TRUE, "ok")
  /\ CloseManifest
  /\ UNCHANGED <<opts, k, code, ended, fpga, files, cut, summary, sweeps, faults>>

-----------------------------------------------------------------------------
(* summarize, summarize_rtt, summarize_loopback, summarize_tx              *)

\* write_summary opens the file, which truncates it.  Nothing is written of a test
\* without rows: of a log that is spoilt there may be some or none.
OpenSummary ==
  /\ pc = "open"
  /\ todo # <<>>
  /\ LET test == Head(todo)
         first == FirstLog(test)
     IN \/ /\ logs[first] = 0 \/ first \in spoilt
           /\ todo' = Tail(todo) /\ UNCHANGED <<pc, summary>>
        \/ /\ logs[first] # 0 \/ first \in spoilt
           /\ pc' = "fill"
           /\ summary' = [f \in Logs |-> IF f \in LogsOf(test) THEN Torn ELSE summary[f]]
           /\ UNCHANGED todo
  /\ UNCHANGED <<opts, k, code, finally, pending, ended, fpga, files, record, sweeps, faults>>

FillSummary ==
  /\ pc = "fill"
  /\ summary' = [f \in Logs |-> IF f \in LogsOf(Head(todo)) THEN logs[f] ELSE summary[f]]
  /\ todo' = Tail(todo)
  /\ pc' = "open"
  /\ UNCHANGED <<opts, k, code, finally, pending, ended, fpga, files, record, sweeps, faults>>

SummarizeReturns ==
  /\ pc = "open"
  /\ todo = <<>>
  /\ IF finally THEN Over(pending)
                ELSE pc' = "command" /\ UNCHANGED <<ended, k, code, call>>
  /\ UNCHANGED <<opts, fpga, files, record, summary, sweeps, faults>>

\* A file cannot be read or written, a plot not be drawn, or Ctrl-C is pressed; or
\* there is a line in a log that cannot be parsed, and all logs are read first.
Raised ==
  /\ pc \in {"open", "fill"}
  /\ Fault \/ (spoilt # {} /\ pc = "open" /\ todo = Summaries /\ UNCHANGED faults)

\* Mutant: the exception leaves run_sweep without passing by "finally".
MutSummarizeRaises ==
  /\ Raised
  /\ Over(IF finally THEN "broken" ELSE "error")
  /\ CloseManifest
  /\ UNCHANGED <<opts, fpga, files, cut, summary, sweeps>>

\* In the loop the exception leads to "finally", in "finally" it ends the process.
SummarizeRaises ==
  /\ Raised
  /\ IF finally
       THEN Over("broken") /\ UNCHANGED record
       ELSE Summarize(TRUE, "error") /\ CloseManifest /\ UNCHANGED <<ended, k, code, cut>>
  /\ UNCHANGED <<opts, fpga, files, summary, sweeps>>

\* "etherbench_sweep.py summarize" on the directory.
Rebuild ==
  /\ pc = "off"
  /\ Summarize(TRUE, "rebuilt")
  /\ ended' = "none"
  /\ UNCHANGED <<opts, k, code, fpga, files, record, summary, sweeps, faults>>

-----------------------------------------------------------------------------
(* What cuts a sweep short.                                                *)

\* A process has been started, and not been recorded.
Unrecorded == pc \in {"record", "hung"} \/ (pc = "command" /\ k <= Last)

\* Where it leaves the process of the run, if there is one.  It is killed too, or goes
\* on alone: a "tx" run may have toggled its bit, and the rows be written, of
\* "loopback" the first at least.  Killed after fopen, it leaves an empty log.
CutRun ==
  \/ UNCHANGED <<fpga, files>>
  \/ /\ Running({"rtt", "loopback", "tx"})
     /\ LET test == TestOf(k)
        IN /\ \/ \E rows \in {{}, {FirstLog(test)}, LogsOf(test)} : Written(rows, {}, {})
              \/ \E f \in LogsOf(test) :
                   /\ logs[f] = 0 /\ short[f] = 0
                   /\ Written({FirstLog(test), f}, {f}, {f})
           /\ IF test = "tx"
                THEN /\ bits' \in {bits, Promise!Flipped(bits, opts.mode)}
                     /\ clean' = FALSE
                ELSE UNCHANGED fpga

\* Ctrl-C before, during or after a run, or an exception when its manifest row is
\* written: "finally" is passed by.  A disk that is full takes no header either.
Interrupt ==
  /\ pc \in {"command", "hung", "record"}
  /\ faults < FaultBudget \/ pc = "hung"
  /\ faults' = IF pc = "hung" THEN faults ELSE faults + 1
  /\ Summarize(TRUE, "error")
  /\ CloseManifest \/ (owed' = FALSE /\ UNCHANGED <<manifest, header>>)
  /\ cut' = IF Unrecorded THEN cut + 1 ELSE cut
  /\ CutRun
  /\ UNCHANGED <<opts, k, code, ended, summary, sweeps>>

\* The script is killed, and its buffer lost; what it has flushed is the kernel's.
Crash ==
  /\ pc # "off"
  /\ Fault
  /\ Over("crash")
  /\ owed' = FALSE
  /\ cut' = IF Unrecorded THEN cut + 1 ELSE cut
  /\ CutRun
  /\ UNCHANGED <<opts, manifest, header, summary, sweeps>>

Step ==
  \/ DryRun \/ RunRttOrLoopback \/ RunTx \/ Record \/ LoopsEnd
  \/ OpenSummary \/ FillSummary \/ SummarizeReturns

Next ==
  \/ \E o \in Options : StartSweep(o)
  \/ Refuse \/ Step \/ Hang \/ SummarizeRaises \/ Rebuild \/ Interrupt \/ Crash

Spec == Init /\ [][Next]_vars

-----------------------------------------------------------------------------
(* Properties.                                                             *)

\* The runs that the manifest calls a success.
Recorded(f) ==
  Cardinality({n \in DOMAIN manifest :
                 /\ manifest[n].code = 0 /\ ~manifest[n].dry
                 /\ f \in LogsOf(TestOf(manifest[n].run))})

\* Manifest and logs agree over any number of sweeps on one directory.  A run that
\* was recorded as a success has its rows in the logs, dry runs apart, which the
\* manifest records as successes too; a row that was cut short costs itself and at
\* most the one written after it.  And a complete measurement without a manifest row
\* is one whose run was cut off from it (run_sweep, the append functions).
LogsMatchManifest ==
  \A f \in Logs :
    /\ Recorded(f) <= logs[f] + 2 * short[f]
    /\ f # "load" => logs[f] <= Recorded(f) + cut + (IF pc = "record" THEN 1 ELSE 0)

\* However a sweep ends, short of being killed, refused, or of summaries that cannot
\* be made, its summaries show all rows there are of each test (the "finally" of
\* run_sweep), and rebuilding them makes up for a kill.  That is of tests whose logs
\* have only rows; loss rows are shown beside load rows, if there are any.
SummariesAreCurrent ==
  pc = "off" /\ ended \in {"ok", "error", "rebuilt"} =>
    \A test \in {"rtt", "loopback", "tx"} :
      LogsOf(test) \cap spoilt = {} /\ logs[FirstLog(test)] # 0 =>
        \A f \in LogsOf(test) : summary[f] = logs[f]

\* The rows up to start are of earlier sweeps, the others the runs of this one in order.
InOrderFrom(start) ==
  /\ \A n \in 1..start : manifest[n].sweep < sweeps
  /\ \A n \in (start + 1)..Len(manifest) :
       manifest[n].sweep = sweeps /\ manifest[n].run = n - start

\* README: without --stop-on-error the script records the code and goes on.  So
\* a sweep that was not cut short has one row for each run planned, in order,
\* failed or not; and a sweep that was has those of a first part of the plan.  The rows
\* can be told apart: they have one header before them, whatever was killed.
EveryRunIsRecorded ==
  /\ \E start \in 0..Len(manifest) :
       /\ InOrderFrom(start)
       /\ pc = "off" /\ ended = "ok" => Len(manifest) = start + Last
  /\ header \in {0, 1} /\ (manifest # <<>> => header = 1)

\* What a failed "tx" run leaves in the FPGA spoils at most the next such run:
\* after one that was untroubled, one more that is untroubled succeeds, unless
\* the mode is "constant" and hidden by a random bit, which no run takes off.
TroubleSpoilsOneMore ==
  [][RunTx /\ clean /\ clean' => code' = 0 \/ (opts.mode = "constant" /\ bits["random"])]_vars
=============================================================================
