------------------------------- MODULE CsvLog -------------------------------
(***************************************************************************)
(* One log of etherbench, appended to by several processes.  Every append  *)
(* function (append_iface_stats_csv, append_net_stats_csv,                 *)
(* append_fpga_stats_csv, append_fpga_rtt_csv,                             *)
(* append_fpga_loopback_load_csv, append_loopback_loss_csv,                *)
(* append_fpga_tx_test_csv) does the same: look whether the file is there, *)
(* open it for appending, print the header if it was not there, print a    *)
(* row, close.  What is printed fits stdio's buffer: it reaches the file   *)
(* when it is closed, in one write at the end of the file, and the result  *)
(* of fclose is not looked at.  The sweep reads the log with a reader that *)
(* takes the first line for the header.                                    *)
(***************************************************************************)
EXTENDS Integers, Sequences, FiniteSets

CONSTANTS
  Runs,      \* the processes, each of which appends its row once
  Header,    \* the header line
  Garbled    \* a line cut short, and whatever is appended to it

ASSUME LineAssumption == Header # Garbled /\ Runs \cap {Header, Garbled} = {}
ASSUME RunsAssumption == IsFiniteSet(Runs)

VARIABLES
  pc,        \* "check", "open", "write", "close", "saved", "failed" or "killed"
  writeHeader,   \* write_header of each run
  exists,    \* the file is there
  lines,     \* its lines; a run stands for the row it wrote
  torn,      \* the last line has no newline
  alone,     \* history: while the file was created, no other run looked for it
  creatorKilled,  \* history: a run was killed that had opened the file and still had
                  \* the header in its buffer
  short      \* history: writes that stopped half way

marks == <<alone, creatorKilled>>
vars == <<pc, writeHeader, exists, lines, torn, marks, short>>

TypeOK ==
  /\ pc \in [Runs -> {"check", "open", "write", "close", "saved", "failed", "killed"}]
  /\ writeHeader \in [Runs -> BOOLEAN]
  /\ exists \in BOOLEAN /\ (lines # <<>> => exists)
  /\ lines \in Seq(Runs \cup {Header, Garbled})
  /\ torn \in BOOLEAN /\ (torn => lines # <<>>)
  /\ alone \in BOOLEAN /\ creatorKilled \in BOOLEAN
  /\ short \in Nat

Init ==
  /\ pc = [r \in Runs |-> "check"]
  /\ writeHeader = [r \in Runs |-> FALSE]
  /\ exists = FALSE /\ lines = <<>> /\ torn = FALSE
  /\ alone = TRUE /\ creatorKilled = FALSE
  /\ short = 0

-----------------------------------------------------------------------------
(* The append functions                                                    *)

\* The runs that found no file and have not written yet.
Creators == {r \in Runs : pc[r] \in {"open", "write"} /\ writeHeader[r]}

\* Mutant: the file is opened for appending to see whether it is there.
MutCheck(r) ==
  /\ pc[r] = "check"
  /\ writeHeader' = [writeHeader EXCEPT ![r] = ~exists]
  /\ exists' = TRUE
  /\ pc' = [pc EXCEPT ![r] = "open"]
  /\ alone' = (alone /\ Creators = {})
  /\ UNCHANGED <<lines, torn, creatorKilled, short>>

\* file_exists.
Check(r) ==
  /\ pc[r] = "check"
  /\ writeHeader' = [writeHeader EXCEPT ![r] = ~exists]
  /\ pc' = [pc EXCEPT ![r] = "open"]
  /\ alone' = (alone /\ Creators = {})
  /\ UNCHANGED <<exists, lines, torn, creatorKilled, short>>

\* Mutant: the file is opened for writing, which empties it.
MutOpen(r) ==
  /\ pc[r] = "open"
  /\ pc' = [pc EXCEPT ![r] = "write"]
  /\ exists' = TRUE
  /\ lines' = <<>> /\ torn' = FALSE
  /\ UNCHANGED <<writeHeader, marks, short>>

\* Mutant: the result of fopen is not looked at.
MutOpenUnchecked(r) ==
  /\ pc[r] = "open"
  /\ pc' = [pc EXCEPT ![r] = "write"]
  /\ exists' \in {exists, TRUE}
  /\ UNCHANGED <<writeHeader, lines, torn, marks, short>>

\* fopen(filename, "a"), which creates the file, or fails.
Open(r) ==
  /\ pc[r] = "open"
  /\ \/ pc' = [pc EXCEPT ![r] = "write"] /\ exists' = TRUE
     \/ pc' = [pc EXCEPT ![r] = "failed"] /\ UNCHANGED exists
  /\ UNCHANGED <<writeHeader, lines, torn, marks, short>>

\* What a run has in its buffer when it closes the file.
Text(r) == IF writeHeader[r] THEN <<Header, r>> ELSE <<r>>

\* The file after a write of these lines; the first goes on where a torn one stopped.
Appended(text) ==
  IF torn /\ text # <<>>
    THEN [lines EXCEPT ![Len(lines)] = Garbled] \o Tail(text)
    ELSE lines \o text

\* The buffer is written out.
Write(r) ==
  /\ pc[r] = "write"
  /\ pc' = [pc EXCEPT ![r] = "close"]
  /\ lines' = Appended(Text(r))
  /\ torn' = FALSE
  /\ UNCHANGED <<writeHeader, exists, marks, short>>

\* What a full disk may let through of it: less than the row, and perhaps a piece of
\* the line at which it stopped.
Pieces(r) ==
  {<<>>, <<Garbled>>} \cup (IF writeHeader[r] THEN {<<Header>>, <<Header, Garbled>>} ELSE {})

\* The disk is full.  Nobody is told.
WriteShort(r) ==
  /\ pc[r] = "write"
  /\ pc' = [pc EXCEPT ![r] = "close"]
  /\ \E text \in Pieces(r) :
       /\ lines' = Appended(text)
       /\ torn' = IF text = <<>> THEN torn ELSE text[Len(text)] = Garbled
  /\ short' = short + 1
  /\ UNCHANGED <<writeHeader, exists, marks>>

\* The append function returns 0 and the command says "Saved to".
Close(r) ==
  /\ pc[r] = "close"
  /\ pc' = [pc EXCEPT ![r] = "saved"]
  /\ UNCHANGED <<writeHeader, exists, lines, torn, marks, short>>

\* The process is killed, and the buffer with it.
Kill(r) ==
  /\ pc[r] \in {"check", "open", "write", "close"}
  /\ pc' = [pc EXCEPT ![r] = "killed"]
  /\ creatorKilled' = (creatorKilled \/ (pc[r] = "write" /\ writeHeader[r]))
  /\ UNCHANGED <<writeHeader, exists, lines, torn, alone, short>>

Run(r) == Check(r) \/ Open(r) \/ Write(r) \/ WriteShort(r) \/ Close(r) \/ Kill(r)

Next == \E r \in Runs : Run(r)

Spec == Init /\ [][Next]_vars

-----------------------------------------------------------------------------
(* Properties.                                                             *)

IsTable(file) ==
  /\ file[1] = Header
  /\ \A n \in 2..Len(file) : file[n] \in Runs

\* What the sweep can make of the log: read_csv takes the first line for the names
\* of the columns, and the summaries convert the fields of every other.
Readable(file) == file = <<>> \/ IsTable(file)

\* If the first run creates the file undisturbed, the log is a table for ever:
\* whichever runs overlap after that, fail or are killed, one header comes first and
\* only whole rows after it.  (Short writes apart.)
LogStaysReadable == alone /\ ~creatorKilled /\ short = 0 => Readable(lines)

\* Overlapping runs, failing fopens and kills at any other moment may put the header
\* in the wrong place, or twice, but never cost it: a log that is there has it, or is
\* open in a run that will write it (file_exists before fopen, the header with the
\* row).  Only a kill between fopen and fclose, or a full disk, leaves a log without.
HeaderSurvives ==
  exists /\ ~creatorKilled /\ short = 0 =>
    \/ \E n \in DOMAIN lines : lines[n] = Header
    \/ \E r \in Creators : pc[r] = "write"

Places(r) == {n \in DOMAIN lines : lines[n] = r}
Missing == {r \in Runs : pc[r] = "saved" /\ Cardinality(Places(r)) # 1}

\* Every row that was reported saved is in the file, once, however runs overlap, also
\* while the file is created, and whoever is killed; a short write costs at most its
\* own row and the one written after it.
SavedRowsSurvive == Cardinality(Missing) <= 2 * short
=============================================================================
