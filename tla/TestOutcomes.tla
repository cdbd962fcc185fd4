---------------------------- MODULE TestOutcomes ----------------------------
(***************************************************************************)
(* What one run of each measuring command of main.c may leave behind, for  *)
(* whoever runs several of them: the exit code, the loopback bit of the    *)
(* FPGA, and the logs to which a row was appended.  "fpga-tx-test" also    *)
(* leaves the content bits of the FPGA, of which it toggles the one it     *)
(* uses; what it leaves in them depends on what it found.  The exit code   *)
(* tells nothing of a full disk: whether the row got there is for CsvLog.  *)
(***************************************************************************)
Contents == {"random", "constant"}

\* append_fpga_rtt_csv only after loopback is off again.
RttOutcomes ==
  {[code |-> 0, loopback |-> FALSE, rows |-> {"rtt"}]}
  \cup [code : {1}, loopback : BOOLEAN, rows : {{}}]

\* append_fpga_loopback_load_csv, then append_loopback_loss_csv, which may fail.
LoopbackOutcomes ==
  {[code |-> 0, loopback |-> FALSE, rows |-> {"load", "loss"}],
   [code |-> 1, loopback |-> FALSE, rows |-> {"load"}]}
  \cup [code : {1}, loopback : BOOLEAN, rows : {{}}]

Flipped(bits, mode) == [bits EXCEPT ![mode] = ~@]

\* A bit found set is toggled off, and the random bit hides the constant one:
\* both times verify_fpga_tx_config ends the run, the bit having been toggled
\* once.  A run that gets further toggles it twice.
Blocked(bits, mode) == bits[mode] \/ (mode = "constant" /\ bits["random"])

\* Mutant: the command that toggles the bit back after the test is left out.
MutUntroubledTx(bits, mode) ==
  IF Blocked(bits, mode) THEN <<1, Flipped(bits, mode)>> ELSE <<0, Flipped(bits, mode)>>

\* No command was lost and nothing failed: <<exit code, bits left>>.
UntroubledTx(bits, mode) ==
  IF Blocked(bits, mode) THEN <<1, Flipped(bits, mode)>> ELSE <<0, bits>>

\* With a lost command or a failure the bit may be left either way.
TroubledTx(bits, mode) == {0, 1} \X {bits, Flipped(bits, mode)}
=============================================================================
