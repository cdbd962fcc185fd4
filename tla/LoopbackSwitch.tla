--------------------------- MODULE LoopbackSwitch ---------------------------
(***************************************************************************)
(* What the pair fpga_enable_loopback_if_needed and                        *)
(* fpga_disable_loopback_if_needed (src/src/fpga_loopback_mode.c) promises *)
(* its caller: a call asks for a mode, the FPGA moves at most towards that *)
(* mode while the call runs, and a call that returns 0 leaves the FPGA in  *)
(* the mode it asked for.  A call that returns -1 promises nothing more.   *)
(***************************************************************************)
VARIABLES
  mode,     \* the loopback bit of the FPGA
  busy,     \* a call is running
  asked,    \* the mode the running, or the last, call asks for
  outcome   \* what the last call returned: "none", "ok" or "error"

svars == <<mode, busy, asked, outcome>>

SwitchInit ==
  /\ mode \in BOOLEAN
  /\ busy = FALSE
  /\ asked \in BOOLEAN
  /\ outcome = "none"

Ask(w) ==
  /\ ~busy
  /\ busy' = TRUE
  /\ asked' = w
  /\ outcome' = "none"
  /\ UNCHANGED mode

\* The FPGA obeys: only during a call, and only towards what the call asks for.
Obey ==
  /\ busy
  /\ mode # asked
  /\ mode' = asked
  /\ UNCHANGED <<busy, asked, outcome>>

Succeed ==
  /\ busy
  /\ mode = asked
  /\ busy' = FALSE
  /\ outcome' = "ok"
  /\ UNCHANGED <<mode, asked>>

Fail ==
  /\ busy
  /\ busy' = FALSE
  /\ outcome' = "error"
  /\ UNCHANGED <<mode, asked>>

SwitchNext == (\E w \in BOOLEAN : Ask(w)) \/ Obey \/ Succeed \/ Fail

SwitchSpec == SwitchInit /\ [][SwitchNext]_svars

(***************************************************************************)
(* The same promise as a set of outcomes, for the modules whose programs   *)
(* make such a call as one of their steps: <<result, mode afterwards>>.    *)
(***************************************************************************)
CallOutcomes(m, w) == {<<"ok", w>>, <<"error", m>>, <<"error", w>>}
=============================================================================
