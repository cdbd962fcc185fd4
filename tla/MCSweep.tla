------------------------------- MODULE MCSweep -------------------------------
(* Sweep with the default order of the three tests.                        *)
EXTENDS Sweep

AllTests == <<"rtt", "loopback", "tx">>
=============================================================================
