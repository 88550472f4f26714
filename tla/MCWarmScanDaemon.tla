------------------------- MODULE MCWarmScanDaemon -------------------------
(* Two daemons and two commands, so that a start meets what a crash, a stop *)
(* or another start has left; two clients with the same request id, one of  *)
(* which keeps its connection after its scan.                               *)
EXTENDS WarmScanDaemon
=============================================================================
