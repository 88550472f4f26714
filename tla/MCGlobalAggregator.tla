------------------------- MODULE MCGlobalAggregator -------------------------
(* Two windows, with time for the entry of one to become stale.             *)
EXTENDS GlobalAggregator
=============================================================================
