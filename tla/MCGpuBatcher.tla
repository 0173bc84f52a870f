---------------------------- MODULE MCGpuBatcher ----------------------------
(* Instances of GpuBatcher for TLC. *)
EXTENDS GpuBatcher

\* Timeouts that differ between requests, the shortest one equal to WaitUs.
MixedTimeouts ==
  LET q == CHOOSE r \in Requests : r \notin Invalid
  IN  [r \in Requests |-> IF r = q THEN WaitUs ELSE WaitUs + 1]
=============================================================================
