-------------------------- MODULE MCTrafficCounters --------------------------
(* Small instances of TrafficCounters for TLC. *)
EXTENDS TrafficCounters

\* Every reading may fail.
MCFailing == Sources

MCChunks == {1, 2}
=============================================================================
