---------------------------- MODULE MCRuntimeStatus ----------------------------
(* Two overlapping ticks, an operator, two occurrences, and a fault. *)
EXTENDS RuntimeStatus
=============================================================================
