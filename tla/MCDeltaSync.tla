---------------------------- MODULE MCDeltaSync ----------------------------
(* A small instance of DeltaSync for TLC. *)
EXTENDS DeltaSync

CONSTANTS r1, r2, t1, t2
=============================================================================
