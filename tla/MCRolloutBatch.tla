---------------------------- MODULE MCRolloutBatch ----------------------------
(* Small instances of RolloutBatch for TLC. *)
EXTENDS RolloutBatch

CONSTANTS r1, r2

================================================================================
