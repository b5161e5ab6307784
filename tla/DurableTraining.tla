---------------------------- MODULE DurableTraining ----------------------------
(***************************************************************************)
(* What checkpointing promises: weights grow by one update at a time, a    *)
(* checkpoint makes the current weights durable, and whoever resumes has   *)
(* exactly the durable ones.                                               *)
(***************************************************************************)
EXTENDS Naturals, Sequences

VARIABLES
  current, \* the updates in the weights of the running process
  durable  \* the updates in the weights a restart would load

dvars == <<current, durable>>

DInit == current = <<>> /\ durable = <<>>

Train ==
  /\ Len(current') = Len(current) + 1
  /\ SubSeq(current', 1, Len(current)) = current
  /\ UNCHANGED durable

Commit == durable' = current /\ UNCHANGED current

Recover == current' = durable /\ UNCHANGED durable

DSpec == DInit /\ [][Train \/ Commit \/ Recover]_dvars

================================================================================
