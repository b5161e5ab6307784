------------------------------ MODULE RolloutCall ------------------------------
(***************************************************************************)
(* What the trainer may rely on: a rollout is one call that either raises  *)
(* or delivers, for every sample of the batch, its prompt's trajectory of  *)
(* between 1 and MaxSteps rows, complete and in one piece; a delivered     *)
(* batch keeps its rows until the iteration ends.                          *)
(***************************************************************************)
EXTENDS Integers

CONSTANTS AllPrompts, RolloutN, MaxSteps

VARIABLES
  stage,  \* "idle", "called", "ready" or "crashed"
  rows    \* the rows of a delivered batch: <<prompt, sample, step>>

cvars == <<stage, rows>>

CInit == stage = "idle" /\ rows = {}

BeginCall == stage = "idle" /\ stage' = "called" /\ rows' = {}

(* The samples of prompt p are RolloutN consecutive ones. *)
RowsFor(n, length) ==
  {r \in (1..n) \X (1..(n * RolloutN)) \X (1..MaxSteps) :
     /\ r[2] \in (r[1] - 1) * RolloutN + 1 .. r[1] * RolloutN
     /\ r[3] <= length[r[2]]}

Deliver ==
  /\ stage = "called" /\ stage' = "ready"
  /\ \E n \in AllPrompts :
       \E length \in [1..(n * RolloutN) -> 1..MaxSteps] : rows' = RowsFor(n, length)

Raise == stage = "called" /\ stage' = "crashed" /\ rows' = {}

EndCall == stage = "ready" /\ stage' = "idle" /\ rows' = {}

CNext == BeginCall \/ Deliver \/ Raise \/ EndCall

CSpec == CInit /\ [][CNext]_cvars

================================================================================
