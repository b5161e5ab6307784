----------------------------- MODULE RolloutBatch -----------------------------
(***************************************************************************)
(* One training iteration's data path: AgentFlowManager and its workers    *)
(* (src/arft/agent_flow/agent_flow.py) turn a batch of prompts into        *)
(* trajectories, and RayAgentTrainer.fit (src/arft/ray_agent_trainer.py)   *)
(* joins them with the batch they came from, pads, balances and trains.    *)
(*                                                                         *)
(* The manager wakes every rollout replica, cuts the batch in chunks, one  *)
(* per worker, and blocks on all of them.  A worker runs one agent flow    *)
(* per sample concurrently; a flow takes as many steps as it likes, so     *)
(* samples have different numbers of rows and finish in any order.  The    *)
(* joined batch has one row per step of every trajectory.                  *)
(*                                                                         *)
(* A row holds where each of its two halves comes from: uid, the prompt of *)
(* the trainer's half, and from and step, the sample and step that         *)
(* produced the rollout's half.  Tokens, scores and lengths are left out.  *)
(***************************************************************************)
EXTENDS Integers, Sequences, FiniteSets, SequencesExt

CONSTANTS
  BatchSizes,  \* numbers of prompts a dataloader batch can have
  RolloutN,    \* actor_rollout_ref.rollout.n, trajectories per prompt
  NumWorkers,  \* agent flow workers
  MaxSteps,    \* bound on the steps of a flow, max_steps of its recipe
  WorldSize,   \* lcm of the world sizes of the worker groups
  Replicas,    \* rollout replicas
  AdvEstimator \* algorithm.adv_estimator

ASSUME ConstantsAssumption ==
  /\ BatchSizes \subseteq Nat \ {0} /\ BatchSizes # {} /\ IsFiniteSet(BatchSizes)
  /\ RolloutN \in Nat \ {0}
  /\ NumWorkers \in Nat \ {0}
  /\ MaxSteps \in Nat \ {0}
  /\ WorldSize \in Nat \ {0}
  /\ Replicas # {}
  /\ AdvEstimator \in {"gae", "token_gae"}

VARIABLES
  phase,   \* where fit() is
  size,    \* prompts in the current batch
  awake,   \* replicas that are awake
  worker,  \* per worker, the state of its generate_sequences call
  flow,    \* per sample, the state of its agent flow
  steps,   \* per sample, the steps its flow has produced
  output,  \* what the manager returned: num_steps and rows
  batch,   \* the trainer's batch, a sequence of rows
  saved    \* response_mask as fit() has put it aside, for each row

vars == <<phase, size, awake, worker, flow, steps, output, batch, saved>>

CeilDiv(a, b) == (a - 1) \div b + 1

Workers == 1..NumWorkers
NumSamples == size * RolloutN
Samples == 1..NumSamples
MaxPrompts == CHOOSE m \in BatchSizes : \A n \in BatchSizes : n <= m
AllSamples == 1..(RolloutN * MaxPrompts)

(* Mutant: the trainer's half is repeated with interleave=False. *)
BatchPromptTiled(s) == ((s - 1) % size) + 1

(* gen_batch.repeat(n, interleave=True) and batch.repeat(n, interleave=True) *)
GenPrompt(s) == CeilDiv(s, RolloutN)
BatchPrompt(s) == CeilDiv(s, RolloutN)

(* The chunks of DataProto.split: the last may be shorter, and there may be *)
(* fewer of them than workers.                                              *)
SplitSize == CeilDiv(NumSamples, NumWorkers)
NumChunks == CeilDiv(NumSamples, SplitSize)
ChunkStart(w) == (w - 1) * SplitSize + 1
ChunkEnd(w) == IF w * SplitSize < NumSamples THEN w * SplitSize ELSE NumSamples
Chunk(w) == ChunkStart(w)..ChunkEnd(w)

(* The control of the iteration.  output and batch are what Concat and Join *)
(* make of it.                                                              *)
TypeOK ==
  /\ phase \in {"idle", "waking", "generating", "sleeping", "joined", "padded",
                "balanced", "critic", "actor", "crashed"}
  /\ size \in BatchSizes
  /\ awake \subseteq Replicas
  /\ worker \in [Workers -> {"idle", "busy", "returned", "raised"}]
  /\ flow \in [AllSamples -> {"none", "running", "done", "raised"}]
  /\ steps \in [AllSamples -> 0..MaxSteps]

NoOutput == [num_steps |-> <<>>, rows |-> <<>>]

Init ==
  /\ phase = "idle" /\ size \in BatchSizes /\ awake = {}
  /\ worker = [w \in Workers |-> "idle"]
  /\ flow = [s \in AllSamples |-> "none"] /\ steps = [s \in AllSamples |-> 0]
  /\ output = NoOutput /\ batch = <<>> /\ saved = <<>>

----------------------------------------------------------------------------
(* AgentFlowManager.generate_sequences *)

(* The trainer draws a batch; nothing of the last one is kept. *)
NextBatch ==
  /\ phase = "idle"
  /\ phase' = "waking"
  /\ size' \in BatchSizes
  /\ worker' = [w \in Workers |-> "idle"]
  /\ flow' = [s \in AllSamples |-> "none"] /\ steps' = [s \in AllSamples |-> 0]
  /\ output' = NoOutput /\ batch' = <<>> /\ saved' = <<>>
  /\ UNCHANGED awake

(* wake_up() gathers the replicas' wake-ups. *)
WakeReplica(r) ==
  /\ phase = "waking" /\ r \notin awake
  /\ awake' = awake \cup {r}
  /\ UNCHANGED <<phase, size, worker, flow, steps, output, batch, saved>>

(* Mutant: the wake-ups are not all waited for. *)
PartlyWokenUp == awake # {}

WokenUp == awake = Replicas

(* zip(workers, chunks, strict=True) raises when it runs out of chunks      *)
(* before workers, after the calls for all the chunks have been sent.       *)
Dispatch ==
  /\ phase = "waking" /\ WokenUp
  /\ phase' = IF NumChunks = NumWorkers THEN "generating" ELSE "crashed"
  /\ worker' = [w \in Workers |-> IF w <= NumChunks THEN "busy" ELSE "idle"]
  /\ flow' = [s \in AllSamples |-> IF s \in Samples THEN "running" ELSE "none"]
  /\ UNCHANGED <<size, awake, steps, output, batch, saved>>

(* One round of a flow: generate, act, append the step. *)
FlowStep(s) ==
  /\ flow[s] = "running" /\ steps[s] < MaxSteps
  /\ steps' = [steps EXCEPT ![s] = @ + 1]
  /\ UNCHANGED <<phase, size, awake, worker, flow, output, batch, saved>>

FlowDone(s) ==
  /\ flow[s] = "running" /\ steps[s] > 0
  /\ flow' = [flow EXCEPT ![s] = "done"]
  /\ UNCHANGED <<phase, size, awake, worker, steps, output, batch, saved>>

(* Mutant: a flow that raises is started again. *)
FlowRestarts(s) ==
  /\ flow[s] = "running"
  /\ steps' = [steps EXCEPT ![s] = 0]
  /\ UNCHANGED <<phase, size, awake, worker, flow, output, batch, saved>>

(* A server, an environment or the scoring raises inside the flow. *)
FlowRaises(s) ==
  /\ flow[s] = "running"
  /\ flow' = [flow EXCEPT ![s] = "raised"]
  /\ UNCHANGED <<phase, size, awake, worker, steps, output, batch, saved>>

(* asyncio.gather waits for every flow of the chunk ...                     *)
WorkerReturns(w) ==
  /\ worker[w] = "busy"
  /\ \A s \in Chunk(w) : flow[s] = "done"
  /\ worker' = [worker EXCEPT ![w] = "returned"]
  /\ UNCHANGED <<phase, size, awake, flow, steps, output, batch, saved>>

(* ... but raises as soon as one does, and the others go on unattended.     *)
WorkerRaises(w) ==
  /\ worker[w] = "busy"
  /\ \E s \in Chunk(w) : flow[s] = "raised"
  /\ worker' = [worker EXCEPT ![w] = "raised"]
  /\ UNCHANGED <<phase, size, awake, flow, steps, output, batch, saved>>

(* _postprocess lays out the rows of a chunk trajectory by trajectory, in   *)
(* the order of the samples, whatever the order in which they finished.     *)
RowsOf(s) == [k \in 1..steps[s] |-> [from |-> s, step |-> k]]
SamplesOf(w) == [i \in 1..(ChunkEnd(w) - ChunkStart(w) + 1) |-> ChunkStart(w) + i - 1]
(* Mutant: the trajectories come longest first. *)
CollectedByLength ==
  SortSeq([s \in Samples |-> s],
          LAMBDA a, b : steps[a] > steps[b] \/ (steps[a] = steps[b] /\ a < b))

Collected == FlattenSeq([w \in 1..NumChunks |-> SamplesOf(w)])

AllReturned == \A w \in Workers : worker[w] = "returned"

(* ray.get returns when every worker has, in the order of the workers. *)
Concat ==
  /\ phase = "generating" /\ AllReturned
  /\ phase' = "sleeping"
  /\ output' = [num_steps |-> [i \in 1..Len(Collected) |-> steps[Collected[i]]],
                rows |-> FlattenSeq([i \in 1..Len(Collected) |-> RowsOf(Collected[i])])]
  /\ UNCHANGED <<size, awake, worker, flow, steps, batch, saved>>

(* ray.get raises the first worker's exception; nothing catches it, so the  *)
(* trainer stops without sleep().                                           *)
SomeRaised ==
  /\ phase = "generating"
  /\ \E w \in Workers : worker[w] = "raised"
  /\ phase' = "crashed"
  /\ UNCHANGED <<size, awake, worker, flow, steps, output, batch, saved>>

(* sleep() *)
SleepReplica(r) ==
  /\ phase = "sleeping" /\ r \in awake
  /\ awake' = awake \ {r}
  /\ UNCHANGED <<phase, size, worker, flow, steps, output, batch, saved>>

----------------------------------------------------------------------------
(* RayAgentTrainer.fit *)

(* Mutant: the copies are not flagged. *)
PaddedUnflagged(rows) ==
  rows \o [i \in 1..((-Len(rows)) % WorldSize) |-> rows[((i - 1) % Len(rows)) + 1]]

(* pad_dataproto_to_divisor repeats the batch from its start, as often as   *)
(* needed, and is_pad flags what it added.                                  *)
Padded(rows) ==
  rows \o [i \in 1..((-Len(rows)) % WorldSize) |->
             [rows[((i - 1) % Len(rows)) + 1] EXCEPT !.pad = TRUE]]

(* batch.sample_level_repeat(num_steps): the trainer's half of every row.   *)
Repeated == FlattenSeq([i \in Samples |-> [k \in 1..output.num_steps[i] |-> BatchPrompt(i)]])

(* batch.union(gen_batch_output) pairs the halves row by row. *)
Join ==
  /\ phase = "sleeping" /\ awake = {}
  /\ phase' = "joined"
  /\ batch' = [j \in 1..Len(output.rows) |->
                [uid |-> Repeated[j], from |-> output.rows[j].from,
                 step |-> output.rows[j].step, pad |-> FALSE, mask |-> "tokens"]]
  /\ UNCHANGED <<size, awake, worker, flow, steps, output, saved>>

Pad ==
  /\ phase = "joined"
  /\ phase' = "padded"
  /\ batch' = Padded(batch)
  /\ UNCHANGED <<size, awake, worker, flow, steps, output, saved>>

Ranks == 1..WorldSize
ShareSize == Len(batch) \div WorldSize

(* The order in which batch.reorder puts the rows: rank by rank.  Within a  *)
(* rank the rows keep their order here; the code sorts them by length.      *)
Before(rank, j) ==
  {i \in DOMAIN batch : rank[i] < rank[j] \/ (rank[i] = rank[j] /\ i <= j)}

ByRank(rank) ==
  [p \in DOMAIN batch |-> CHOOSE j \in DOMAIN batch : Cardinality(Before(rank, j)) = p]

(* Mutant: the rows move and their is_pad flags stay. *)
ReorderedTensors(order) ==
  [j \in DOMAIN batch |-> [batch[order[j]] EXCEPT !.pad = batch[j].pad]]

Reordered(order) == [j \in DOMAIN batch |-> batch[order[j]]]

(* _balance_batch deals the rows to the ranks in equal shares; which row    *)
(* goes where depends on the lengths, so any deal can happen.               *)
Balance ==
  /\ phase = "padded"
  /\ phase' = "balanced"
  /\ \E rank \in [DOMAIN batch -> Ranks] :
       /\ \A r \in Ranks : Cardinality({j \in DOMAIN batch : rank[j] = r}) = ShareSize
       /\ batch' = Reordered(ByRank(rank))
  /\ UNCHANGED <<size, awake, worker, flow, steps, output, saved>>

(* _critic_vf_loss_response_mask: token_gae trains on every token of a row, *)
(* the others on its first.  A new tensor, the saved one is not touched.    *)
CriticMask(mask) ==
  IF AdvEstimator = "token_gae" THEN mask ELSE [j \in DOMAIN mask |-> "first"]

WithMask(rows, mask) == [j \in DOMAIN rows |-> [rows[j] EXCEPT !.mask = mask[j]]]

(* compute_advantage is followed at once by the swap of the masks. *)
UpdateCritic ==
  /\ phase = "balanced"
  /\ phase' = "critic"
  /\ saved' = [j \in DOMAIN batch |-> batch[j].mask]
  /\ batch' = WithMask(batch, CriticMask(saved'))
  /\ UNCHANGED <<size, awake, worker, flow, steps, output>>

(* The saved mask is put back; during critic_warmup the actor is not        *)
(* updated.                                                                 *)
UpdateActor ==
  /\ phase = "critic"
  /\ phase' = "actor"
  /\ batch' = WithMask(batch, saved)
  /\ UNCHANGED <<size, awake, worker, flow, steps, output, saved>>

EndIteration ==
  /\ phase = "actor"
  /\ phase' = "idle"
  /\ UNCHANGED <<size, awake, worker, flow, steps, output, batch, saved>>

Next ==
  \/ NextBatch \/ Dispatch \/ Concat \/ SomeRaised
  \/ \E r \in Replicas : WakeReplica(r) \/ SleepReplica(r)
  \/ \E s \in AllSamples : FlowStep(s) \/ FlowDone(s) \/ FlowRaises(s)
  \/ \E w \in Workers : WorkerReturns(w) \/ WorkerRaises(w)
  \/ Join \/ Pad \/ Balance \/ UpdateCritic \/ UpdateActor \/ EndIteration

(* The driver and the manager's blocking calls go on while they can, and so *)
(* does every replica, flow and worker call: each is a task of its own on   *)
(* an event loop or an actor that nothing else blocks.                      *)
Fairness ==
  /\ WF_vars(Dispatch \/ Concat \/ SomeRaised)
  /\ WF_vars(Join \/ Pad \/ Balance \/ UpdateCritic \/ UpdateActor \/ EndIteration)
  /\ \A r \in Replicas : WF_vars(WakeReplica(r) \/ SleepReplica(r))
  /\ \A s \in AllSamples : WF_vars(FlowStep(s) \/ FlowDone(s) \/ FlowRaises(s))
  /\ \A w \in Workers : WF_vars(WorkerReturns(w) \/ WorkerRaises(w))

Spec == Init /\ [][Next]_vars /\ Fairness

----------------------------------------------------------------------------
(* Properties *)

(* No agent flow is ever left generating on a replica that is not awake:    *)
(* the manager wakes all of them before it sends the first chunk and puts   *)
(* none to sleep before the last flow has ended.                            *)
FlowsRunAwake == (\E s \in AllSamples : flow[s] = "running") => awake = Replicas

(* The two halves of a row belong together: the uid that groups the row for *)
(* its advantage is that of the prompt its trajectory answered, although    *)
(* the halves were repeated, split, generated and joined apart.             *)
RowsAligned == \A j \in DOMAIN batch : batch[j].uid = GenPrompt(batch[j].from)

RealRows == {j \in DOMAIN batch : ~batch[j].pad}

(* After padding and balancing, the rows that are not flagged as padding,   *)
(* the only ones compute_advantage and the metrics look at, are every step  *)
(* of every trajectory exactly once.                                        *)
EveryStepOnce ==
  phase \in {"padded", "balanced", "critic", "actor"} =>
    /\ {<<batch[j].from, batch[j].step>> : j \in RealRows}
         = {t \in Samples \X (1..MaxSteps) : t[2] <= steps[t[1]]}
    /\ \A i, j \in RealRows :
         batch[i].from = batch[j].from /\ batch[i].step = batch[j].step => i = j

(* A rollout ends: with a trained batch, or with the trainer stopped.       *)
IterationEnds == phase = "waking" ~> phase \in {"idle", "crashed"}

(* Seen from the trainer, all of this is one call that returns a complete   *)
(* batch or raises.                                                         *)
Delivered == phase \in {"padded", "balanced", "critic", "actor"}

Call == INSTANCE RolloutCall WITH
  AllPrompts <- 1..MaxPrompts,
  stage <- IF phase \in {"idle", "crashed"} THEN phase
           ELSE IF Delivered THEN "ready" ELSE "called",
  rows <- IF Delivered
            THEN {<<batch[j].uid, batch[j].from, batch[j].step>> : j \in RealRows} ELSE {}

CallSpec == Call!CSpec

(* fit() pads the batch with "everything masked out": a row added by the    *)
(* padding takes no part in the updates.                                    *)
PadRowsMaskedOut ==
  phase \in {"critic", "actor"} =>
    \A j \in DOMAIN batch : batch[j].pad => batch[j].mask = "none"

================================================================================
