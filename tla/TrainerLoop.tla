------------------------------ MODULE TrainerLoop ------------------------------
(***************************************************************************)
(* RayAgentTrainer.fit (src/arft/ray_agent_trainer.py) as a process that   *)
(* can be killed and started again: its epochs and steps, the checkpoints  *)
(* it writes and how it resumes from them (_save_checkpoint and            *)
(* _load_checkpoint of src/verl/verl/trainer/ppo/ray_trainer.py, rotation  *)
(* in src/verl/verl/utils/checkpoint).                                     *)
(*                                                                         *)
(* Weights are the sequence of updates that made them, each with the life  *)
(* of the process and the batch it used, so that two lives that train on   *)
(* the same batch still give different weights.  The batches the dataloader *)
(* yields, one pass over the data after another, are numbered through.     *)
(* A killed process loses everything but the files.  A directory that is   *)
(* being written counts as missing until it is complete.  The critic is    *)
(* always there, as it is for gae and token_gae.                           *)
(***************************************************************************)
EXTENDS Integers, Sequences, FiniteSets, Functions

CONSTANTS
  EpochLen,       \* len(train_dataloader)
  TotalEpochs,    \* trainer.total_epochs
  TotalSteps,     \* total_training_steps
  SaveFreq,       \* trainer.save_freq; 0 or less: never
  EsiInstance,    \* whether the instance may announce its expiration
  CriticWarmup,   \* trainer.critic_warmup
  MaxKeep,        \* max_actor_ckpt_to_keep and max_critic_ckpt_to_keep; 0: all
  EpochEndResume, \* what a dataloader restored at the end of an epoch may do
  MaxLives        \* bound on how often the process is started

ASSUME ConstantsAssumption ==
  /\ EpochLen \in Nat \ {0} /\ TotalEpochs \in Nat /\ TotalSteps \in Nat
  /\ SaveFreq \in Int /\ EsiInstance \in BOOLEAN
  /\ CriticWarmup \in Nat /\ MaxKeep \in Nat
  /\ EpochEndResume \subseteq {"empty", "fresh"} /\ EpochEndResume # {}
  /\ MaxLives \in Nat

VARIABLES
  phase,       \* where fit() is; "down" while the process is not running
  life,        \* how often the process was started
  global_step, \* global_steps
  epoch,       \* epoch of the loop
  loader,      \* the dataloader: passes completed, batches yielded in this one
  last,        \* is_last_step
  actor,       \* the actor's weights
  critic,      \* the critic's weights
  prevActor,   \* previous_saved_paths of the actor's checkpoint manager
  prevCritic,  \* previous_saved_paths of the critic's
  ckActor,     \* files: global_step_k/actor, for the k in its domain
  ckCritic,    \* files: global_step_k/critic
  ckData,      \* files: global_step_k/data.pt, the dataloader's position
  tracker      \* file: latest_checkpointed_iteration.txt

progress == <<global_step, epoch, loader, last>>
models == <<actor, critic>>
rotation == <<prevActor, prevCritic>>
files == <<ckActor, ckCritic, ckData, tracker>>
vars == <<phase, life, progress, models, rotation, files>>

MaxStep == EpochLen * TotalEpochs
Batches == 1..MaxStep
Weights == Seq([life : 1..MaxLives, batch : Batches])

Positions == [pass : 0..TotalEpochs, pos : 0..EpochLen]
StartOfData == [pass |-> 0, pos |-> 0]
NextPass(position) == [pass |-> position.pass + 1, pos |-> 0]

(* How many batches the dataloader has yielded in all its passes. *)
Served == loader.pass * EpochLen + loader.pos

(* step 0: the tracker was never written.  readable is FALSE while the file *)
(* is truncated and not yet written; step is then what it held before.      *)
Trackers == [step : 0..MaxStep, readable : BOOLEAN]

Saving == {"rotate_actor", "write_actor", "rotate_critic", "write_critic",
           "write_data", "open_tracker", "write_tracker"}

TypeOK ==
  /\ phase \in {"down", "loop", "batch", "updated", "step_end", "finished", "failed"} \cup Saving
  /\ life \in 0..MaxLives
  /\ global_step \in 0..(MaxStep + 1) /\ epoch \in 0..TotalEpochs /\ loader \in Positions
  /\ last \in BOOLEAN
  /\ actor \in Weights /\ critic \in Weights
  /\ prevActor \in Seq(1..MaxStep) /\ prevCritic \in Seq(1..MaxStep)
  /\ DOMAIN ckActor \subseteq 1..MaxStep /\ Range(ckActor) \subseteq Weights
  /\ DOMAIN ckCritic \subseteq 1..MaxStep /\ Range(ckCritic) \subseteq Weights
  /\ DOMAIN ckData \subseteq 1..MaxStep /\ Range(ckData) \subseteq Positions
  /\ tracker \in Trackers

(* Memory of a process that is not running. *)
Lost ==
  /\ global_step' = 0 /\ epoch' = 0 /\ loader' = StartOfData /\ last' = FALSE
  /\ actor' = <<>> /\ critic' = <<>>
  /\ prevActor' = <<>> /\ prevCritic' = <<>>

Init ==
  /\ phase = "down" /\ life = 0
  /\ global_step = 0 /\ epoch = 0 /\ loader = StartOfData /\ last = FALSE
  /\ actor = <<>> /\ critic = <<>> /\ prevActor = <<>> /\ prevCritic = <<>>
  /\ ckActor = <<>> /\ ckCritic = <<>> /\ ckData = <<>>
  /\ tracker = [step |-> 0, readable |-> TRUE]

----------------------------------------------------------------------------
(* Starting *)

(* Mutant: the newest directory is taken, whatever the tracker says. *)
NewestCheckpoint ==
  IF tracker.step = 0 THEN 0
  ELSE CHOOSE k \in DOMAIN ckCritic : \A j \in DOMAIN ckCritic : j <= k

(* find_latest_ckpt_path *)
LatestCheckpoint == tracker.step

HasFolder(k) == k \in DOMAIN ckActor \cup DOMAIN ckCritic \cup DOMAIN ckData

(* global_steps += 1 before the loop: a step is counted from 1. *)
StartFresh ==
  /\ phase = "down" /\ life < MaxLives
  /\ tracker.readable
  /\ ~HasFolder(LatestCheckpoint)
  /\ phase' = "loop" /\ life' = life + 1
  /\ global_step' = 1
  /\ UNCHANGED <<epoch, loader, last, models, rotation, files>>

(* Mutant: the position of the dataloader is not restored. *)
RestartedDataloader(k) == {StartOfData}

(* A dataloader saved after the last batch of an epoch, but before it was   *)
(* asked for another, resumes either with nothing left or with a new epoch. *)
RestoredPositions(k) ==
  IF k \notin DOMAIN ckData THEN {StartOfData}
  ELSE IF ckData[k].pos < EpochLen THEN {ckData[k]}
  ELSE {IF outcome = "empty" THEN ckData[k] ELSE NextPass(ckData[k]) : outcome \in EpochEndResume}

ResumedEpoch(k) == k \div EpochLen

StartResumed ==
  /\ phase = "down" /\ life < MaxLives
  /\ tracker.readable
  /\ LatestCheckpoint \in DOMAIN ckActor \cap DOMAIN ckCritic
  /\ phase' = "loop" /\ life' = life + 1
  /\ actor' = ckActor[LatestCheckpoint]
  /\ critic' = ckCritic[LatestCheckpoint]
  /\ loader' \in RestoredPositions(LatestCheckpoint)
  /\ epoch' = ResumedEpoch(LatestCheckpoint)
  /\ global_step' = LatestCheckpoint + 1
  /\ UNCHANGED <<last, rotation, files>>

(* Mutant: a start that cannot load its checkpoint waits for it. *)
StartWaits ==
  /\ phase = "down" /\ life < MaxLives
  /\ ~tracker.readable
  /\ UNCHANGED vars

(* int("") of an empty tracker, or a worker whose directory is gone. *)
StartFails ==
  /\ phase = "down" /\ life < MaxLives
  /\ \/ ~tracker.readable
     \/ /\ HasFolder(LatestCheckpoint)
        /\ LatestCheckpoint \notin DOMAIN ckActor \cap DOMAIN ckCritic
  /\ phase' = "failed" /\ life' = life + 1
  /\ UNCHANGED <<progress, models, rotation, files>>

----------------------------------------------------------------------------
(* The loop *)

TakeBatch ==
  /\ phase = "loop" /\ epoch < TotalEpochs /\ loader.pos < EpochLen
  /\ phase' = "batch"
  /\ loader' = [loader EXCEPT !.pos = @ + 1]
  /\ last' = (global_step >= TotalSteps)
  /\ UNCHANGED <<life, global_step, epoch, models, rotation, files>>

NextEpoch ==
  /\ phase = "loop" /\ epoch < TotalEpochs /\ loader.pos = EpochLen
  /\ epoch' = epoch + 1 /\ loader' = NextPass(loader)
  /\ UNCHANGED <<phase, life, global_step, last, models, rotation, files>>

LoopEnds ==
  /\ phase = "loop" /\ epoch = TotalEpochs
  /\ phase' = "finished"
  /\ UNCHANGED <<life, progress, models, rotation, files>>

ThisUpdate == [life |-> life, batch |-> Served]

(* The rollout and the updates of a step; the actor waits for the critic to *)
(* warm up.                                                                 *)
Update ==
  /\ phase = "batch"
  /\ phase' = "updated"
  /\ critic' = Append(critic, ThisUpdate)
  /\ actor' = IF CriticWarmup <= global_step THEN Append(actor, ThisUpdate) ELSE actor
  /\ UNCHANGED <<life, progress, rotation, files>>

(* Mutant: the last step is saved only when save_freq divides it. *)
SaveByFrequency == SaveFreq > 0 /\ global_step % SaveFreq = 0

SaveDue == SaveFreq > 0 /\ (last \/ global_step % SaveFreq = 0)

SkipSave ==
  /\ phase = "updated" /\ ~SaveDue
  /\ phase' = "step_end"
  /\ UNCHANGED <<life, progress, models, rotation, files>>

(* should_save_ckpt_esi may ask for a checkpoint at any step. *)
BeginSave ==
  /\ phase = "updated" /\ (SaveDue \/ (SaveFreq > 0 /\ EsiInstance))
  /\ phase' = "rotate_actor"
  /\ UNCHANGED <<life, progress, models, rotation, files>>

EndStep ==
  /\ phase = "step_end"
  /\ phase' = IF last THEN "finished" ELSE "loop"
  /\ global_step' = global_step + 1
  /\ UNCHANGED <<life, epoch, loader, last, models, rotation, files>>

----------------------------------------------------------------------------
(* _save_checkpoint *)

(* Mutant: one checkpoint too many is removed. *)
SparesTooFew(prev) ==
  IF MaxKeep > 0 /\ Len(prev) >= MaxKeep
    THEN IF Len(prev) - MaxKeep + 2 > Len(prev) THEN Len(prev) ELSE Len(prev) - MaxKeep + 2
    ELSE 0

(* keep_start: how many of the paths it has saved a worker removes before   *)
(* it writes another.                                                       *)
KeepStart(prev) ==
  IF MaxKeep > 0 /\ Len(prev) >= MaxKeep THEN Len(prev) - MaxKeep + 1 ELSE 0

Removed(prev) == {prev[i] : i \in 1..KeepStart(prev)}
Kept(prev) == SubSeq(prev, KeepStart(prev) + 1, Len(prev))
Without(f, steps) == Restrict(f, DOMAIN f \ steps)
With(f, step, saved) ==
  [k \in DOMAIN f \cup {step} |-> IF k = step THEN saved ELSE f[k]]

(* remove_previous_save_local_path *)
RotateActor ==
  /\ phase = "rotate_actor"
  /\ phase' = "write_actor"
  /\ ckActor' = Without(ckActor, Removed(prevActor) \cup {global_step})
  /\ prevActor' = Kept(prevActor)
  /\ UNCHANGED <<life, progress, models, prevCritic, ckCritic, ckData, tracker>>

WriteActor ==
  /\ phase = "write_actor"
  /\ phase' = "rotate_critic"
  /\ ckActor' = With(ckActor, global_step, actor)
  /\ prevActor' = Append(prevActor, global_step)
  /\ UNCHANGED <<life, progress, models, prevCritic, ckCritic, ckData, tracker>>

RotateCritic ==
  /\ phase = "rotate_critic"
  /\ phase' = "write_critic"
  /\ ckCritic' = Without(ckCritic, Removed(prevCritic) \cup {global_step})
  /\ prevCritic' = Kept(prevCritic)
  /\ UNCHANGED <<life, progress, models, prevActor, ckActor, ckData, tracker>>

WriteCritic ==
  /\ phase = "write_critic"
  /\ phase' = "write_data"
  /\ ckCritic' = With(ckCritic, global_step, critic)
  /\ prevCritic' = Append(prevCritic, global_step)
  /\ UNCHANGED <<life, progress, models, prevActor, ckActor, ckData, tracker>>

WriteData ==
  /\ phase = "write_data"
  /\ phase' = "open_tracker"
  /\ ckData' = With(ckData, global_step, loader)
  /\ UNCHANGED <<life, progress, models, rotation, ckActor, ckCritic, tracker>>

(* open(..., "w") truncates the file before anything is written to it. *)
OpenTracker ==
  /\ phase = "open_tracker"
  /\ phase' = "write_tracker"
  /\ tracker' = [tracker EXCEPT !.readable = FALSE]
  /\ UNCHANGED <<life, progress, models, rotation, ckActor, ckCritic, ckData>>

WriteTracker ==
  /\ phase = "write_tracker"
  /\ phase' = "step_end"
  /\ tracker' = [step |-> global_step, readable |-> TRUE]
  /\ UNCHANGED <<life, progress, models, rotation, ckActor, ckCritic, ckData>>

----------------------------------------------------------------------------
(* The process is killed, or stopped by an exception nothing catches. *)
Crash ==
  /\ phase \notin {"down", "finished", "failed"} /\ life < MaxLives
  /\ phase' = "down"
  /\ Lost
  /\ UNCHANGED <<life, files>>

(* A finished job is started again with the same command. *)
Rerun ==
  /\ phase = "finished" /\ life < MaxLives
  /\ phase' = "down"
  /\ Lost
  /\ UNCHANGED <<life, files>>

Running ==
  \/ StartFresh \/ StartResumed \/ StartFails
  \/ TakeBatch \/ NextEpoch \/ LoopEnds \/ Update \/ SkipSave \/ BeginSave \/ EndStep
  \/ RotateActor \/ WriteActor \/ RotateCritic \/ WriteCritic
  \/ WriteData \/ OpenTracker \/ WriteTracker

Next == Running \/ Crash \/ Rerun

(* One process that is restarted when it stopped and never waits for ever;  *)
(* it need not crash.                                                       *)
Spec == Init /\ [][Next]_vars /\ WF_vars(Running)

----------------------------------------------------------------------------
(* Properties *)

ActorOf(weights) == SubSeq(weights, IF CriticWarmup = 0 THEN 1 ELSE CriticWarmup, Len(weights))

(* The checkpoint the tracker names is complete and of one piece: actor,    *)
(* critic and dataloader were saved by the same process at the same step,   *)
(* however often the process was killed while it saved others.              *)
TrackedCheckpointComplete ==
  LET k == tracker.step IN
  k > 0 =>
    /\ k \in DOMAIN ckActor \cap DOMAIN ckCritic \cap DOMAIN ckData
    /\ Len(ckCritic[k]) = k
    /\ ckActor[k] = ActorOf(ckCritic[k])
    /\ ckData[k].pass * EpochLen + ckData[k].pos = k

(* Weights, step counter and dataloader are restored from different files   *)
(* and still agree: the weights about to be updated were made by one update *)
(* per global step, and the batch is the next one, none twice, none left out. *)
NoBatchTwice ==
  phase = "batch" =>
    /\ Len(critic) = global_step - 1
    /\ actor = ActorOf(critic)
    /\ Served = global_step
    /\ \A i \in DOMAIN critic : critic[i].batch = i

(* A dataloader restored with nothing left costs the loop an epoch, one in  *)
(* all: the next restart computes the epoch from the step again.            *)
EpochsLost == IF "empty" \in EpochEndResume /\ life > 1 THEN 1 ELSE 0

AllStepsTrained ==
  Len(critic) + EpochLen * EpochsLost >= (IF TotalSteps < MaxStep THEN TotalSteps ELSE MaxStep)

(* When fit() returns, all steps were made and the last one trained is the  *)
(* one a later start resumes from, "the last training step" being one of the *)
(* conditions under which a checkpoint is saved; not so if an epoch was     *)
(* lost and the loop ended before that step.                                *)
TrainingComplete ==
  phase = "finished" =>
    /\ AllStepsTrained
    /\ SaveFreq > 0 /\ (last \/ "empty" \notin EpochEndResume) =>
          tracker = [step |-> Len(critic), readable |-> TRUE]

(* Only a tracker that was being written when the process died stops a      *)
(* restart; a checkpoint that is missing or incomplete never does.          *)
FailsOnTornTrackerOnly == phase = "failed" => ~tracker.readable

(* If it is killed finitely often, training ends, or cannot be resumed.     *)
Ends == <>[](phase \in {"finished", "failed"})

(* Seen from outside, training is a sequence of updates that a crash takes  *)
(* back to the last checkpoint and never further.                           *)
Saved == IF tracker.step = 0 THEN <<>> ELSE ckCritic[tracker.step]

Durable == INSTANCE DurableTraining WITH
  durable <- Saved,
  current <- IF phase \in {"down", "failed"} THEN Saved ELSE critic

DurableSpec == Durable!DSpec

================================================================================
