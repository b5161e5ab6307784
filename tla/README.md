# A TLA+ verification project for StepPO

StepPO trains language-model agents with step-level reinforcement learning. Its
own code is `src/arft` (the trainer, the agent-flow runtime, the advantage
estimators) and `src/recipe` (four agent tasks). `src/verl` is a vendored copy of
veRL: it is outside the project except where ARFT relies on what one of its
functions does, and except for its fully asynchronous policy recipe, whose
protocol is the hardest concurrency in the repository.

This directory holds the specifications, the TLC instances and the TLAPS proofs.
`PROJECT.json` lists, in machine-readable form, the components, the runs, the
lines every definition stands for, a mutant for every checked property, the
hazards and the theorems.

    tlc -workers 2 -config MCPaperSearch.cfg MCPaperSearch.tla
    tlapm PaperSearch_proofs.tla

## 1. Inventory

One training iteration goes like this. The **driver** (`RayAgentTrainer.fit`)
draws a batch of prompts and calls the **agent-flow manager**, which wakes the
rollout replicas, cuts the batch into one chunk per **worker** and waits. A
worker runs one **agent flow** per sample on its event loop; the flow asks a
language-model server for responses, turns their tool calls into requests to its
environment, and records one row per step. The manager joins the rows, puts the
replicas to sleep and reports the number of steps of every trajectory. The
driver repeats its half of the batch by these numbers, pads and balances it, has
rewards, values and log-probabilities computed, calls an **advantage estimator**,
updates critic and actor, and now and then saves a **checkpoint** from which a
later process resumes.

| component | state | operations | what is hard | what makes it correct |
|---|---|---|---|---|
| paper-search flow (`recipe/paper_search/paper_search_agent_flow.py`) | paper pool, `expand` flags, query history, list of steps | one response per step; concurrent `search` and `expand` coroutines, each of three segments between awaits | coroutines that read the pool before an await and write it after; failures between two segments | a paper is rewarded once, expanded once, and only when listed; rewards are backed by what was collected; the trajectory ends |
| paper pool listing, tool-call parsing (`utils.py`, `tool_utils.py`) | the pool's entries | `add_paper`, `paper_list`, decoding of tool calls | ties and cut-offs | listed papers are those of the pool |
| HTTP retries (`http_retry.py`, `utils.py`), reward loop (`arft/reward_loop.py`) | semaphore permits and waiters, answers received | request, wait, retry, give up | permits lost on an error path; a call that sleeps on a permit; three loops that retry different answers | permits conserved; a call comes to what its last request came to; every call ends |
| agent-flow manager and workers (`arft/agent_flow/agent_flow.py`) | replicas awake or asleep, state of every worker call and flow | wake up, split, dispatch, gather, concatenate, sleep | flows end in any order with different numbers of rows; one of many fails | no flow runs on a sleeping replica; rows match their prompts; the call ends |
| LLM server manager (vendored) | load heap, request cache | choose a server | many flows share it | load is spread, a request stays on its server |
| trainer batch pipeline (`arft/ray_agent_trainer.py`) | the rows of one batch, their masks and flags | repeat, union, pad, balance, mask swap, update | positions are the only link between halves; padding copies real rows; one of several flows fails | every step once, aligned |
| advantage estimators (`arft/core_algos.py`) | maps by trajectory and step, GiGPO clusters | gae, token_gae, REINFORCE++, its baseline, GRPO, RLOO, GiGPO | rows in any order, trajectories of different lengths, masked tokens, groups of one | the result is the textbook estimator on each trajectory |
| trainer loop and checkpoints (`arft/ray_agent_trainer.py`, vendored managers) | global step, epoch, dataloader, weights; files: actor, critic, dataloader, tracker | start, resume, step, rotate, save, crash | a crash between any two files; epoch boundaries; a resumed dataloader | the tracked checkpoint is complete; no batch twice; every step made; the last one saved |
| reward scaling (`arft/reward_scaling.py`) | running mean and variance of returns | scale a batch | not saved in a checkpoint | grouping of returns as in the estimators |
| validation and metrics (`_validate`, `arft/metric_utils.py`) | none | cut rows into trajectories, sum | positions only | each trajectory summed over its own rows |
| WebShop flow, client, server, engine (`recipe/webshop`) | `EnvState` kept by the client, observation, available actions, history | reset, step: search and eight clicks | the server is stateless, requests fail on either side; options outlive the page they were chosen on | the prompt shows the state the next action is tried in; listed actions work; a product is bought with its own options |
| ALFWorld flow (`recipe/alfworld`) | game, observation, two histories | step, terminal row | a row added after the game ended; two lists that alternate as one | one terminal reward; the history is what the game executed |
| HotpotQA flow (`recipe/hotpotqa`) | passages, queries | batched local search | a batch that fails is remembered like one that found nothing | a passage is listed once, under a query the history shows |
| fully asynchronous policy (`verl/recipe/fully_async_policy`) | rollouter: pending, cancelled and active samples, pause flag, staleness counter, lock and condition; bounded message queue; trainer: batch, versions; paused servers | feeder, processor, sample tasks, monitor, main coroutine; put and get; train; synchronise | five coroutines, one lock, a synchronisation that interleaves with all of them, resubmission, a queue that drops, counters read and written at different times | no sample trained twice or lost; none too stale; no generation while weights change; every run ends |
| driver, configuration, data preparation, evaluation and inference scripts | none after start-up | sequential | nothing concurrent | - |

## 2. Modules and their order

| order | modules | what they model | status |
|---|---|---|---|
| 1 | `PaperSearch`, `PaperLedger` (abstract), `PaperSearch_proofs`, `MCPaperSearch` | one trajectory of the paper-search flow; what it promises about credit | done |
| 2 | `RolloutBatch`, `RolloutCall` (abstract), `RolloutBatch_proofs`, `MCRolloutBatch` | manager, workers, flows and the trainer's batch, in one module because they hand each other one batch; the call as the trainer sees it | done |
| 3 | `TrainerLoop`, `DurableTraining` (abstract), `TrainerLoop_proofs`, `MCTrainerLoop` | `fit` as a process that is killed and started again; what checkpointing promises | done |
| 4 | `StepAdvantage`, `StepAdvantage_proofs`, `MCStepAdvantage` | `compute_advantage` | done |
| 5 | `AsyncRollout`, `AsyncRollout_proofs`, `MCAsyncRollout` | rollouter, message queue, parameter synchronisation and trainer of the fully asynchronous recipe, in one module because each waits for the others | done |
| 6 | `WebShopEngine`, `EnvFlows` (EXTENDS it), `EnvFlows_proofs`, `MCEnvFlows` | the page automaton of the WebShop server; the loops of the WebShop, ALFWorld and HotpotQA flows | done |
| 7 | `RetryingCalls`, `RetryingCalls_proofs`, `MCRetryingCalls` | the retry loops of the paper-search clients and of the reward loop, and the semaphores they share | done |

`FoldFacts` belongs to no component: it holds the lemmas about `FlattenSeq`,
`SumFunction` and the powers of an integer that three of the proof modules cite.

`PaperSearch` stands on what `RetryingCalls` shows, a call that answers once or
fails; `RolloutBatch` stands on what `PaperSearch` and `EnvFlows` show, a flow that
ends with one row per step (plus the terminal row of ALFWorld); `TrainerLoop`
treats the whole iteration of `RolloutBatch` as one update.

## 3. What is modelled, and how it corresponds to the code

### 3.1 PaperSearch

State: `pool` is the key set of `PaperPool.papers`, `expanded` the entries with
`expand = True`, `history` the keys of `history_search_queries`. `trace` records,
per step, every call with the segment its coroutine has reached, the papers it
asks the classifier about (`fresh`) and the papers it added (`kept`); `status` is
the control point of `run`.

A coroutine is not interrupted between two awaits, so each of its segments is
one action: `StartSearch` and `StartExpand` (the checks before the first await,
under the pool lock for an expand), `FetchAnswers` or `FetchFails` (the answer of
the retrieval service), `ScoresArrive` (the answer of the classifier, any of whose
scores may be missing, and the second look at the pool). asyncio starts the
coroutines of a `gather` in order and polls for answers afterwards:
`MyTurnToStart` and `AllStarted`. `Dispatch` truncates the response to
`max_parallel_calls` and drops unusable calls; `FinishStep`, `FinalStep` and
`ExhaustSteps` are the three ways a step or the loop ends.

Abstracted: scores are integers in units of 0.5; a service answer is a set of
papers; retries are part of the one answer; wording, prompts and parsing are out.

`PaperLedger` says what the flow owes: calls are closed at most once, with papers
nobody was credited for, for good. The mapping is `Credit` and `Closed`.

### 3.2 RolloutBatch

State: `phase` is the driver's position; `awake` the replicas; `worker` and
`flow` the state of each worker call and each sample's flow; `steps` the rows a
flow has made; `output` what the manager returned; `batch` the trainer's rows and
`saved` the `response_mask` that `fit` puts aside for the critic's update. A row carries where its two halves come from (`uid` from the trainer's half, `from`
and `step` from the rollout's), its `is_pad` and its mask.

`NextBatch`, `WakeReplica`, `Dispatch` (split, and the `ValueError` of
`zip(strict=True)` when there are fewer chunks than workers, after the chunks
were sent), `FlowStep`/`FlowDone`/`FlowRaises`, `WorkerReturns`/`WorkerRaises`
(`gather` without `return_exceptions`: the first failure ends the worker's call,
the other flows go on), `Concat`, `SomeRaised`, `SleepReplica`, then `Join`
(`sample_level_repeat` and `union`), `Pad`, `Balance` (any equal deal of rows to
ranks, since lengths decide), `UpdateCritic` (the mask is saved, then replaced),
`UpdateActor` (the saved one is put back), `EndIteration`. The swap is three
statements in a row, so no property is about it; the masks matter to
`PadRowsMaskedOut`.

Left out: columns that only add numbers to rows (log-probabilities, values,
rewards, KL). `RolloutCall` is the trainer's view: one call that raises or
delivers every sample's rows, complete and in one piece.

### 3.3 TrainerLoop

State in memory: `global_step`, `epoch`, `loader` (passes completed and batches
yielded in this pass), `last` (`is_last_step`), the weights `actor` and `critic`
as the sequence of updates that made them, `prevActor`/`prevCritic`
(`previous_saved_paths`). State on disk: `ckActor`, `ckCritic`, `ckData` by step
and `tracker`. `Crash` and `Rerun` lose the first kind and keep the second.

One action per file operation of `_save_checkpoint`, in the order of the code:
rotate and write the actor, rotate and write the critic, write the dataloader,
truncate the tracker, write it. A start is `StartFresh`, `StartResumed` or
`StartFails`, by what `find_latest_ckpt_path` finds. `TakeBatch` evaluates
`is_last_step` before the step, as the code does; `EndStep` increments after it.

External: the restored `StatefulDataLoader` is not in the tree. What it does when
it was saved at the end of a pass depends on its version, so `EpochEndResume`
gives both outcomes (nothing left, or a new pass) and the runs allow both. A
directory being written counts as missing; a removal is one step. The adaptive
KL controller and the reward scaler are not modelled: the code does not save them.

`DurableTraining` says what a checkpoint is for: updates are added one at a time,
a commit makes them durable, and a restart has exactly the durable ones.

### 3.4 StepAdvantage

State: the rows of `batch` (trajectory, step, prompt, `is_pad`, mask, anchor
observation), the loop counters `t` and `j`, the running values the loops keep
(`lastgae`, `nextv`, `boot`, `perRow`), the totals per trajectory, GiGPO's
`clusters`, and the result `adv` over `divisor`. One action per iteration of each
loop. `Init` makes every batch the trainer can hand over: each step of a trajectory
once and after the steps before it, in any order, with flagged copies.

Numbers are integers; an estimator that divides by a group's size keeps the
divisor apart, so nothing is rounded. The whitening and grpo's division by a
standard deviation need real numbers and are left out: the first moves and scales a
whole batch alike, the second a prompt's group. GiGPO is not like that. Its advantage
is a sum of two parts, and in the default mode `mean_std_norm` each is divided by a
deviation of its own before they are added: the part on outcomes by that of the
prompt's trajectories, the part on steps by that of the step's group. So the sum is
not formed: `adv` over `divisor` is the first part, `stepAdv` over `stepDivisor` the
second (`StepPart`), and `stds` has, for each, the scores whose deviation divides it
(`Stds`; none in `mean_norm`, where the advantage is the plain sum of the two).
Where no trajectory has a step, the code starts its loop at the last
step of the longest trajectory and the model at `MaxSteps`; the extra iterations
change nothing.

### 3.5 AsyncRollout

`FullyAsyncRollouter` is one Ray actor, hence one event loop. `turn` names the
coroutine that has not given the loop up yet: a coroutine runs on until it awaits
something that is not there, and an `await` of a free lock or a non-empty queue
does not suspend it. `lockq` is `asyncio.Lock`: its holder and, in order, its
waiters; `Ask`, `Holds` and `Release` are the `async with self.lock` of the code.

| code | model |
|---|---|
| `_feed_samples` | `Feed`; the bounded `pending_queue` is filled in one step because the feeder suspends only when it is full |
| `_processor_worker` | `ProcTop` .. `ProcWoken`, one action per stretch between two awaits, control point `ppc`; `hand` is `rollout_sample`, `bound` says whether `done_tasks` was ever assigned |
| `_process_single_sample_streaming` | `TaskStart`, `TaskGenerated`, `TaskCancelled`, `TaskRaises`, `QueuePut` (the queue's process), `TaskEnds` |
| `_streaming_generation_main`, `_async_monitor_loop` | `MainEndMarker` .. `MainStop`; `MonitorAsk` .. `MonitorRecover` |
| `pause`, `update_param_version`, `resume`, called by `ParameterSynchronizer.sync_weights` | `SyncAsk` .. `Resume`, control point `spc` |
| `MessageQueue` | `mq`, `PutSample` (a full queue drops its oldest), `Collect` |
| `FullyAsyncTrainer.fit` | `Collect`, `Train`, `StartSync`, `Close`, `Last` |

`active_tasks` is split into the unfinished tasks (`task`), and the numbers of
finished and raised ones that nobody collected yet (`ended`, `failed`), because
`pause()` and the processor both collect. Servers are external: with `partial`
rollout a paused one cancels what it generates and refuses what arrives.
`done[s]` is the parameter version a sample was finished under. `synced` is the
version `sync_weights` was called with: `update_param_version` announces that one,
although the trainer may have moved on to the next. Left out:
validation, statistics, and the content of samples. The code's own TODO, that a
dataloader checkpoint loses what is in the queues, is a hazard without a property.

### 3.6 WebShopEngine and EnvFlows

`WebShopEngine.Step` is `WebShopEngine.step`: the clicks in the order the code
tries them (`Accepts`, `Clicked`), searches, refusals. `Listed` is
`available_actions`, `Page` what of the state can be read from the rendered page,
`Satisfied` a reward of at least 0.999, with options matched by their names as in
the default engine; `webshop_full` compares values fuzzily, which no property tells
apart. `ShopAssumption` excludes catalogues in which an option value or a product id
reads like a control, a subpage or each other. The server keeps no session: a step is a
function of the state in the request, so a request that is lost on either side
leaves the client's state as it was (`ShopFails`).

`EnvFlows` has one action per outcome of an iteration: `ShopInvalid`, `ShopActs`,
`ShopFails`; `AlfInvalid`, `AlfActs` (with the terminal row), `AlfRaises`;
`HotSearches` (all queries of one response, ingested in order, or all of them
failed), `HotInvalid`, `HotAnswers`. A trajectory shares nothing with the others, so
an iteration is one step. `log` is the executor's list of ALFWorld commands and
`hist` the flow's, which is replaced by a copy of `log` after every valid command.

### 3.7 RetryingCalls

`httpx_request_with_retry` with its callers in `PaperSearchClient`, the retry loop
of `SelectorClient`, and `_post_request` of the reward loop, for the calls that run
at the same time. `answers` is what the requests of each call came to; `free` and
`queue` are the semaphores. The loops retry different answers (`RetriedBy`): the
paper clients a 503 and an exception, the selector also 429, 500, 502 and 504, the
reward loop any 5xx and any failure of the request, its body included (a 5xx that the
selector does not retry is its `refused`). A permit is held for one request,
not for the delay after it (`Answer` gives it back, `Wake` ends the delay), and goes
to the first waiter.

## 4. What the runs check

| run | instance | shows |
|---|---|---|
| `paper_search` | 3 steps, 2 concurrent calls of up to 3 emitted, 1 query, 2 papers | `CreditedOnce`, `ExpandedOnce`, `QueryInOneStep`, `ExpandsWhatWasListed`, `RewardBackedByPool`, `Terminates`, and the refinement `LedgerSpec` |
| `rollout` | batches of 1 or 2 prompts, 2 trajectories each, up to 2 steps, 2 workers, 2 replicas, 2 ranks, gae | `FlowsRunAwake`, `RowsAligned`, `EveryStepOnce`, `IterationEnds`, and the refinement `CallSpec` |
| `rollout_padding` | batches of 1 to 3, 5 ranks, token_gae | `EveryStepOnce` and `IterationEnds` for batches smaller than the workers, and for padding longer than the batch |
| `trainer_loop` | 3 epochs of 2 batches, 5 steps, `save_freq` 3 or on demand, 2 kept, 4 lives | `TrackedCheckpointComplete`, `NoBatchTwice`, `TrainingComplete`, `FailsOnTornTrackerOnly`, `Ends`, and the refinement `DurableSpec` |
| `advantage` | every estimator, up to 3 rows of 3 tokens, 3 trajectories, 2 steps, 2 prompts, 5 kinds of rows; GiGPO in `mean_std_norm`, with similarity | `StepAdvantages`, `TokenAdvantages`, `OutcomeAdvantages`, `GigpoAdvantages` |
| `async` | 3 samples, 8 configurations (partial or not, 1 or 2 samples per batch, 1 or 2 batches per synchronisation, thresholds 0, 0.5 and 1), one failing generation | `SampleInOnePlace`, `NoGenerationDuringSync`, `TrainingEnds` |
| `async_long` | 5 samples, 10 configurations, no failure | `FreshnessBound`, `LagBound`, `DropsBounded` |
| `env_flows` | 3 products with 2 options and a value they share, 3 queries, windows of 2, 7 shop steps; games of 4 turns; 3 passages, 2 calls per response | `PromptIsCurrent`, `ListedActionsWork`, `OptionsOfProduct`, `RewardWhereEarned`, `HistoryOfGame`, `PassagesOnce` |
| `retry` | 3 calls for one permit, and one call of each loop; 2 or 3 attempts | `PermitsConserved`, `OutcomeOfLastAnswer`, `CallsEnd` |
| `rollout_pad_mask`, `async_sync`, `async_hang` | | the disagreements below |

A `TypeOK` is proved (section 5) rather than checked by a run: `PaperSearch`,
`RolloutBatch`, `TrainerLoop` and `AsyncRollout` have a theorem for it, `EnvFlows` and
`RetryingCalls` carry their types in the invariants of their proofs.

**Bounds.** Three steps of a search are the least that separate "an earlier step",
"this step" and "a later step" (`QueryInOneStep`, `ExpandsWhatWasListed`); two calls
race, and emitting one call more than are taken shows the truncation. Two workers,
two samples per prompt and chunks of unequal length are enough for every misalignment
of positions, five ranks for padding that wraps around the batch. Two batches per
epoch put a checkpoint on, before and after an epoch's end, `TotalSteps` 5 of 6 stops
in the middle of the last one, and four lives let a crash hit the process that
resumed from a checkpoint written by a process that had resumed. Three rows of three
tokens hold two trajectories with a successor step between rows of the other, a copy,
a tool's turn inside a response and an empty response. Scores and values are chosen
so that no sum of a few equals another. `SYMMETRY` permutes the prompts, which no
definition tells apart. In `async` three samples are one in the processor's hands,
one generating and one queued, while a synchronisation runs, and a synchronisation
after the end marker; in `async_long` five samples fill and overflow a queue of
three and pass two synchronisations. `PendingMax` 2 makes the feeder wait. Seven shop
steps reach a second product through a second search with an option chosen before;
three calls make a queue of two behind one permit, one of them by the detail
requests' fallback to the general semaphore.

**Deadlock** is checked where the specification has a stuttering end (`PaperSearch`,
`AsyncRollout`, `EnvFlows`): in `async` and `async_long` it shows that the parts are
never all stuck before the trainer and the monitor are done. The others stop by
design: the trainer raises, training ends, an estimator returns, calls return.

**Fairness.** `PaperSearch`: weak fairness of `Progress`; the clients bound every
attempt by a timeout and the attempts by `max_retries`, and the event loop runs
what is ready. `RolloutBatch`: weak fairness of the driver's steps, and of every
replica, flow and worker call on its own; they are separate actors or tasks and none
blocks another. That a flow ends is assumed here and is what `Terminates` shows of
the paper-search flow. `TrainerLoop`: weak fairness of the running process and of
its being started again; crashes are not fair and bounded by `MaxLives`, so `Ends`
says that a job that is killed finitely often ends. `AsyncRollout`: strong fairness of
each coroutine, because a callback that is ready stays in the event loop's FIFO queue
while others run (the model's `turn` makes it look disabled meanwhile) and
`asyncio.Lock` is handed over in order; weak fairness of the trainer, a process of
its own. Generations that raise are not fair. `RetryingCalls`: weak fairness of
each coroutine and of the answer to each httpx request, which has a timeout; none of
the answer to a reward-model request, which has no timeout, and `CallsEnd` excepts
exactly that wait. `StepAdvantage` and `EnvFlows` have no liveness property, hence no
fairness: `EnvFlows` counts every iteration towards `max_steps` by construction.

`TrainingEnds` is stated without partial rollout only: with it, `async_hang` shows
a run in which the rollouter sleeps for ever.

**Disagreements with the documentation.** Three runs check a sentence of a comment or a
README that the code does not keep.

| run | sentence | what happens |
|---|---|---|
| `rollout_pad_mask` | "pad with everything masked out" | copies keep their mask, and the critic trains on them |
| `async_sync` | the rollouter waits for its ongoing tasks and does "not add new tasks" during a synchronisation | the monitor decides to lift the pause before it waits for the lock a synchronisation holds, lifts it afterwards, and the processor submits a task while weights are replaced. With partial rollout the paused servers refuse it (`NoGenerationDuringSync`); without, it generates |
| `async_hang` | the monitor is there to "Trigger rollout recovery" | with partial rollout, tasks that paused servers refused are counted among the active and among the cancelled: the staleness reaches its limit with nothing in the queue, and neither the monitor nor a synchronisation (the trainer waits for samples) wakes the rollouter |

Reading the code for these modules also showed, without a run: the `[EXP]` flag of a
paper is set before the request and stays when the request fails
(`paper_search_agent_flow.py:264`); per-trajectory times are sliced by step counts, so
that they are those of other trajectories (`agent_flow.py:997`); with one checkpoint
kept, the only complete one is removed before its successor is written
(`fsdp_checkpoint_manager.py:213`), which is why the theorems assume `MaxKeep # 1`;
the tracker is truncated in place (`ray_trainer.py:1004`), and `FailsOnTornTrackerOnly`
says that this is the only way a restart can fail; similarity of observations is not
transitive, so GiGPO's clusters depend on the order of the rows
(`core_algos.py:549`); when `total_training_steps` exceeds the data, the last step
is saved only if `save_freq` divides it; samples short of a batch when the end marker
arrives are given up; a `Retry-After` of any length is slept through.

## 5. What is proved

Every safety invariant, action property and refinement that a passing run checks is
also a theorem. Every theorem assumes its module's `ASSUME`d constants; those of
`TrainerLoop` assume in addition `MaxKeep # 1`, and `TrainingEndsComplete` also
`TotalSteps <= MaxStep`. They hold for every number of steps, calls, papers, samples,
workers, rows, tokens, products, permits, crashes and files. Sums and batches are of
finite sets: `PaperSearch` assumes that `Papers` is finite (with rewards in the natural
numbers) and `RolloutBatch` that `BatchSizes` is; a response lists finitely many papers
and a run has finitely many batch sizes.

* `FoldFacts`. The community modules define `FlattenSeq` and `SumFunction` by recursion,
  and what a recursion computes cannot be proved here by induction with an operator.
  The lemmas are proved from the least counterexample instead: a set of naturals that
  is not empty has a least element (`NatLeast`), and the one before it is no
  counterexample. So a sequence of sequences has offsets, every place of the flattened
  sequence lies in exactly one piece, and the piece's element is there (`Flattened`);
  a sum over a finite set exists, is an integer, takes an element in or out
  (`SumAdd`), splits over disjoint parts, scales, is monotone, and does not depend on
  how its terms are named (`SumRenamed`); the powers of an integer exist.
* `PaperSearch_proofs`. `TypeCorrect` is inductive by itself. `CreditSafe`,
  `ExpandSafe`, `QuerySafe` and `ListedSafe` come from one inductive invariant,
  `IInv`: the four properties and three facts that make them survive a step. Only a
  scored call keeps papers (or a call could lose what it was credited for); a query
  that was sent is in the history unless its call is in flight in this very step
  (the history is written late, so `QueryInOneStep` alone is not inductive); while a
  call of the step has not started, none of its calls has added to the pool (so an
  expand cannot be admitted for a paper found in the same step). Every action of a
  coroutine is first reduced to one description of its outcome (`ActOutcome`), and
  the invariant is carried over that. `RewardSafe` (the rewards never add up to more
  than the papers of the pool are worth) rests on `CreditedOnce`: what different calls,
  and hence different steps, are credited for are disjoint parts of the pool, and
  `SumCover` adds up what each part bounds. `LedgerRefined` proves the refinement: each
  settling segment is a `Close` of the ledger and every other action a stutter.
* `RolloutBatch_proofs`. `ChunksPartition`: for every batch size and number of
  workers, the chunks cover every sample, are disjoint, and are at most as many as
  the workers. `RolloutTypes` types the control state. `AwakeSafe` needs a stronger
  invariant: all replicas are awake from dispatch to the end of every flow and stay so
  after a crash, every worker got a chunk while the manager waits (so no chunk is left
  out of the wait), a worker call that returned left no flow of its chunk running, and
  in the other phases no flow runs. `ChunksPartition` turns "all workers returned"
  into "no flow runs". The theorems on the batch share a second
  invariant, `DataInv`: every flow that ended took a step, the manager's output is the
  flows' rows laid out sample after sample, and the joined batch is `Complete` (its rows
  that are not padding are every step of every trajectory, once) and `Aligned` (each has
  the uid of the prompt its trajectory answered). At the join (`JoinedComplete`) the driver's half is repeated by the step
  counts, and by `Flattened` its places are cut at the same offsets as the other half's;
  padding only appends flagged copies, and balancing permutes (the ranks `ByRank` gives
  the rows to partition the places). `AlignedSafe` and `EveryStepSafe`
  follow. `CallRefined` proves the refinement: padding the joined batch is the
  abstract delivery, an exception its `Raise`, and what manager, workers and flows do before is a
  stutter.
* `TrainerLoop_proofs`. One invariant relates memory and disk. Its parts: what a
  process holds in memory (`MemoryInv`: the weights are the updates of the steps made,
  and the dataloader's position is one that fits them), `is_last_step` between its
  computation and its use (`LastInv`), the tracker (`TrackerInv`: a number in it names a
  step all of whose files are there), every file (`FilesInv`: a checkpoint of step `n`
  has the weights of `n` and a position that fits), and the rotation lists (`PrevInv`:
  strictly increasing, with the tracked step last until its successor is written, so a
  rotation that keeps at least one path never removes it: this is where `MaxKeep # 1`
  enters). From it `CheckpointComplete`, `BatchesOnce`, `TornTrackerOnly` and
  `TrainingEndsComplete`; the last needs `TotalSteps <= MaxStep`, since otherwise the
  data ends before `is_last_step` is ever true. `DurableRefined` proves the refinement:
  writing the tracker is the commit, a start the restart, everything else a stutter.
* `StepAdvantage_proofs`. `GaeCorrect`: whatever the order of the rows and the
  padding, gae gives every step its temporal difference plus the discounted
  advantage of its trajectory's next step. The invariant `GaeInv` says that at step
  `t` the rows of later steps have their equation and `lastgaelam` is the advantage
  of step `t + 1`, or 0 where the trajectory has none. The last clause needs that
  the steps of a trajectory are contiguous (`BatchOK`): behind its end rewards and
  values are the zeros of the maps, so 0 is carried down to its last step.
  `TokensCorrect` has two invariants. `TokenInv`, for token_gae: the tokens behind the
  loop's place have their equation, `lastgaelam` is the advantage of the first of them
  that is the model's, `nextvalues` its value and `bootstrap_value` that of the first
  one in the later steps, each 0 where there is none; the first token behind a place is
  unique because a step has one row. `RfInv`, for reinforce_plus_plus: the running
  return is what the next token's run of rewards is worth, and 0 behind a break.
  `OutcomesCorrect`, for batches of unbroken responses: `TotalsInv` says that the table has, for every trajectory met so
  far, what its rows met so far add up to, and `NormalInv` what `Normalize` leaves. With
  unbroken responses a row adds its score once (the reward token is masked in), the rows
  of a trajectory are its steps one to one, and a prompt's group in the table is the set
  of its trajectories; the rest is arithmetic, with rloo's sum over the others taken out
  of the sum over all; it covers the first part of GiGPO's sum too. `GigpoCorrect`, on the
  second part, the groups and the deviations, in both modes, adds two invariants. `ReturnInv`: the steps behind the
  loop have their discounted returns (`StepReturn`, over all steps, with 0 where the
  trajectory has none, which is why padding the maps with zeros is right).
  `ClusterInv`: a row is in the first cluster it fits and in no other. That survives
  later rows because a cluster's representative never changes and new clusters are
  opened behind the others; it gives one group per step although similarity is not
  transitive, and needs that an observation is similar to itself.
* `AsyncRollout_proofs`. `AsyncTypes`. `QuietDuringSync`: between `pause()` and
  `resume()` the servers stay paused, and whatever generated when they were paused has
  left before the gather of `pause()` returned. `Freshness`: the staleness counter
  bounds the samples started and not yet with the trainer, except for the one in the
  processor's hands; `FreshInv` also has to follow the two halves of
  `update_param_version`, where the new count is in a local variable (`count`) while the
  queue is asked, and nothing is started because the synchronisation holds the lock.
  `NeverLostNorTwice`: every sample is in exactly one of ten places. `PlaceInv` adds what
  the moves need: the processor's hands are empty where it takes a sample, the queues
  have no repetition (a put needs that the sample is not queued, which follows from its
  being a task), the feeder has handed on exactly what it counts, and the end marker is
  queued only by the main coroutine, once. `Drops`: a drop needs as many samples on their
  way as the queue holds, and one more. `DropInv` says that as long as every reset of
  the staleness count has been paid for by a drop, the count covers all of them, so the
  processor cannot take that one more; it needs that a version is announced once per
  reset (`VersionInv`, which follows `synced` and the trainer's version), that the queue
  has no repetition and that a dropped sample is nowhere else (`PlaceInv`), and
  `FreshInv`. `LagSafe`: how many versions a trained sample is behind. The
  invariant counts the samples consumed so far, in rounds of batches between two
  synchronisations (`RoundInv`). A finished sample is queued with a stamp that is at most
  a version old (`StampInv`), and a queued one is consumed, in the order of the queue,
  before it is due (`QueueInv`). Without a staleness threshold as many samples are
  started for a version as are trained in it, so none is finished before its version is
  the trainer's (`ExactInv`).
* `EnvFlows_proofs`. One invariant for the three flows gives `CurrentPrompt`,
  `OptionsOwn`, `RewardEarned`, `GameHistory`, `ListedOnce` and `ListedAccepted`. The
  WebShop part says that a product or subpage is one of a product, and that the chosen
  options are that product's, whatever page shows. `HistoryOfGame` needs that the executor's list has
  one entry per turn and nothing else. Two facts need the least element of a set of
  naturals (the last option with a value exists; a passage is found by a first query),
  taken as a minimal counterexample from the library's `WellFoundedInduction`.
* `RetryingCalls_proofs`. `Permitted`: a permit given back goes to the first waiter or to
  the semaphore, never both and never neither, which needs that a call asks for the
  permits of one semaphore at most (`OnePool`). `LastAnswerCounts`: every answer but the last was one to retry.

**Only model-checked.** Liveness, fairness and `ENABLED` are beyond the prover:
`Terminates`, `IterationEnds`, `Ends`, `TrainingEnds` and `CallsEnd` are checked on the
instances of section 4 only.

## 6. What is not modelled

The tensor work (tokenisation, padding of one step, attention masks, losses), the
engines and workers of veRL, its other recipes, kernels, models and vendored code,
profiling, tracing and logging: most of the repository's lines are these, and they have
no control of their own that the properties could tell apart, so the share of lines the
models stand for is small and stays so. Whitening, grpo's standard deviation and
the values of GiGPO's (and the running variance of `reward_scaling.py`) need real numbers;
of GiGPO's the model has the scores they are taken of, not the quotients or their sum. Asynchronous saving, HDFS and
loading by path are other configurations of the checkpoint code. The adaptive KL
controller and the reward scaler are not saved by the code, so a restart loses them; no
model has their values. Single-threaded scripts (data preparation, evaluation, offline
inference, the model merger, the driver's configuration) read and write files in
sequence. The server manager's choice of a server is a heuristic without a promise
that could fail, and the metrics and the cut of validation rows are sums. Not in a model
either: HTTP clients of different trajectories (each has its own semaphores, so nothing
in the code bounds them together), the checkpoints of the asynchronous recipe, the loss
of a partial sample's tail, and ALFWorld's and the search index's own behaviour, which
are external. Hazards that no property covers are listed in `PROJECT.json` with the
reason.
