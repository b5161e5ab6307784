----------------------------- MODULE StepAdvantage -----------------------------
(***************************************************************************)
(* compute_advantage (src/arft/ray_agent_trainer.py) on one batch: the     *)
(* loops of the estimators of src/arft/core_algos.py, one action per       *)
(* iteration.                                                              *)
(*                                                                         *)
(* A row of the batch is one step of one trajectory; the balancing has     *)
(* put the rows in some order and padding has added copies.  Scores,       *)
(* values, Gamma and Lam are integers: gae, token_gae and                  *)
(* reinforce_plus_plus only add and multiply.  The estimators that divide  *)
(* by the size of a group keep the divisor apart: the advantage of row i   *)
(* is adv[i][j] / divisor[i].                                              *)
(*                                                                         *)
(* GiGPO adds a second part, stepAdv[i][j] / stepDivisor[i].  In its mode  *)
(* mean_std_norm each part is first divided by the standard deviation of a *)
(* group of its own, so that the two cannot be added here: stds[i] has the *)
(* scores that the two deviations are taken of.  The division by the       *)
(* standard deviation in grpo and the whitening, which move and scale the  *)
(* advantages of a prompt or of the whole batch alike, are left out.       *)
(***************************************************************************)
EXTENDS Integers, Sequences, FiniteSets, Functions

CONSTANTS
  Estimators,       \* the values of algorithm.adv_estimator that are looked at
  Trajectories,
  Prompts,
  MaxSteps,         \* bound on the steps of a trajectory
  MaxRows,          \* bound on the rows of a batch, padding included
  RespLen,          \* length of the response tensors
  RowKinds,         \* the masks and anchor observations of a row, as pairs
  Score,            \* reward_score of a trajectory's step
  Value,            \* what the critic says of each of its tokens
  Gamma, Lam,
  StepAdvantageW,   \* gigpo.step_advantage_w
  GigpoMode,        \* gigpo.mode
  EnableSimilarity, \* gigpo.enable_similarity
  Similar           \* the pairs of observations whose ratio is at least
                    \* similarity_thresh

Tokens == 1..RespLen
StepIds == 1..MaxSteps
OutcomeEstimators == {"grpo", "reinforce_plus_plus_baseline", "rloo", "gigpo"}
AllEstimators == {"gae", "token_gae", "reinforce_plus_plus"} \cup OutcomeEstimators
Observations == {kind[2] : kind \in RowKinds}

ASSUME ConstantsAssumption ==
  /\ Estimators \subseteq AllEstimators
  /\ MaxSteps \in Nat \ {0} /\ RespLen \in Nat \ {0} /\ MaxRows \in Nat
  /\ \A kind \in RowKinds : kind[1] \in [Tokens -> {0, 1}]
  /\ Score \in [Trajectories \X StepIds -> Int]
  /\ Value \in [Trajectories \X StepIds -> [Tokens -> Int]]
  /\ Gamma \in Int /\ Lam \in Int /\ StepAdvantageW \in Int
  /\ GigpoMode \in {"mean_std_norm", "mean_norm"}
  /\ EnableSimilarity \in BOOLEAN
  /\ \A o \in Observations : <<o, o>> \in Similar

VARIABLES
  estimator, \* algorithm.adv_estimator
  batch,     \* the rows
  phase,     \* which loop of the estimator is running
  t, j,      \* its loop counters: a step or row, and a token
  lastgae,   \* lastgaelam, or the running return, of each trajectory
  nextv,     \* nextvalues of each trajectory
  boot,      \* bootstrap_value of each trajectory
  total,     \* traj2total_score, for the trajectories met so far
  perRow,    \* one number per row: advantages_map, running_return or the
             \* discounted return of the step
  clusters,  \* GiGPO's step groups, in the order they were opened
  adv,       \* advantages (numerators)
  divisor,   \* and their denominators
  stepAdv, stepDivisor, \* the same of GiGPO's step_advantages, weighted
  stds       \* the scores of each standard deviation that divides a part

gigpo == <<stepAdv, stepDivisor, stds>>
loop == <<t, j, lastgae, nextv, boot>>
tables == <<total, perRow, clusters>>
vars == <<estimator, batch, phase, loop, tables, adv, divisor, gigpo>>

Rows == DOMAIN batch

(* Mutant: padding takes part. *)
AllRows == Rows

(* get_valid_data *)
Valid == {i \in Rows : ~batch[i].pad}

Key(i) == <<batch[i].traj, batch[i].step>>

(* The row of a trajectory's step; None if it has no such step.             *)
None == 0
RowOf(tr, s) ==
  IF \E i \in Valid : Key(i) = <<tr, s>> THEN CHOOSE i \in Valid : Key(i) = <<tr, s>> ELSE None

(* What the trainer can hand over: each step of a trajectory once, after    *)
(* the steps before it were made, and flagged copies of some of them.       *)
Batches(keys, pads) ==
  LET real == {i \in DOMAIN keys : i \notin pads} IN
  /\ \A i, k \in real : keys[i] = keys[k] => i = k
  /\ \A i \in pads : \E k \in real : keys[i] = keys[k]
  /\ \A i \in real : keys[i][2] > 1 => \E k \in real : keys[k] = <<keys[i][1], keys[i][2] - 1>>

BatchOf(keys, pads, uid, kind) ==
  [i \in DOMAIN keys |->
    [traj |-> keys[i][1], step |-> keys[i][2], uid |-> uid[keys[i][1]],
     pad |-> i \in pads, mask |-> kind[keys[i]][1], obs |-> kind[keys[i]][2]]]

Init ==
  /\ estimator \in Estimators
  /\ \E n \in 1..MaxRows :
     \E keys \in [1..n -> Trajectories \X StepIds] :
     \E pads \in SUBSET (1..n) :
       /\ Batches(keys, pads)
       /\ \E uid \in [{keys[i][1] : i \in 1..n} -> Prompts] :
          \E kind \in [Range(keys) -> RowKinds] : batch = BatchOf(keys, pads, uid, kind)
  /\ phase = "start"
  /\ t = 0 /\ j = 0
  /\ lastgae = [tr \in Trajectories |-> 0]
  /\ nextv = [tr \in Trajectories |-> 0]
  /\ boot = [tr \in Trajectories |-> 0]
  /\ total = <<>>
  /\ perRow = [i \in Rows |-> 0]
  /\ clusters = <<>>
  /\ adv = [i \in Rows |-> [k \in Tokens |-> 0]]
  /\ divisor = [i \in Rows |-> 1]
  /\ stepAdv = adv /\ stepDivisor = divisor
  /\ stds = [i \in Rows |-> <<>>]

----------------------------------------------------------------------------
(* Rewards *)

(* _postprocess puts a step's score at response_mask.sum() - 1; at index -1, *)
(* the last one, if the response has no token of the model's.               *)
RewardToken(mask) == LET n == SumFunction(mask) IN IF n = 0 THEN RespLen ELSE n

Reward(i, k) == IF k = RewardToken(batch[i].mask) THEN Score[Key(i)] ELSE 0

(* (token_level_rewards * response_mask).sum(dim=1) *)
StepScore(i) == SumFunction([k \in Tokens |-> Reward(i, k) * batch[i].mask[k]])

(* rewards_map, zero where a trajectory has no such step *)
RewardsMap(tr, s) == IF RowOf(tr, s) = None THEN 0 ELSE StepScore(RowOf(tr, s))

FirstPhase ==
  [e \in AllEstimators |->
     CASE e = "gae" -> "gae" [] e = "token_gae" -> "step"
       [] e = "reinforce_plus_plus" -> "rf" [] OTHER -> "totals"]

Dispatch ==
  /\ phase = "start"
  /\ phase' = FirstPhase[estimator]
  /\ t' = IF estimator \in {"gae", "token_gae"} THEN MaxSteps ELSE 1
  /\ j' = RespLen
  /\ UNCHANGED <<estimator, batch, lastgae, nextv, boot, tables, adv, divisor, gigpo>>

----------------------------------------------------------------------------
(* gae: compute_gae_advantage_return *)

(* values[:, 0] *)
ValuesMap(tr, s) ==
  IF s > MaxSteps \/ RowOf(tr, s) = None THEN 0 ELSE Value[<<tr, s>>][1]

(* Mutant: the next step's value is not discounted. *)
DeltaUndiscounted(tr) == RewardsMap(tr, t) + ValuesMap(tr, t + 1) - ValuesMap(tr, t)

Delta(tr) == RewardsMap(tr, t) + Gamma * ValuesMap(tr, t + 1) - ValuesMap(tr, t)

(* The code starts at the last step of the longest trajectory; the steps    *)
(* after it, which nobody has, change nothing.                              *)
GaeStep ==
  /\ phase = "gae"
  /\ lastgae' = [tr \in Trajectories |-> Delta(tr) + Gamma * Lam * lastgae[tr]]
  /\ perRow' = [i \in Rows |->
                  IF i \in Valid /\ batch[i].step = t THEN lastgae'[batch[i].traj] ELSE perRow[i]]
  /\ t' = t - 1
  /\ phase' = IF t = 1 THEN "broadcast" ELSE "gae"
  /\ UNCHANGED <<estimator, batch, j, nextv, boot, total, clusters, adv, divisor, gigpo>>

(* advantages.unsqueeze(1) * response_mask *)
Broadcast ==
  /\ phase = "broadcast"
  /\ phase' = "done"
  /\ adv' = [i \in Rows |-> [k \in Tokens |->
               IF i \in Valid THEN perRow[i] * batch[i].mask[k] ELSE 0]]
  /\ UNCHANGED <<estimator, batch, loop, tables, divisor, gigpo>>

----------------------------------------------------------------------------
(* token_gae: compute_token_gae_advantage_return *)

Active == {tr \in Trajectories : RowOf(tr, t) # None}

(* Continues with the step before when no trajectory has this one. *)
EnterStep ==
  /\ phase = "step"
  /\ IF Active = {}
       THEN /\ t' = t - 1
            /\ phase' = IF t = 1 THEN "done" ELSE "step"
            /\ UNCHANGED <<j, nextv>>
       ELSE /\ nextv' = [tr \in Trajectories |-> IF tr \in Active THEN boot[tr] ELSE nextv[tr]]
            /\ j' = RespLen
            /\ phase' = "token"
            /\ UNCHANGED t
  /\ UNCHANGED <<estimator, batch, lastgae, boot, tables, adv, divisor, gigpo>>

(* Mutant: tool tokens move the recursion too. *)
ActsOnAny(tr) == tr \in Active

(* Only a token of the model's (mask 1) moves the recursion. *)
Acts(tr) == tr \in Active /\ batch[RowOf(tr, t)].mask[j] = 1

BackToken ==
  /\ phase = "token" /\ j > 0
  /\ lastgae' = [tr \in Trajectories |->
                   IF Acts(tr)
                     THEN Reward(RowOf(tr, t), j) + Gamma * nextv[tr] - Value[<<tr, t>>][j]
                            + Gamma * Lam * lastgae[tr]
                     ELSE lastgae[tr]]
  /\ nextv' = [tr \in Trajectories |-> IF Acts(tr) THEN Value[<<tr, t>>][j] ELSE nextv[tr]]
  /\ adv' = [i \in Rows |->
               IF i \in Valid /\ batch[i].step = t
                 THEN [adv[i] EXCEPT ![j] = lastgae'[batch[i].traj] * batch[i].mask[j]]
                 ELSE adv[i]]
  /\ j' = j - 1
  /\ UNCHANGED <<estimator, batch, phase, t, boot, tables, divisor, gigpo>>

HasAction(tr) == \E k \in Tokens : batch[RowOf(tr, t)].mask[k] = 1

LeaveStep ==
  /\ phase = "token" /\ j = 0
  /\ boot' = [tr \in Trajectories |->
                IF tr \in Active /\ HasAction(tr) THEN nextv[tr] ELSE boot[tr]]
  /\ t' = t - 1
  /\ phase' = IF t = 1 THEN "done" ELSE "step"
  /\ UNCHANGED <<estimator, batch, j, lastgae, nextv, tables, adv, divisor, gigpo>>

----------------------------------------------------------------------------
(* reinforce_plus_plus: compute_reinforce_plus_plus_outcome_advantage *)

(* running_return * response_mask[:, t] *)
RunningAfter(i, k) == (Reward(i, k) + Gamma * perRow[i]) * batch[i].mask[k]

RfToken ==
  /\ phase = "rf"
  /\ adv' = [i \in Rows |->
               IF i \in Valid
                 THEN [adv[i] EXCEPT ![j] = (Reward(i, j) + Gamma * perRow[i]) * batch[i].mask[j]]
                 ELSE adv[i]]
  /\ perRow' = [i \in Rows |-> IF i \in Valid THEN RunningAfter(i, j) ELSE perRow[i]]
  /\ j' = j - 1
  /\ phase' = IF j = 1 THEN "done" ELSE "rf"
  /\ UNCHANGED <<estimator, batch, t, lastgae, nextv, boot, total, clusters, divisor, gigpo>>

----------------------------------------------------------------------------
(* grpo, reinforce_plus_plus_baseline, rloo and gigpo *)

WithEntry(f, tr, entry) ==
  [x \in DOMAIN f \cup {tr} |-> IF x = tr THEN entry ELSE f[x]]

(* _trajectory_total_scores; a trajectory has the uid of its first row. *)
AddRow ==
  /\ phase = "totals" /\ t <= Len(batch)
  /\ LET tr == batch[t].traj IN
       total' = IF t \notin Valid THEN total
                ELSE IF tr \in DOMAIN total
                       THEN [total EXCEPT ![tr].sum = @ + StepScore(t)]
                       ELSE WithEntry(total, tr, [uid |-> batch[t].uid, sum |-> StepScore(t)])
  /\ t' = t + 1
  /\ UNCHANGED <<estimator, batch, phase, j, lastgae, nextv, boot, perRow, clusters, adv, divisor, gigpo>>

TotalsDone ==
  /\ phase = "totals" /\ t > Len(batch)
  /\ phase' = IF estimator = "gigpo" THEN "returns" ELSE "normalize"
  /\ t' = MaxSteps
  /\ UNCHANGED <<estimator, batch, j, lastgae, nextv, boot, tables, adv, divisor, gigpo>>

(* compute_step_discounted_returns *)
ReturnStep ==
  /\ phase = "returns" /\ t > 0
  /\ lastgae' = [tr \in Trajectories |-> RewardsMap(tr, t) + Gamma * lastgae[tr]]
  /\ perRow' = [i \in Rows |->
               IF i \in Valid /\ batch[i].step = t THEN lastgae'[batch[i].traj] ELSE perRow[i]]
  /\ t' = t - 1
  /\ UNCHANGED <<estimator, batch, phase, j, nextv, boot, total, clusters, adv, divisor, gigpo>>

ReturnsDone ==
  /\ phase = "returns" /\ t = 0
  /\ phase' = "groups" /\ t' = 1
  /\ UNCHANGED <<estimator, batch, j, lastgae, nextv, boot, tables, adv, divisor, gigpo>>

(* _are_similar, or equal keys when similarity is not enabled *)
Alike(obs, rep) == IF EnableSimilarity THEN <<obs, rep>> \in Similar ELSE obs = rep

(* Mutant: the groups of all prompts are mixed. *)
FitsAnyPrompt(i, cluster) == Alike(batch[i].obs, cluster.rep)

Fits(i, cluster) == cluster.uid = batch[i].uid /\ Alike(batch[i].obs, cluster.rep)

Fitting(groups, i) == {c \in DOMAIN groups : Fits(i, groups[c])}

(* The row joins the first cluster whose representative it is similar to.   *)
Placed(groups, i) ==
  IF Fitting(groups, i) = {}
    THEN Append(groups, [uid |-> batch[i].uid, rep |-> batch[i].obs, rows |-> {i}])
    ELSE LET first == CHOOSE c \in Fitting(groups, i) : \A d \in Fitting(groups, i) : c <= d
         IN  [groups EXCEPT ![first].rows = @ \cup {i}]

(* _build_step_groups goes through the rows of one prompt after the other,  *)
(* each in the order of the batch; clusters of two prompts never meet.      *)
GroupRow ==
  /\ phase = "groups" /\ t <= Len(batch)
  /\ clusters' = IF t \in Valid THEN Placed(clusters, t) ELSE clusters
  /\ t' = t + 1
  /\ UNCHANGED <<estimator, batch, phase, j, lastgae, nextv, boot, total, perRow, adv, divisor, gigpo>>

GroupsDone ==
  /\ phase = "groups" /\ t > Len(batch)
  /\ phase' = "normalize"
  /\ UNCHANGED <<estimator, batch, loop, tables, adv, divisor, gigpo>>

(* id2score *)
GroupOf(tr) == {x \in DOMAIN total : total[x].uid = total[tr].uid}
SumOver(trajectories) == SumFunction([x \in trajectories |-> total[x].sum])

(* A group of one is left as it is: its mean is taken to be 0.              *)
OutcomeNumerator(tr) ==
  LET n == Cardinality(GroupOf(tr))
  IN  IF n = 1 THEN total[tr].sum ELSE n * total[tr].sum - SumOver(GroupOf(tr))

OutcomeDivisor(tr) ==
  LET n == Cardinality(GroupOf(tr))
  IN  IF n > 1 /\ estimator = "rloo" THEN n - 1 ELSE n

StepGroup(i) == UNION {clusters[c].rows : c \in {d \in DOMAIN clusters : i \in clusters[d].rows}}

(* _normalize_group_scores of the returns: the mean of a group of one is    *)
(* its only return.                                                         *)
StepNumerator(i) ==
  Cardinality(StepGroup(i)) * perRow[i] - SumFunction([k \in StepGroup(i) |-> perRow[k]])

(* Mutant: both parts are divided by the deviation of the outcomes. *)
StdsOfOutcomes(i) ==
  LET outcomes == [tr \in GroupOf(batch[i].traj) |-> total[tr].sum]
  IN  IF GigpoMode = "mean_norm" THEN <<>> ELSE <<outcomes, outcomes>>

(* id2std of the trajectories and of the steps, where remove_std is not set. *)
(* A deviation is torch.std of the scores, or 1 if there is one score, and  *)
(* epsilon is added to it.                                                  *)
Stds(i) ==
  IF GigpoMode = "mean_norm" THEN <<>>
  ELSE << [tr \in GroupOf(batch[i].traj) |-> total[tr].sum],
          [k \in StepGroup(i) |-> perRow[k]] >>

(* step_advantage_w * step_advantages, times the mask *)
StepPart ==
  /\ stepDivisor' = [i \in Rows |-> IF i \in Valid THEN Cardinality(StepGroup(i)) ELSE 1]
  /\ stepAdv' = [i \in Rows |-> [k \in Tokens |->
                   IF i \in Valid THEN StepAdvantageW * StepNumerator(i) * batch[i].mask[k] ELSE 0]]
  /\ stds' = [i \in Rows |-> IF i \in Valid THEN Stds(i) ELSE <<>>]

Normalize ==
  /\ phase = "normalize"
  /\ phase' = "done"
  /\ divisor' = [i \in Rows |-> IF i \in Valid THEN OutcomeDivisor(batch[i].traj) ELSE 1]
  /\ adv' = [i \in Rows |-> [k \in Tokens |->
               IF i \in Valid THEN OutcomeNumerator(batch[i].traj) * batch[i].mask[k] ELSE 0]]
  /\ IF estimator = "gigpo" THEN StepPart ELSE UNCHANGED gigpo
  /\ UNCHANGED <<estimator, batch, loop, tables>>

Next ==
  \/ Dispatch \/ GaeStep \/ Broadcast \/ EnterStep \/ BackToken \/ LeaveStep \/ RfToken
  \/ AddRow \/ TotalsDone \/ ReturnStep \/ ReturnsDone \/ GroupRow \/ GroupsDone
  \/ Normalize

Spec == Init /\ [][Next]_vars

----------------------------------------------------------------------------
(* Properties.  What an estimator owes does not depend on the order of the  *)
(* rows or on how its loops go through them.                                *)

Done(estimators) == phase = "done" /\ estimator \in estimators

(* Steps of one trajectory follow one another, whatever rows lie between    *)
(* them: the advantage of a step is its temporal difference plus the        *)
(* discounted advantage of the next step, and the last step has no next.    *)
(* All of the model's tokens in the step have it.                           *)
StepAdvantages ==
  Done({"gae"}) =>
    \A i \in Valid :
      LET next == RowOf(batch[i].traj, batch[i].step + 1)
          nextValue == IF next = None THEN 0 ELSE Value[Key(next)][1]
          nextAdvantage == IF next = None THEN 0 ELSE perRow[next]
      IN  /\ perRow[i] = StepScore(i) + Gamma * nextValue - Value[Key(i)][1]
                           + Gamma * Lam * nextAdvantage
          /\ \A k \in Tokens : adv[i][k] = perRow[i] * batch[i].mask[k]

Precedes(a, b) ==
  \/ batch[a[1]].step < batch[b[1]].step
  \/ batch[a[1]].step = batch[b[1]].step /\ a[2] < b[2]

(* The model's own tokens of a trajectory, as pairs of a row and a place.   *)
ActionTokens(tr) ==
  {a \in Valid \X Tokens : batch[a[1]].traj = tr /\ batch[a[1]].mask[a[2]] = 1}

Earliest(tokens) == {a \in tokens : \A b \in tokens : b = a \/ Precedes(a, b)}

NextAction(a) == Earliest({b \in ActionTokens(batch[a[1]].traj) : Precedes(a, b)})

(* Generalized advantage estimation on the model's own tokens.              *)
TokenAdvantage(i, k) ==
  IF batch[i].mask[k] = 0 THEN adv[i][k] = 0
  ELSE /\ NextAction(<<i, k>>) = {} => adv[i][k] = Reward(i, k) - Value[Key(i)][k]
       /\ \A b \in NextAction(<<i, k>>) :
            adv[i][k] = Reward(i, k) + Gamma * Value[Key(b[1])][b[2]] - Value[Key(i)][k]
                          + Gamma * Lam * adv[b[1]][b[2]]

(* The powers of Gamma. *)
Discount[n \in Nat] == IF n = 0 THEN 1 ELSE Gamma * Discount[n - 1]

(* The later rewards of a row, as far as the model's tokens go on.          *)
RowReturn(i, k) ==
  SumFunction([l \in {m \in k..RespLen : \A x \in k..m : batch[i].mask[x] = 1} |->
                 Discount[l - k] * Reward(i, l)])

(* The estimators that credit single tokens.  For token_gae, tokens of      *)
(* tools, padding and the ends of rows are passed over: the advantage of a  *)
(* token is that of generalized advantage estimation on the sequence of the *)
(* model's own tokens of its trajectory.  For reinforce_plus_plus a token is *)
(* credited with the later rewards of its row up to the next break.         *)
TokenAdvantages ==
  \A i \in Valid : \A k \in Tokens :
    /\ Done({"token_gae"}) => TokenAdvantage(i, k)
    /\ Done({"reinforce_plus_plus"}) /\ batch[i].mask[k] = 1 => adv[i][k] = RowReturn(i, k)

(* The reward stands on a token of the model's: what every flow of the      *)
(* repository hands over, one unbroken response per step.                   *)
Unbroken(i) ==
  \E n \in Tokens : batch[i].mask = [k \in Tokens |-> IF k <= n THEN 1 ELSE 0]

TrajectoriesOf(uid) == {batch[i].traj : i \in {k \in Valid : batch[k].uid = uid}}

Outcome(tr) ==
  SumFunction([key \in {Key(i) : i \in {k \in Valid : batch[k].traj = tr}} |-> Score[key]])

OutcomeSum(trajectories) == SumFunction([tr \in trajectories |-> Outcome(tr)])

(* A trajectory counts once among those of its prompt, however many rows it *)
(* has: the baseline is the mean outcome of the prompt's trajectories, for  *)
(* rloo of the others, and nothing for the only one.  Every step of the     *)
(* trajectory has the same advantage; for gigpo this is one part of it.     *)
OutcomeAdvantages ==
  Done(OutcomeEstimators) /\ (\A i \in Valid : Unbroken(i)) =>
    \A i \in Valid :
      LET tr == batch[i].traj
          all == TrajectoriesOf(batch[i].uid)
          peers == IF all = {tr} THEN {} ELSE IF estimator = "rloo" THEN all \ {tr} ELSE all
      IN  IF peers = {} THEN adv[i][1] = divisor[i] * Outcome(tr)
          ELSE adv[i][1] * Cardinality(peers)
                 = divisor[i] * (Cardinality(peers) * Outcome(tr) - OutcomeSum(peers))

ReturnFrom(tr, s) ==
  SumFunction([r \in {x \in s..MaxSteps : RowOf(tr, x) # None} |-> Discount[r - s] * Score[<<tr, r>>]])

(* Every step is in exactly one group, with steps of the same prompt only,  *)
(* and steps of a prompt that saw the same observation are never apart.     *)
StepsGrouped ==
  /\ \A i \in Valid : Cardinality({c \in DOMAIN clusters : i \in clusters[c].rows}) = 1
  /\ \A i, k \in Valid :
       /\ batch[i].uid = batch[k].uid /\ batch[i].obs = batch[k].obs => StepGroup(i) = StepGroup(k)
       /\ StepGroup(i) = StepGroup(k) => batch[i].uid = batch[k].uid

(* The other part of GiGPO's advantage compares a step with the steps of    *)
(* its prompt that saw the same, and with no other (StepsGrouped): it is    *)
(* the weighted difference between the step's own discounted return and the *)
(* mean of theirs.  In mean_std_norm the part on outcomes is divided by the *)
(* deviation of the outcomes of the prompt's trajectories, each of which    *)
(* counts once, and this part by that of the returns of the steps it is     *)
(* compared with.                                                           *)
GigpoAdvantages ==
  Done({"gigpo"}) =>
    /\ StepsGrouped
    /\ (\A i \in Valid : Unbroken(i)) =>
         \A i \in Valid :
           LET outcomes == [tr \in TrajectoriesOf(batch[i].uid) |-> Outcome(tr)]
               returns == [k \in StepGroup(i) |-> ReturnFrom(batch[k].traj, batch[k].step)]
               n == Cardinality(StepGroup(i))
           IN  /\ stepDivisor[i] = n
               /\ stepAdv[i][1] = StepAdvantageW * (n * returns[i] - SumFunction(returns))
               /\ stds[i] = IF GigpoMode = "mean_norm" THEN <<>> ELSE <<outcomes, returns>>

================================================================================
