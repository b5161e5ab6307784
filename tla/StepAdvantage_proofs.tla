------------------------- MODULE StepAdvantage_proofs -------------------------
(***************************************************************************)
(* Proofs about StepAdvantage: its recursions over the steps and the       *)
(* tokens of a trajectory, and the baselines of its prompts and groups of  *)
(* steps, for every batch, every score and value, and every discount.      *)
(***************************************************************************)
EXTENDS StepAdvantage, FoldFacts, TLAPS

(* What every batch satisfies, whatever its order. *)
BatchOK ==
  /\ \A i \in Rows : /\ i \in Nat \ {0}
                     /\ batch[i].traj \in Trajectories /\ batch[i].step \in StepIds
                     /\ batch[i].mask \in [Tokens -> {0, 1}]
  /\ \A i, k \in Valid : Key(i) = Key(k) => i = k
  /\ \A i \in Valid : batch[i].step > 1 =>
       \E k \in Valid : Key(k) = <<batch[i].traj, batch[i].step - 1>>

LEMMA InitBatch == ASSUME ConstantsAssumption, Init PROVE BatchOK
<1>1. PICK n \in 1..MaxRows : \E keys \in [1..n -> Trajectories \X StepIds] :
        \E pads \in SUBSET (1..n) :
          /\ Batches(keys, pads)
          /\ \E uid \in [{keys[i][1] : i \in 1..n} -> Prompts] :
             \E kind \in [Range(keys) -> RowKinds] : batch = BatchOf(keys, pads, uid, kind)
  BY DEF Init
<1>a. PICK keys \in [1..n -> Trajectories \X StepIds], pads \in SUBSET (1..n) :
          /\ Batches(keys, pads)
          /\ \E uid \in [{keys[i][1] : i \in 1..n} -> Prompts] :
             \E kind \in [Range(keys) -> RowKinds] : batch = BatchOf(keys, pads, uid, kind)
  BY <1>1
<1>b. PICK uid : \E kind \in [Range(keys) -> RowKinds] : batch = BatchOf(keys, pads, uid, kind)
  BY <1>a
<1>c. PICK kind \in [Range(keys) -> RowKinds] : batch = BatchOf(keys, pads, uid, kind)
  BY <1>b
<1>2. Rows = 1..n
  BY <1>c DEF Rows, BatchOf
<1>3. ASSUME NEW i \in 1..n
      PROVE  keys[i] \in Trajectories \X StepIds /\ keys[i] \in Range(keys)
  BY DEF Range
<1>d. ASSUME NEW i \in 1..n
      PROVE  keys[i] = <<keys[i][1], keys[i][2]>>
  BY <1>3
<1>4. ASSUME NEW i \in 1..n
      PROVE  /\ batch[i].traj = keys[i][1] /\ batch[i].step = keys[i][2]
             /\ batch[i].pad = (i \in pads) /\ batch[i].mask = kind[keys[i]][1]
             /\ Key(i) = keys[i]
  BY <1>c, <1>d DEF Key, BatchOf
<1>5. ASSUME NEW i \in 1..n
      PROVE  kind[keys[i]][1] \in [Tokens -> {0, 1}]
  BY <1>3 DEF ConstantsAssumption
<1>6. Valid = {i \in 1..n : i \notin pads}
  BY <1>2, <1>4 DEF Valid
<1>7. \A i \in Rows : /\ i \in Nat \ {0}
                      /\ batch[i].traj \in Trajectories /\ batch[i].step \in StepIds
                      /\ batch[i].mask \in [Tokens -> {0, 1}]
  <2> SUFFICES ASSUME NEW i \in 1..n
               PROVE  /\ i \in Nat \ {0}
                      /\ batch[i].traj \in Trajectories /\ batch[i].step \in StepIds
                      /\ batch[i].mask \in [Tokens -> {0, 1}]
    BY <1>2
  <2>1. i \in Nat \ {0}
    BY DEF ConstantsAssumption
  <2>2. keys[i][1] \in Trajectories /\ keys[i][2] \in StepIds
    BY <1>3
  <2>3. batch[i].traj \in Trajectories /\ batch[i].step \in StepIds
    BY <2>2, <1>4
  <2>4. batch[i].mask \in [Tokens -> {0, 1}]
    BY <1>4, <1>5
  <2> QED BY <2>1, <2>3, <2>4
<1> DEFINE real == {i \in DOMAIN keys : i \notin pads}
<1>r. /\ \A i, k \in real : keys[i] = keys[k] => i = k
      /\ \A i \in real : keys[i][2] > 1 => \E k \in real : keys[k] = <<keys[i][1], keys[i][2] - 1>>
  BY <1>a DEF Batches
<1>v. Valid = real /\ \A i \in real : i \in 1..n
  BY <1>6
<1> HIDE DEF real
<1>8. \A i, k \in Valid : Key(i) = Key(k) => i = k
  BY <1>4, <1>r, <1>v
<1>9. \A i \in Valid : batch[i].step > 1 =>
        \E k \in Valid : Key(k) = <<batch[i].traj, batch[i].step - 1>>
  BY <1>4, <1>r, <1>v
<1> QED BY <1>7, <1>8, <1>9 DEF BatchOK

LEMMA SameBatch ==
  ASSUME batch' = batch
  PROVE  /\ Valid' = Valid /\ Rows' = Rows
         /\ \A i : Key(i)' = Key(i)
         /\ \A tr, s : RowOf(tr, s)' = RowOf(tr, s)
         /\ \A i : StepScore(i)' = StepScore(i)
         /\ \A i, k : Reward(i, k)' = Reward(i, k)
         /\ BatchOK' <=> BatchOK
<1>1. Valid' = Valid /\ Rows' = Rows /\ \A i : Key(i)' = Key(i)
  BY DEF Valid, Rows, Key
<1>2. \A tr, s : RowOf(tr, s)' = RowOf(tr, s)
  BY <1>1 DEF RowOf
<1>3. \A i, k : Reward(i, k)' = Reward(i, k)
  BY <1>1 DEF Reward
<1>4. \A i : StepScore(i)' = StepScore(i)
  BY <1>3 DEF StepScore
<1>5. BatchOK' <=> BatchOK
  BY <1>1 DEF BatchOK
<1> QED BY <1>1, <1>2, <1>3, <1>4, <1>5

(* RowOf finds the row of a step, and only that. *)
LEMMA RowOfFacts ==
  ASSUME BatchOK
  PROVE  /\ \A tr, s : RowOf(tr, s) # None =>
              RowOf(tr, s) \in Valid /\ Key(RowOf(tr, s)) = <<tr, s>>
         /\ \A i \in Valid : RowOf(batch[i].traj, batch[i].step) = i /\ i # None
         /\ \A tr : \A s \in Nat \ {0} : RowOf(tr, s) = None => RowOf(tr, s + 1) = None
<1>1. \A i \in Valid : i \in Rows /\ i # None /\ Key(i) = <<batch[i].traj, batch[i].step>>
  BY DEF Valid, Key, BatchOK, None
<1>2. ASSUME NEW tr, NEW s, RowOf(tr, s) # None
      PROVE  RowOf(tr, s) \in Valid /\ Key(RowOf(tr, s)) = <<tr, s>>
  BY <1>2 DEF RowOf
<1>3. ASSUME NEW i \in Valid PROVE RowOf(batch[i].traj, batch[i].step) = i
  <2>1. \E k \in Valid : Key(k) = <<batch[i].traj, batch[i].step>>
    BY <1>1
  <2>2. RowOf(batch[i].traj, batch[i].step) \in Valid
        /\ Key(RowOf(batch[i].traj, batch[i].step)) = <<batch[i].traj, batch[i].step>>
    BY <2>1 DEF RowOf
  <2> QED BY <2>2, <1>1 DEF BatchOK
<1>4. ASSUME NEW tr, NEW s \in Nat \ {0}, RowOf(tr, s) = None, RowOf(tr, s + 1) # None
      PROVE  FALSE
  <2>1. PICK i \in Valid : Key(i) = <<tr, s + 1>>
    BY <1>2, <1>4
  <2>2. batch[i].traj = tr /\ batch[i].step = s + 1
    BY <2>1 DEF Key
  <2>3. \E k \in Valid : Key(k) = <<tr, s>>
    BY <2>2 DEF BatchOK
  <2>4. RowOf(tr, s) \in Valid
    BY <2>3 DEF RowOf
  <2> QED BY <2>4, <1>1, <1>4
<1> QED BY <1>1, <1>2, <1>3, <1>4

----------------------------------------------------------------------------
(* gae *)

(* The equation StepAdvantages asks of a row. *)
StepFollows(i) ==
  LET next == RowOf(batch[i].traj, batch[i].step + 1)
      nextValue == IF next = None THEN 0 ELSE Value[Key(next)][1]
      nextAdvantage == IF next = None THEN 0 ELSE perRow[next]
  IN  perRow[i] = StepScore(i) + Gamma * nextValue - Value[Key(i)][1]
                    + Gamma * Lam * nextAdvantage

(* When the loop is at step t, the rows of the steps after it have their    *)
(* advantages and lastgaelam is the one of step t + 1.                      *)
GaeInv ==
  /\ estimator \in AllEstimators
  /\ phase = "start" => lastgae = [tr \in Trajectories |-> 0]
  /\ phase \in {"gae", "broadcast"} => estimator = "gae"
  /\ estimator = "gae" =>
       /\ phase \in {"start", "gae", "broadcast", "done"}
       /\ phase = "gae" => t \in 1..MaxSteps
       /\ phase \in {"broadcast", "done"} => t = 0
       /\ phase # "start" =>
            /\ \A i \in Valid : batch[i].step > t => StepFollows(i)
            /\ \A tr \in Trajectories :
                 lastgae[tr] = IF RowOf(tr, t + 1) = None THEN 0 ELSE perRow[RowOf(tr, t + 1)]
       /\ phase = "done" =>
            \A i \in Valid : \A k \in Tokens : adv[i][k] = perRow[i] * batch[i].mask[k]

LEMMA GaeInit == ASSUME ConstantsAssumption, Init PROVE GaeInv
  BY DEF Init, GaeInv, ConstantsAssumption

LEMMA GaeStepFollows ==
  ASSUME ConstantsAssumption, BatchOK, GaeInv, GaeStep
  PROVE  GaeInv'
<1>1. /\ phase = "gae" /\ estimator = "gae" /\ t \in 1..MaxSteps
      /\ batch' = batch /\ estimator' = estimator /\ t' = t - 1
      /\ phase' = IF t = 1 THEN "broadcast" ELSE "gae"
      /\ lastgae' = [tr \in Trajectories |-> Delta(tr) + Gamma * Lam * lastgae[tr]]
      /\ perRow' = [i \in Rows |-> IF i \in Valid /\ batch[i].step = t
                                   THEN lastgae'[batch[i].traj] ELSE perRow[i]]
  BY DEF GaeStep, GaeInv
<1>2. /\ Valid' = Valid
      /\ \A i : Key(i)' = Key(i)
      /\ \A i : StepScore(i)' = StepScore(i)
      /\ \A tr, s : RowOf(tr, s)' = RowOf(tr, s)
  BY <1>1, SameBatch
<1>3. /\ \A i \in Valid : i \in Rows /\ batch[i].traj \in Trajectories /\ batch[i].step \in 1..MaxSteps
      /\ MaxSteps \in Nat /\ Gamma \in Int /\ Lam \in Int
      /\ \A i \in Valid : Key(i) = <<batch[i].traj, batch[i].step>>
  BY DEF BatchOK, Valid, Key, ConstantsAssumption, StepIds
<1>t. t \in Nat \ {0} /\ t - 1 + 1 = t /\ t <= MaxSteps
  BY <1>1, <1>3
<1>g. /\ \A i \in Valid : batch[i].step > t => StepFollows(i)
      /\ \A tr \in Trajectories :
           lastgae[tr] = IF RowOf(tr, t + 1) = None THEN 0 ELSE perRow[RowOf(tr, t + 1)]
  BY <1>1 DEF GaeInv
<1>4. ASSUME NEW tr \in Trajectories
      PROVE  /\ RowOf(tr, t) = None => lastgae'[tr] = 0
             /\ RowOf(tr, t) # None => perRow'[RowOf(tr, t)] = lastgae'[tr]
  <2>1. RowOf(tr, t) = None => RowOf(tr, t + 1) = None
    BY <1>t, RowOfFacts
  <2>2. CASE RowOf(tr, t) = None
    <3>1. lastgae[tr] = 0
      BY <1>g, <2>1, <2>2
    <3>2. RewardsMap(tr, t) = 0 /\ ValuesMap(tr, t) = 0 /\ ValuesMap(tr, t + 1) = 0
      BY <2>1, <2>2 DEF RewardsMap, ValuesMap
    <3>3. Delta(tr) = 0 + Gamma * 0 - 0
      BY <3>2 DEF Delta
    <3>4. lastgae'[tr] = 0 + Gamma * 0 - 0 + Gamma * Lam * 0
      BY <1>1, <3>1, <3>3
    <3>5. Gamma * 0 = 0 /\ Gamma * Lam * 0 = 0
      BY <1>3
    <3> QED BY <2>2, <3>4, <3>5
  <2>3. CASE RowOf(tr, t) # None
    <3>1. RowOf(tr, t) \in Valid /\ Key(RowOf(tr, t)) = <<tr, t>>
      BY <2>3, RowOfFacts
    <3>2. batch[RowOf(tr, t)].traj = tr /\ batch[RowOf(tr, t)].step = t /\ RowOf(tr, t) \in Rows
      BY <3>1, <1>3
    <3> QED BY <1>1, <2>3, <3>1, <3>2
  <2> QED BY <2>2, <2>3
<1>5. ASSUME NEW i \in Valid, batch[i].step > t
      PROVE  perRow'[i] = perRow[i]
  BY <1>1, <1>3, <1>t, <1>5
<1>6. ASSUME NEW i \in Valid, batch[i].step > t - 1
      PROVE  StepFollows(i)'
  <2>0. PICK tr, next : tr = batch[i].traj /\ next = RowOf(tr, batch[i].step + 1)
    OBVIOUS
  <2>1. next # None =>
          next \in Valid /\ Key(next) = <<tr, batch[i].step + 1>> /\ batch[next].step = batch[i].step + 1
    BY <2>0, <1>3, RowOfFacts
  <2>2. next # None => perRow'[next] = perRow[next]
    <3>1. next # None => batch[next].step > t
      BY <1>3, <1>6, <1>t, <2>1
    <3> QED BY <3>1, <2>1, <1>5
  <2>7. /\ RowOf(batch[i].traj, batch[i].step + 1)' = next
        /\ StepScore(i)' = StepScore(i) /\ Key(i)' = Key(i) /\ Key(next)' = Key(next)
    <3>1. RowOf(batch[i].traj, batch[i].step + 1)' = RowOf(batch[i].traj, batch[i].step + 1)
      BY <1>1, <1>2
    <3> QED BY <3>1, <1>2, <2>0
  <2>3. CASE batch[i].step > t
    <3>1. StepFollows(i) /\ perRow'[i] = perRow[i]
      BY <1>g, <1>5, <2>3
    <3>2. perRow'[i] = StepScore(i) + Gamma * (IF next = None THEN 0 ELSE Value[Key(next)][1])
                         - Value[Key(i)][1] + Gamma * Lam * (IF next = None THEN 0 ELSE perRow'[next])
      BY <3>1, <2>0, <2>2, Zenon DEF StepFollows
    <3> QED BY <3>2, <2>7, Zenon DEF StepFollows
  <2>4. CASE batch[i].step = t
    <3>1. RowOf(tr, t) = i /\ i # None /\ tr \in Trajectories
      BY <2>0, <2>4, <1>3, RowOfFacts
    <3>2. perRow'[i] = Delta(tr) + Gamma * Lam * lastgae[tr]
      BY <1>1, <1>4, <3>1
    <3>3. lastgae[tr] = IF next = None THEN 0 ELSE perRow[next]
      BY <1>g, <2>0, <2>4, <3>1
    <3>4. RewardsMap(tr, t) = StepScore(i) /\ ValuesMap(tr, t) = Value[Key(i)][1]
      <4>1. Key(i) = <<tr, t>> /\ ~(t > MaxSteps)
        BY <1>3, <1>t, <2>0, <2>4
      <4> QED BY <4>1, <3>1 DEF RewardsMap, ValuesMap
    <3>5. ValuesMap(tr, t + 1) = IF next = None THEN 0 ELSE Value[Key(next)][1]
      <4>1. CASE next = None
        BY <4>1, <2>0, <2>4 DEF ValuesMap
      <4>2. CASE next # None
        <5>1. Key(next) = <<tr, t + 1>> /\ batch[next].step = t + 1
          BY <4>2, <2>1, <2>4
        <5>2. ~(t + 1 > MaxSteps)
          BY <4>2, <5>1, <2>1, <1>3, <1>t
        <5> QED BY <4>2, <5>1, <5>2, <2>0, <2>4 DEF ValuesMap
      <4> QED BY <4>1, <4>2
    <3>6. perRow'[i] = StepScore(i) + Gamma * (IF next = None THEN 0 ELSE Value[Key(next)][1])
                         - Value[Key(i)][1] + Gamma * Lam * (IF next = None THEN 0 ELSE perRow[next])
      BY <3>2, <3>3, <3>4, <3>5 DEF Delta
    <3>7. perRow'[i] = StepScore(i) + Gamma * (IF next = None THEN 0 ELSE Value[Key(next)][1])
                         - Value[Key(i)][1] + Gamma * Lam * (IF next = None THEN 0 ELSE perRow'[next])
      BY <3>6, <2>2
    <3> QED BY <3>7, <2>7, Zenon DEF StepFollows
  <2>5. batch[i].step \in Int
    BY <1>3
  <2>6. batch[i].step > t \/ batch[i].step = t
    <3>1. t \in Int
      BY <1>t
    <3>2. batch[i].step > t - 1
      BY <1>6
    <3>3. \A a, b \in Int : a > b - 1 => a > b \/ a = b
      OBVIOUS
    <3> QED BY <3>1, <3>2, <3>3, <2>5, Zenon
  <2> QED BY <2>3, <2>4, <2>6
<1>7. \A i \in Valid' : batch'[i].step > t' => StepFollows(i)'
  BY <1>1, <1>2, <1>6
<1>8. \A tr \in Trajectories :
        lastgae'[tr] = IF RowOf(tr, t) = None THEN 0 ELSE perRow'[RowOf(tr, t)]
  BY <1>4
<1>9. \A tr : RowOf(tr, t + 1)' = RowOf(tr, t)
  BY <1>1, <1>t DEF RowOf, Valid, Key, Rows
<1>10. /\ phase' = "gae" => t' \in 1..MaxSteps
       /\ phase' = "broadcast" => t' = 0
       /\ phase' \in {"gae", "broadcast"} /\ estimator' = "gae"
  BY <1>1, <1>3
<1>11. phase' # "start" =>
         /\ \A i \in Valid' : batch'[i].step > t' => StepFollows(i)'
         /\ \A tr \in Trajectories :
              lastgae'[tr] = IF RowOf(tr, t + 1)' = None THEN 0 ELSE perRow'[RowOf(tr, t + 1)']
  BY <1>7, <1>8, <1>9
<1> QED BY <1>1, <1>10, <1>11 DEF GaeInv

(* A step of another estimator leaves the claim about gae alone. *)
LEMMA OtherEstimators ==
  ASSUME GaeInv, estimator # "gae", estimator' = estimator,
         phase' \notin {"start", "gae", "broadcast"}
  PROVE  GaeInv'
BY DEF GaeInv

LEMMA GaeDispatch ==
  ASSUME ConstantsAssumption, BatchOK, GaeInv, Dispatch
  PROVE  GaeInv'
<1>1. /\ phase = "start" /\ estimator \in AllEstimators /\ phase' = FirstPhase[estimator]
      /\ batch' = batch /\ estimator' = estimator /\ lastgae' = lastgae /\ perRow' = perRow
      /\ t' = IF estimator \in {"gae", "token_gae"} THEN MaxSteps ELSE 1
      /\ lastgae = [tr \in Trajectories |-> 0]
  BY DEF Dispatch, tables, GaeInv
<1>2. CASE estimator # "gae"
  <2>1. phase' \in {"step", "rf", "totals"}
    BY <1>1, <1>2 DEF FirstPhase
  <2> QED BY <1>1, <1>2, <2>1, OtherEstimators
<1>3. CASE estimator = "gae"
  <2>1. phase' = "gae" /\ t' = MaxSteps /\ estimator' = "gae"
    BY <1>1, <1>3 DEF FirstPhase
  <2>2. MaxSteps \in Nat \ {0}
    BY DEF ConstantsAssumption
  <2>3. Valid' = Valid /\ \A tr, s : RowOf(tr, s)' = RowOf(tr, s)
    BY <1>1, SameBatch
  <2>4. \A i \in Valid : batch[i].step \in 1..MaxSteps /\ Key(i) = <<batch[i].traj, batch[i].step>>
    BY DEF BatchOK, Valid, StepIds, Key
  <2>5. ASSUME NEW tr PROVE RowOf(tr, MaxSteps + 1) = None
    <3>1. SUFFICES ASSUME RowOf(tr, MaxSteps + 1) # None PROVE FALSE
      OBVIOUS
    <3>2. PICK i \in Valid : Key(i) = <<tr, MaxSteps + 1>>
      BY <3>1, RowOfFacts
    <3>3. batch[i].step = MaxSteps + 1 /\ batch[i].step \in 1..MaxSteps
      BY <3>2, <2>4
    <3> QED BY <3>3, <2>2
  <2>6. \A i \in Valid' : ~(batch'[i].step > t')
    BY <1>1, <2>1, <2>2, <2>3, <2>4
  <2>7. \A tr : RowOf(tr, t + 1)' = RowOf(tr, MaxSteps + 1)
    BY <1>1, <2>1 DEF RowOf, Valid, Key, Rows
  <2>8. \A tr \in Trajectories :
          lastgae'[tr] = IF RowOf(tr, t + 1)' = None THEN 0 ELSE perRow'[RowOf(tr, t + 1)']
    BY <1>1, <2>5, <2>7
  <2>9. t' \in 1..MaxSteps
    BY <2>1, <2>2
  <2> QED BY <1>1, <2>1, <2>6, <2>8, <2>9 DEF GaeInv
<1> QED BY <1>2, <1>3

LEMMA GaeBroadcast ==
  ASSUME BatchOK, GaeInv, Broadcast
  PROVE  GaeInv'
<1>1. /\ phase = "broadcast" /\ phase' = "done" /\ estimator = "gae" /\ t = 0
      /\ batch' = batch /\ estimator' = estimator /\ lastgae' = lastgae /\ perRow' = perRow
      /\ t' = t
      /\ adv' = [i \in Rows |-> [k \in Tokens |->
                   IF i \in Valid THEN perRow[i] * batch[i].mask[k] ELSE 0]]
  BY DEF Broadcast, loop, tables, GaeInv
<1>2. /\ Valid' = Valid
      /\ \A i : Key(i)' = Key(i)
      /\ \A i : StepScore(i)' = StepScore(i)
      /\ \A tr, s : RowOf(tr, s)' = RowOf(tr, s)
  BY <1>1, SameBatch
<1>3. /\ \A i \in Valid : batch[i].step > t => StepFollows(i)
      /\ \A tr \in Trajectories :
           lastgae[tr] = IF RowOf(tr, t + 1) = None THEN 0 ELSE perRow[RowOf(tr, t + 1)]
  BY <1>1 DEF GaeInv
<1>4. \A i : StepFollows(i)' <=> StepFollows(i)
  BY <1>1, <1>2 DEF StepFollows
<1>5. \A tr : RowOf(tr, t + 1)' = RowOf(tr, t + 1)
  BY <1>1 DEF RowOf, Valid, Key, Rows
<1>6. \A i \in Valid : \A k \in Tokens : adv'[i][k] = perRow'[i] * batch'[i].mask[k]
  BY <1>1 DEF Valid
<1> QED BY <1>1, <1>2, <1>3, <1>4, <1>5, <1>6 DEF GaeInv

LEMMA GaeNext ==
  ASSUME ConstantsAssumption, BatchOK, GaeInv, [Next]_vars
  PROVE  GaeInv'
<1>1. CASE Dispatch
  BY <1>1, GaeDispatch
<1>2. CASE GaeStep
  BY <1>2, GaeStepFollows
<1>3. CASE Broadcast
  BY <1>3, GaeBroadcast
<1>4. CASE \/ EnterStep \/ BackToken \/ LeaveStep \/ RfToken \/ AddRow \/ TotalsDone
           \/ ReturnStep \/ ReturnsDone \/ GroupRow \/ GroupsDone \/ Normalize
  <2>1. /\ phase \in {"step", "token", "rf", "totals", "returns", "groups", "normalize"}
        /\ phase' \notin {"start", "gae", "broadcast"}
        /\ estimator' = estimator
    BY <1>4 DEF EnterStep, BackToken, LeaveStep, RfToken, AddRow, TotalsDone, ReturnStep,
                ReturnsDone, GroupRow, GroupsDone, Normalize
  <2>2. estimator # "gae"
    BY <2>1 DEF GaeInv
  <2> QED BY <2>1, <2>2, OtherEstimators
<1>5. CASE UNCHANGED vars
  <2>1. /\ batch' = batch /\ estimator' = estimator /\ lastgae' = lastgae /\ perRow' = perRow
        /\ t' = t /\ phase' = phase /\ adv' = adv
    BY <1>5 DEF vars, loop, tables
  <2>2. /\ Valid' = Valid
        /\ \A i : Key(i)' = Key(i)
        /\ \A i : StepScore(i)' = StepScore(i)
        /\ \A tr, s : RowOf(tr, s)' = RowOf(tr, s)
    BY <2>1, SameBatch
  <2>3. \A i : StepFollows(i)' <=> StepFollows(i)
    BY <2>1, <2>2 DEF StepFollows
  <2>4. \A tr : RowOf(tr, t + 1)' = RowOf(tr, t + 1)
    BY <2>1 DEF RowOf, Valid, Key, Rows
  <2> QED BY <2>1, <2>2, <2>3, <2>4 DEF GaeInv
<1> QED BY <1>1, <1>2, <1>3, <1>4, <1>5 DEF Next

LEMMA BatchNext == ASSUME BatchOK, [Next]_vars PROVE BatchOK'
<1>1. batch' = batch
  BY DEF Next, vars, Dispatch, GaeStep, Broadcast, EnterStep, BackToken, LeaveStep, RfToken,
         AddRow, TotalsDone, ReturnStep, ReturnsDone, GroupRow, GroupsDone, Normalize
<1> QED BY <1>1, SameBatch

(* With gae, in any order of the rows and with any padding, the advantage   *)
(* of a step is its temporal difference plus the discounted advantage of    *)
(* the trajectory's next step, and every token of the model's in the step   *)
(* has it (compute_gae_advantage_return).                                   *)
THEOREM GaeCorrect == Spec => []StepAdvantages
<1> USE ConstantsAssumption
<1>1. Init => BatchOK /\ GaeInv
  BY InitBatch, GaeInit
<1>2. BatchOK /\ GaeInv /\ [Next]_vars => (BatchOK /\ GaeInv)'
  BY GaeNext, BatchNext
<1>3. BatchOK /\ GaeInv => StepAdvantages
  <2> SUFFICES ASSUME BatchOK, GaeInv, phase = "done", estimator = "gae", NEW i \in Valid
               PROVE  StepFollows(i) /\ \A k \in Tokens : adv[i][k] = perRow[i] * batch[i].mask[k]
    BY DEF StepAdvantages, Done, StepFollows
  <2>1. batch[i].step > t
    BY DEF GaeInv, BatchOK, Valid, StepIds, ConstantsAssumption
  <2> QED BY <2>1 DEF GaeInv
<1> QED BY <1>1, <1>2, <1>3, PTL DEF Spec

----------------------------------------------------------------------------
(* The recursions over tokens *)

(* Every phase belongs to some of the estimators. *)
PhaseInv ==
  /\ estimator \in AllEstimators
  /\ phase \in {"gae", "broadcast"} => estimator = "gae"
  /\ phase \in {"step", "token"} => estimator = "token_gae"
  /\ phase = "rf" => estimator = "reinforce_plus_plus"
  /\ phase \in {"totals", "normalize"} => estimator \in OutcomeEstimators
  /\ phase \in {"returns", "groups"} => estimator = "gigpo"

(* The model's tokens of a trajectory after place k of step s. *)
After(tr, s, k) ==
  {b \in ActionTokens(tr) :
     s < batch[b[1]].step \/ (batch[b[1]].step = s /\ k < b[2])}

(* The place in step t behind which all tokens have been visited.           *)
Place == IF phase = "token" THEN j ELSE RespLen

(* x is the advantage, or the value, of the first token after the place.    *)
AdvantageAfter(tr, s, k, x) ==
  /\ Earliest(After(tr, s, k)) = {} => x = 0
  /\ \A b \in Earliest(After(tr, s, k)) : x = adv[b[1]][b[2]]

ValueAfter(tr, s, k, x) ==
  /\ Earliest(After(tr, s, k)) = {} => x = 0
  /\ \A b \in Earliest(After(tr, s, k)) : x = Value[Key(b[1])][b[2]]

(* The tokens visited have their advantages, lastgaelam is that of the next *)
(* token of the model's, nextvalues the value of that token, and            *)
(* bootstrap_value the value of the first one in the steps after t.         *)
TokenTypes ==
  /\ adv \in [Rows -> [Tokens -> Int]]
  /\ lastgae \in [Trajectories -> Int]
  /\ nextv \in [Trajectories -> Int] /\ boot \in [Trajectories -> Int]
  /\ phase \in {"start", "step", "token", "done"}
  /\ phase = "start" => \A tr \in Trajectories : lastgae[tr] = 0 /\ boot[tr] = 0
  /\ phase \in {"step", "token"} => t \in 1..MaxSteps
  /\ phase = "token" => j \in 0..RespLen
  /\ phase = "done" => t = 0

TokensVisited ==
  \A i \in Valid : \A k \in Tokens :
    t < batch[i].step \/ (batch[i].step = t /\ Place < k) => TokenAdvantage(i, k)

Carried ==
  /\ \A tr \in Trajectories : AdvantageAfter(tr, t, Place, lastgae[tr])
  /\ \A tr \in Trajectories : ValueAfter(tr, t, RespLen, boot[tr])
  /\ phase = "token" => \A tr \in Active : ValueAfter(tr, t, j, nextv[tr])

TokenInv ==
  estimator = "token_gae" =>
    /\ TokenTypes
    /\ phase # "start" => TokensVisited /\ Carried

(* What the running return of a row is worth at token k. *)
Owed(i, k) == IF k < RespLen /\ batch[i].mask[k + 1] = 1 THEN RowReturn(i, k + 1) ELSE 0

RfInv ==
  estimator = "reinforce_plus_plus" =>
    /\ adv \in [Rows -> [Tokens -> Int]] /\ perRow \in [Rows -> Int]
    /\ phase \in {"start", "rf", "done"}
    /\ phase = "start" => \A i \in Rows : perRow[i] = 0
    /\ phase = "rf" => j \in 1..RespLen
    /\ phase = "done" => j = 0
    /\ phase # "start" =>
         \A i \in Valid :
           /\ perRow[i] = Owed(i, j)
           /\ \A k \in Tokens : j < k /\ batch[i].mask[k] = 1 => adv[i][k] = RowReturn(i, k)

LEMMA PhaseNext == ASSUME PhaseInv, [Next]_vars PROVE PhaseInv' /\ estimator' = estimator
<1>1. CASE Dispatch
  BY <1>1 DEF Dispatch, PhaseInv, FirstPhase, AllEstimators, OutcomeEstimators
<1>2. CASE GaeStep \/ Broadcast
  BY <1>2 DEF GaeStep, Broadcast, PhaseInv
<1>3. CASE EnterStep \/ BackToken \/ LeaveStep \/ RfToken
  BY <1>3 DEF EnterStep, BackToken, LeaveStep, RfToken, PhaseInv
<1>4. CASE AddRow \/ TotalsDone \/ ReturnStep \/ ReturnsDone \/ GroupRow \/ GroupsDone \/ Normalize
  BY <1>4 DEF AddRow, TotalsDone, ReturnStep, ReturnsDone, GroupRow, GroupsDone, Normalize,
              PhaseInv, OutcomeEstimators
<1>5. CASE UNCHANGED vars
  BY <1>5 DEF vars, PhaseInv
<1> QED BY <1>1, <1>2, <1>3, <1>4, <1>5 DEF Next

LEMMA PhaseInit == ASSUME ConstantsAssumption, Init PROVE PhaseInv
BY DEF Init, PhaseInv, ConstantsAssumption

LEMMA BatchKept == [Next]_vars => batch' = batch
BY DEF Next, vars, Dispatch, GaeStep, Broadcast, EnterStep, BackToken, LeaveStep, RfToken,
       AddRow, TotalsDone, ReturnStep, ReturnsDone, GroupRow, GroupsDone, Normalize

(* The reward of a row's token is an integer. *)
LEMMA RewardInt ==
  ASSUME BatchOK, NEW i \in Valid
  PROVE  /\ Key(i) \in Trajectories \X StepIds
         /\ batch[i].mask \in [Tokens -> {0, 1}]
         /\ \A k : Reward(i, k) \in Int
<1>1. i \in Rows BY DEF Valid
<1>2. Key(i) \in Trajectories \X StepIds BY <1>1 DEF BatchOK, Key
<1>3. \A k : Reward(i, k) \in Int BY <1>2, ConstantsAssumption DEF Reward
<1> QED BY <1>1, <1>2, <1>3 DEF BatchOK

----------------------------------------------------------------------------
(* reinforce_plus_plus *)

LEMMA DiscountIs ==
  /\ Discount[0] = 1
  /\ \A n \in Nat : Discount[n] \in Int /\ Discount[n + 1] = Gamma * Discount[n]
<1>1. \E f : IsPowers(f, Gamma) BY ConstantsAssumption, PowersExist
<1>2. IsPowers(Discount, Gamma) BY <1>1 DEF Discount, IsPowers
<1> QED BY <1>2, PowersAre, ConstantsAssumption

(* The places from k up to the next break. *)
Run(i, k) == {m \in k..RespLen : \A x \in k..m : batch[i].mask[x] = 1}

(* The return of a token is its reward and the discounted return of the     *)
(* next token, if that is the model's.                                      *)
LEMMA RowReturnStep ==
  ASSUME BatchOK, NEW i \in Valid, NEW k \in Tokens, batch[i].mask[k] = 1
  PROVE  RowReturn(i, k) \in Int /\ RowReturn(i, k) = Reward(i, k) + Gamma * Owed(i, k)
<1>1. RespLen \in Nat /\ k \in Nat /\ k <= RespLen /\ Gamma \in Int
  BY ConstantsAssumption DEF Tokens
<1>2. PICK rew : rew = [l \in k..RespLen |-> Reward(i, l)] OBVIOUS
<1>3. rew \in [k..RespLen -> Int] /\ \A l \in k..RespLen : rew[l] = Reward(i, l)
  BY <1>2, RewardInt
<1> DEFINE f(m) == [l \in k..RespLen |-> IF l < m THEN 0 ELSE Discount[l - m] * rew[l]]
<1>4. ASSUME NEW m \in {k, k + 1}
      PROVE  /\ f(m) \in [k..RespLen -> Int]
             /\ \A l \in k..RespLen : m <= l => f(m)[l] = Discount[l - m] * rew[l]
  <2>1. ASSUME NEW l \in k..RespLen, ~(l < m) PROVE Discount[l - m] * rew[l] \in Int
    <3>1. l - m \in Nat BY <1>1, <2>1
    <3>2. Discount[l - m] \in Int BY <3>1, DiscountIs
    <3>3. PICK a \in Int, b \in Int : a = Discount[l - m] /\ b = rew[l] BY <3>2, <1>3
    <3>4. a * b \in Int OBVIOUS
    <3> QED BY <3>3, <3>4
  <2>2. f(m) \in [k..RespLen -> Int] BY <2>1
  <2>3. \A l \in k..RespLen : m <= l => ~(l < m) BY <1>1
  <2> QED BY <2>2, <2>3
<1>5. IsFiniteSet(k..RespLen) BY <1>1, FS_Interval
<1>6. k \in Run(i, k) /\ Run(i, k) \in SUBSET (k..RespLen)
  <2>1. \A x \in k..k : x = k BY <1>1
  <2> QED BY <2>1, <1>1 DEF Run
<1>7. ASSUME NEW m \in {k, k + 1}, NEW U, U = Run(i, m)
      PROVE  /\ U \in SUBSET (k..RespLen)
             /\ RowReturn(i, m) = SumFunction([l \in U |-> f(m)[l]])
             /\ SumFunction([l \in U |-> f(m)[l]]) \in Int
  <2>1. U \in SUBSET (k..RespLen) /\ \A l \in U : m <= l
    BY <1>1, <1>7 DEF Run
  <2>2. \A l \in U : f(m)[l] = Discount[l - m] * Reward(i, l)
    BY <2>1, <1>3, <1>4
  <2>3. RowReturn(i, m) = SumFunction([l \in U |-> Discount[l - m] * Reward(i, l)])
    BY <1>7 DEF RowReturn, Run
  <2> HIDE DEF f
  <2>4. [l \in U |-> Discount[l - m] * Reward(i, l)] = [l \in U |-> f(m)[l]]
    BY <2>2
  <2>5. [l \in U |-> f(m)[l]] \in [U -> Int] /\ IsFiniteSet(U)
    BY <2>1, <1>4, <1>5, FS_Subset
  <2>6. SumFunction([l \in U |-> f(m)[l]]) \in Int
    <3>1. PICK e : e = [l \in U |-> f(m)[l]] OBVIOUS
    <3>2. SumFunction(e) \in Int BY <3>1, <2>5, SumInt
    <3> QED BY <3>1, <3>2
  <2> QED BY <2>1, <2>3, <2>4, <2>6
<1> DEFINE U == Run(i, k)
           V == U \ {k}
<1>8. /\ RowReturn(i, k) \in Int
      /\ RowReturn(i, k) = Reward(i, k) + SumFunction([l \in V |-> f(k)[l]])
      /\ V \in SUBSET (k..RespLen)
  <2>1. f(k)[k] = Reward(i, k)
    <3>1. f(k)[k] = Discount[k - k] * rew[k] BY <1>1, <1>4
    <3>2. k - k = 0 /\ rew[k] = Reward(i, k) /\ rew[k] \in Int /\ Discount[0] = 1
      <4>1. k - k = 0 /\ k \in k..RespLen BY <1>1
      <4>2. Discount[0] = 1 BY DiscountIs
      <4> QED BY <4>1, <4>2, <1>3
    <3>3. PICK a \in Int : a = rew[k] BY <3>2
    <3>4. 1 * a = a OBVIOUS
    <3> QED BY <3>1, <3>2, <3>3, <3>4
  <2>2. PICK g : g = f(k) OBVIOUS
  <2>3. g \in [k..RespLen -> Int] BY <1>4, <2>2
  <2>4. U \in SUBSET (k..RespLen) /\ k \in U BY <1>6
  <2> HIDE DEF f, U
  <2>5. SumFunction([l \in U |-> g[l]]) = g[k] + SumFunction([l \in U \ {k} |-> g[l]])
    <3>1. PICK S, W : S = k..RespLen /\ W = U OBVIOUS
    <3>2. IsFiniteSet(S) /\ g \in [S -> Int] /\ W \in SUBSET S /\ k \in W
      BY <3>1, <1>5, <2>3, <2>4
    <3>3. PICK h : IsSum(h, g, S) BY <3>2, SumExists
    <3>4. PICK X : X = W \ {k} /\ X \in SUBSET S BY <3>2
    <3>5. SumFunction([l \in W |-> g[l]]) = h[W] BY <3>2, <3>3, SumOnSubset
    <3>6. SumFunction([l \in X |-> g[l]]) = h[X] BY <3>2, <3>3, <3>4, SumOnSubset
    <3>7. h[W] = g[k] + h[W \ {k}] BY <3>2, <3>3 DEF IsSum
    <3> QED BY <3>1, <3>4, <3>5, <3>6, <3>7
  <2>6. /\ RowReturn(i, k) = SumFunction([l \in U |-> f(k)[l]])
        /\ SumFunction([l \in U |-> f(k)[l]]) \in Int
    BY <1>7 DEF U
  <2> QED BY <2>1, <2>2, <2>4, <2>5, <2>6
<1>9. CASE k < RespLen /\ batch[i].mask[k + 1] = 1
  <2>1. V = Run(i, k + 1)
    <3>1. ASSUME NEW m \in V PROVE m \in Run(i, k + 1)
      <4>1. m \in (k + 1)..RespLen BY <1>1 DEF Run
      <4>2. \A x \in (k + 1)..m : x \in k..m BY <1>1, <4>1
      <4> QED BY <4>1, <4>2 DEF Run
    <3>2. ASSUME NEW m \in Run(i, k + 1) PROVE m \in V
      <4>1. m \in (k + 1)..RespLen /\ \A x \in (k + 1)..m : batch[i].mask[x] = 1 BY DEF Run
      <4>2. m \in k..RespLen /\ m # k BY <1>1, <4>1
      <4>3. \A x \in k..m : x = k \/ x \in (k + 1)..m BY <1>1, <4>1
      <4> QED BY <4>1, <4>2, <4>3 DEF Run
    <3> QED BY <3>1, <3>2
  <2>2. \A l \in V : l \in k..RespLen /\ k + 1 <= l
    BY <2>1, <1>1 DEF Run
  <2>3. ASSUME NEW l \in V PROVE f(k)[l] = Gamma * f(k + 1)[l]
    <3>1. l - (k + 1) \in Nat /\ l - k = (l - (k + 1)) + 1 /\ k <= l BY <1>1, <2>2
    <3>2. PICK d \in Int : d = Discount[l - (k + 1)] BY <3>1, DiscountIs
    <3>3. Discount[l - k] = Gamma * d BY <3>1, <3>2, DiscountIs
    <3>4. PICK b \in Int : b = rew[l] BY <1>3, <2>2
    <3>5. f(k)[l] = (Gamma * d) * b /\ f(k + 1)[l] = d * b
      BY <3>1, <3>2, <3>3, <3>4, <2>2, <1>4
    <3>6. (Gamma * d) * b = Gamma * (d * b) BY <1>1
    <3> QED BY <3>5, <3>6
  <2>4. PICK e, g : e = [l \in V |-> f(k)[l]] /\ g = [l \in V |-> f(k + 1)[l]] OBVIOUS
  <2>5. /\ e \in [V -> Int] /\ g \in [V -> Int] /\ IsFiniteSet(V)
        /\ \A l \in V : e[l] = Gamma * g[l]
    <3>1. \A l \in V : f(k)[l] \in Int /\ f(k + 1)[l] \in Int BY <2>2, <1>4
    <3>2. IsFiniteSet(V) BY <1>5, <1>8, FS_Subset
    <3> HIDE DEF f, V
    <3> QED BY <2>3, <2>4, <3>1, <3>2
  <2>6. SumFunction(e) = Gamma * SumFunction(g)
    <3> HIDE DEF f, V
    <3> QED BY <2>5, <1>1, SumScale
  <2>7. RowReturn(i, k + 1) = SumFunction(g) BY <1>7, <2>1, <2>4
  <2>8. Owed(i, k) = RowReturn(i, k + 1) BY <1>9 DEF Owed
  <2> QED BY <2>4, <2>6, <2>7, <2>8, <1>8
<1>10. CASE ~(k < RespLen /\ batch[i].mask[k + 1] = 1)
  <2>1. V = {}
    <3> SUFFICES ASSUME NEW m \in V PROVE FALSE OBVIOUS
    <3>1. m \in (k + 1)..RespLen /\ \A x \in k..m : batch[i].mask[x] = 1 BY <1>1 DEF Run
    <3>2. k + 1 \in k..m /\ k < RespLen BY <1>1, <3>1
    <3> QED BY <3>1, <3>2, <1>10
  <2>2. PICK e : e = [l \in V |-> f(k)[l]] OBVIOUS
  <2>3. e \in [{} -> Int] BY <2>1, <2>2
  <2>4. SumFunction(e) = 0 BY <2>3, SumEmpty
  <2>5. Owed(i, k) = 0 BY <1>10 DEF Owed
  <2>6. Gamma * 0 = 0 BY <1>1
  <2>7. Reward(i, k) \in Int BY RewardInt
  <2> QED BY <2>2, <2>4, <2>5, <2>6, <2>7, <1>8
<1> QED BY <1>8, <1>9, <1>10

LEMMA SameReturns ==
  ASSUME batch' = batch
  PROVE  /\ \A i, k : RowReturn(i, k)' = RowReturn(i, k)
         /\ \A i, k : Owed(i, k)' = Owed(i, k)
<1>1. \A i, k : Reward(i, k)' = Reward(i, k) BY SameBatch
<1>2. \A i, k : RowReturn(i, k)' = RowReturn(i, k) BY <1>1 DEF RowReturn
<1>3. \A i, k : Owed(i, k)' = Owed(i, k) BY <1>2 DEF Owed
<1> QED BY <1>2, <1>3

LEMMA RfInit == ASSUME Init PROVE RfInv
<1>1. /\ phase = "start" /\ perRow = [i \in Rows |-> 0]
      /\ adv = [i \in Rows |-> [k \in Tokens |-> 0]]
  BY DEF Init
<1> QED BY <1>1 DEF RfInv

LEMMA RfTokenStep ==
  ASSUME BatchOK, RfInv, RfToken, PhaseInv
  PROVE  RfInv'
<1>1. /\ estimator = "reinforce_plus_plus" /\ phase = "rf" /\ j \in 1..RespLen
      /\ adv \in [Rows -> [Tokens -> Int]] /\ perRow \in [Rows -> Int]
      /\ \A i \in Valid :
           /\ perRow[i] = Owed(i, j)
           /\ \A k \in Tokens : j < k /\ batch[i].mask[k] = 1 => adv[i][k] = RowReturn(i, k)
  BY DEF RfToken, PhaseInv, RfInv
<1>2. /\ batch' = batch /\ estimator' = estimator
      /\ j' = j - 1 /\ phase' = IF j = 1 THEN "done" ELSE "rf"
      /\ perRow' = [i \in Rows |-> IF i \in Valid THEN RunningAfter(i, j) ELSE perRow[i]]
      /\ adv' = [i \in Rows |->
                   IF i \in Valid
                     THEN [adv[i] EXCEPT ![j] = (Reward(i, j) + Gamma * perRow[i]) * batch[i].mask[j]]
                     ELSE adv[i]]
  BY DEF RfToken
<1>3. RespLen \in Nat /\ Gamma \in Int /\ j \in Tokens /\ j - 1 \in Nat
  BY <1>1, ConstantsAssumption DEF Tokens
<1>4. /\ Valid' = Valid /\ Rows' = Rows /\ Valid \subseteq Rows
      /\ \A i, k : RowReturn(i, k)' = RowReturn(i, k) /\ Owed(i, k)' = Owed(i, k)
  BY <1>2, SameBatch, SameReturns DEF Valid
<1>5. ASSUME NEW i \in Valid
      PROVE  \E c \in Int : /\ RunningAfter(i, j) = c
                            /\ (Reward(i, j) + Gamma * perRow[i]) * batch[i].mask[j] = c
                            /\ batch[i].mask[j] = 1 => c = RowReturn(i, j)
                            /\ batch[i].mask[j] = 0 => c = 0
                            /\ batch[i].mask[j] \in {0, 1}
  <2>1. PICK r \in Int, p \in Int, m \in {0, 1} :
          r = Reward(i, j) /\ p = perRow[i] /\ m = batch[i].mask[j]
    BY <1>1, <1>3, <1>4, RewardInt
  <2>2. (r + Gamma * p) * m \in Int /\ (r + Gamma * p) * 0 = 0 /\ (r + Gamma * p) * 1 = r + Gamma * p
    BY <1>3
  <2>3. RunningAfter(i, j) = (r + Gamma * p) * m BY <2>1 DEF RunningAfter
  <2>4. m = 1 => r + Gamma * p = RowReturn(i, j)
    BY <2>1, <1>1, <1>3, RowReturnStep
  <2> QED BY <2>1, <2>2, <2>3, <2>4
<1>6. adv' \in [Rows -> [Tokens -> Int]] /\ perRow' \in [Rows -> Int]
  <2>1. perRow' \in [Rows -> Int] BY <1>1, <1>2, <1>5
  <2>2. ASSUME NEW i \in Rows PROVE adv'[i] \in [Tokens -> Int]
    <3>1. CASE i \in Valid
      <4>1. PICK c \in Int : (Reward(i, j) + Gamma * perRow[i]) * batch[i].mask[j] = c
        BY <3>1, <1>5
      <4>2. adv'[i] = [adv[i] EXCEPT ![j] = c] BY <3>1, <4>1, <1>2
      <4>3. adv[i] \in [Tokens -> Int] BY <1>1
      <4> QED BY <4>2, <4>3
    <3>2. CASE i \notin Valid BY <3>2, <1>1, <1>2
    <3> QED BY <3>1, <3>2
  <2>3. DOMAIN adv' = Rows /\ adv' = [i \in Rows |-> adv'[i]] BY <1>2
  <2> QED BY <2>1, <2>2, <2>3
<1>7. ASSUME NEW i \in Valid
      PROVE  /\ perRow'[i] = Owed(i, j - 1)
             /\ \A k \in Tokens : j - 1 < k /\ batch[i].mask[k] = 1 => adv'[i][k] = RowReturn(i, k)
  <2>1. PICK c \in Int : /\ RunningAfter(i, j) = c
                         /\ (Reward(i, j) + Gamma * perRow[i]) * batch[i].mask[j] = c
                         /\ batch[i].mask[j] = 1 => c = RowReturn(i, j)
                         /\ batch[i].mask[j] = 0 => c = 0
                         /\ batch[i].mask[j] \in {0, 1}
    BY <1>5
  <2>2. perRow'[i] = c /\ adv'[i] = [adv[i] EXCEPT ![j] = c] /\ adv[i] \in [Tokens -> Int]
    BY <2>1, <1>1, <1>2, <1>4
  <2>3. perRow'[i] = Owed(i, j - 1)
    <3>1. j - 1 + 1 = j /\ j - 1 < RespLen BY <1>1, <1>3
    <3> QED BY <3>1, <2>1, <2>2 DEF Owed
  <2>4. ASSUME NEW k \in Tokens, j - 1 < k, batch[i].mask[k] = 1
        PROVE  adv'[i][k] = RowReturn(i, k)
    <3>1. k = j \/ (j < k /\ k # j) BY <2>4, <1>1 DEF Tokens
    <3>2. CASE k = j BY <3>2, <2>1, <2>2, <2>4
    <3>3. CASE j < k /\ k # j BY <3>3, <2>2, <2>4, <1>1
    <3> QED BY <3>1, <3>2, <3>3
  <2> QED BY <2>3, <2>4
<1>8. /\ phase' \in {"rf", "done"} /\ (phase' = "rf" => j' \in 1..RespLen) /\ (phase' = "done" => j' = 0)
  <2>1. CASE j = 1 BY <2>1, <1>2
  <2>2. CASE j # 1
    <3>1. j - 1 \in 1..RespLen BY <2>2, <1>1, <1>3
    <3> QED BY <2>2, <3>1, <1>2
  <2> QED BY <2>1, <2>2
<1>9. \A i \in Valid' :
        /\ perRow'[i] = Owed(i, j)'
        /\ \A k \in Tokens : j' < k /\ batch'[i].mask[k] = 1 => adv'[i][k] = RowReturn(i, k)'
  <2>1. \A i : Owed(i, j)' = Owed(i, j - 1)
    BY <1>2, <1>4 DEF Owed
  <2> QED BY <2>1, <1>2, <1>4, <1>7
<1> QED BY <1>4, <1>6, <1>8, <1>9 DEF RfInv

LEMMA RfNext ==
  ASSUME BatchOK, PhaseInv, RfInv, [Next]_vars
  PROVE  RfInv'
<1>1. CASE estimator # "reinforce_plus_plus"
  BY <1>1, PhaseNext DEF RfInv
<1>2. CASE RfToken BY <1>2, RfTokenStep
<1>3. CASE Dispatch /\ estimator = "reinforce_plus_plus"
  <2>1. /\ batch' = batch /\ estimator' = estimator /\ phase = "start" /\ phase' = "rf"
        /\ j' = RespLen /\ adv' = adv /\ perRow' = perRow
    BY <1>3 DEF Dispatch, tables, FirstPhase, AllEstimators
  <2>2. RespLen \in Nat \ {0} BY ConstantsAssumption
  <2>3. Valid' = Valid /\ Rows' = Rows /\ Valid \subseteq Rows BY <2>1, SameBatch DEF Valid
  <2>4. \A i : Owed(i, j)' = 0
    <3>1. ~(j' < RespLen) BY <2>1, <2>2
    <3> QED BY <3>1 DEF Owed
  <2>5. \A k \in Tokens : ~(j' < k) BY <2>1, <2>2 DEF Tokens
  <2> QED BY <1>3, <2>1, <2>2, <2>3, <2>4, <2>5 DEF RfInv
<1>4. CASE UNCHANGED vars
  <2>1. batch' = batch /\ estimator' = estimator /\ phase' = phase /\ j' = j /\ adv' = adv /\ perRow' = perRow
    BY <1>4 DEF vars, loop, tables
  <2>2. \A i : Owed(i, j)' = Owed(i, j)
    BY <2>1, SameReturns DEF Owed
  <2> QED BY <2>1, <2>2, SameBatch, SameReturns DEF RfInv
<1>5. CASE /\ estimator = "reinforce_plus_plus"
           /\ \/ GaeStep \/ Broadcast \/ EnterStep \/ BackToken \/ LeaveStep
              \/ AddRow \/ TotalsDone \/ ReturnStep \/ ReturnsDone \/ GroupRow \/ GroupsDone
              \/ Normalize
  BY <1>5 DEF PhaseInv, OutcomeEstimators, GaeStep, Broadcast, EnterStep, BackToken, LeaveStep,
              AddRow, TotalsDone, ReturnStep, ReturnsDone, GroupRow, GroupsDone, Normalize
<1> QED BY <1>1, <1>2, <1>3, <1>4, <1>5 DEF Next

----------------------------------------------------------------------------
(* token_gae *)

LEMMA NextIsAfter ==
  ASSUME NEW i, NEW k
  PROVE  NextAction(<<i, k>>) = Earliest(After(batch[i].traj, batch[i].step, k))
<1>1. \A b : Precedes(<<i, k>>, b) <=>
               batch[i].step < batch[b[1]].step \/ (batch[i].step = batch[b[1]].step /\ k < b[2])
  BY DEF Precedes
<1> QED BY <1>1 DEF NextAction, After

(* A token that is visited and is the model's becomes the first one.        *)
LEMMA FirstVisited ==
  ASSUME BatchOK, NEW i \in Valid, NEW k \in Tokens, batch[i].mask[k] = 1
  PROVE  Earliest(After(batch[i].traj, batch[i].step, k - 1)) = {<<i, k>>}
<1>1. PICK tr, s : tr = batch[i].traj /\ s = batch[i].step OBVIOUS
<1>2. /\ RespLen \in Nat /\ k \in Int /\ s \in Int
      /\ \A x \in Valid : batch[x].step \in Int
      /\ \A x \in Valid : batch[x].traj = tr /\ batch[x].step = s => x = i
  <2>1. \A x \in Valid : x \in Rows /\ batch[x].step \in StepIds BY DEF Valid, BatchOK
  <2>2. \A x \in Valid : batch[x].step \in Int BY <2>1, ConstantsAssumption DEF StepIds
  <2>3. \A x \in Valid : batch[x].traj = tr /\ batch[x].step = s => Key(x) = Key(i)
    BY <1>1 DEF Key
  <2> QED BY <1>1, <2>2, <2>3, ConstantsAssumption DEF BatchOK, Tokens
<1> DEFINE W == After(tr, s, k - 1)
<1>3. <<i, k>> \in W
  <2>1. k - 1 < k BY <1>2
  <2> QED BY <2>1, <1>1 DEF After, ActionTokens
<1>4. ASSUME NEW b \in W
      PROVE  /\ b[1] \in Valid /\ b[2] \in Int /\ b = <<b[1], b[2]>>
             /\ b = <<i, k>> \/ Precedes(<<i, k>>, b)
             /\ ~Precedes(b, <<i, k>>)
  <2>1. b \in Valid \X Tokens /\ batch[b[1]].traj = tr
        /\ (s < batch[b[1]].step \/ (batch[b[1]].step = s /\ k - 1 < b[2]))
    BY DEF After, ActionTokens
  <2>2. PICK x \in Valid, y \in Tokens : b = <<x, y>> BY <2>1
  <2>3. y \in Int /\ batch[x].step \in Int BY <1>2 DEF Tokens
  <2>4. s < batch[x].step \/ (batch[x].step = s /\ k - 1 < y) BY <2>1, <2>2
  <2>5. CASE s < batch[x].step
    <3>1. ~(batch[x].step < s) /\ batch[x].step # s BY <2>3, <2>5, <1>2
    <3> QED BY <2>2, <2>3, <2>5, <3>1, <1>1 DEF Precedes
  <2>6. CASE batch[x].step = s /\ k - 1 < y
    <3>1. x = i BY <2>1, <2>2, <2>6, <1>2
    <3>2. y = k \/ k < y BY <2>3, <2>6, <1>2
    <3>3. ~(y < k) /\ ~(s < s) BY <2>3, <3>2, <1>2
    <3> QED BY <2>2, <2>3, <2>6, <3>1, <3>2, <3>3, <1>1 DEF Precedes
  <2> QED BY <2>4, <2>5, <2>6
<1> HIDE DEF W
<1>5. Earliest(W) = {<<i, k>>}
  BY <1>3, <1>4 DEF Earliest
<1> QED BY <1>1, <1>5 DEF W

LEMMA SameTokens ==
  ASSUME batch' = batch
  PROVE  /\ \A tr, s, k : After(tr, s, k)' = After(tr, s, k)
         /\ \A W : Earliest(W)' = Earliest(W)
         /\ \A a : NextAction(a)' = NextAction(a)
         /\ \A i : Key(i)' = Key(i)
<1>1. \A a, b : Precedes(a, b)' <=> Precedes(a, b) BY DEF Precedes
<1>2. \A tr : ActionTokens(tr)' = ActionTokens(tr) BY SameBatch DEF ActionTokens
<1>3. \A tr, s, k : After(tr, s, k)' = After(tr, s, k) BY <1>2 DEF After
<1>4. \A W : Earliest(W)' = Earliest(W) BY <1>1 DEF Earliest
<1>5. \A a : NextAction(a)' = NextAction(a) BY <1>1, <1>2, <1>4 DEF NextAction
<1> QED BY <1>3, <1>4, <1>5, SameBatch

(* What is carried does not change while the same tokens lie behind.        *)
LEMMA AfterLast ==
  ASSUME BatchOK
  PROVE  /\ \A tr : \A s \in Int : After(tr, s, 0) = After(tr, s - 1, RespLen)
         /\ \A tr : After(tr, MaxSteps, RespLen) = {}
<1>1. /\ RespLen \in Nat /\ MaxSteps \in Nat
      /\ \A x \in Valid : batch[x].step \in Int /\ batch[x].step <= MaxSteps
  <2>1. \A x \in Valid : x \in Rows /\ batch[x].step \in StepIds BY DEF Valid, BatchOK
  <2> QED BY <2>1, ConstantsAssumption DEF StepIds
<1>2. ASSUME NEW tr, NEW b \in ActionTokens(tr)
      PROVE  b[1] \in Valid /\ b[2] \in Int /\ 0 < b[2] /\ ~(RespLen < b[2])
  BY <1>1 DEF ActionTokens, Tokens
<1>3. ASSUME NEW tr, NEW s \in Int PROVE After(tr, s, 0) = After(tr, s - 1, RespLen)
  <2>1. ASSUME NEW b \in ActionTokens(tr)
        PROVE  s < batch[b[1]].step \/ (batch[b[1]].step = s /\ 0 < b[2])
                 <=> s - 1 < batch[b[1]].step \/ (batch[b[1]].step = s - 1 /\ RespLen < b[2])
    <3>1. batch[b[1]].step \in Int BY <1>1, <1>2
    <3>2. s < batch[b[1]].step \/ batch[b[1]].step = s <=> s - 1 < batch[b[1]].step BY <3>1
    <3> QED BY <3>2, <1>2
  <2> QED BY <2>1 DEF After
<1>4. ASSUME NEW tr PROVE After(tr, MaxSteps, RespLen) = {}
  <2> SUFFICES ASSUME NEW b \in After(tr, MaxSteps, RespLen) PROVE FALSE OBVIOUS
  <2>1. b \in ActionTokens(tr) BY DEF After
  <2>2. ~(RespLen < b[2]) /\ ~(MaxSteps < batch[b[1]].step) BY <2>1, <1>1, <1>2
  <2> QED BY <2>2 DEF After
<1> QED BY <1>3, <1>4

LEMMA TokenInit == ASSUME Init PROVE TokenInv
<1>1. /\ phase = "start" /\ adv = [i \in Rows |-> [k \in Tokens |-> 0]]
      /\ lastgae = [tr \in Trajectories |-> 0]
      /\ nextv = [tr \in Trajectories |-> 0] /\ boot = [tr \in Trajectories |-> 0]
  BY DEF Init
<1> QED BY <1>1 DEF TokenInv, TokenTypes

LEMMA TokenDispatch ==
  ASSUME BatchOK, TokenInv, Dispatch, estimator = "token_gae"
  PROVE  TokenInv'
<1>1. /\ batch' = batch /\ estimator' = estimator /\ phase = "start" /\ phase' = "step"
      /\ t' = MaxSteps /\ adv' = adv /\ lastgae' = lastgae /\ boot' = boot /\ nextv' = nextv
  BY DEF Dispatch, FirstPhase, AllEstimators
<1>2. /\ TokenTypes /\ MaxSteps \in Nat \ {0} /\ Rows' = Rows /\ Valid' = Valid
      /\ \A x \in Valid : batch[x].step \in StepIds
  BY <1>1, SameBatch, ConstantsAssumption DEF TokenInv, BatchOK, Valid
<1>3. TokenTypes' BY <1>1, <1>2 DEF TokenTypes
<1>4. Place' = RespLen BY <1>1 DEF Place
<1>5. TokensVisited'
  <2>1. \A i \in Valid : \A k \in Tokens :
          ~(MaxSteps < batch[i].step) /\ ~(RespLen < k)
    BY <1>2, ConstantsAssumption DEF StepIds, Tokens
  <2> QED BY <2>1, <1>1, <1>2, <1>4 DEF TokensVisited
<1>6. Carried'
  <2>1. \A tr : Earliest(After(tr, t, RespLen))' = {}
    <3>1. \A tr : After(tr, t, RespLen)' = After(tr, MaxSteps, RespLen)
      BY <1>1, SameTokens DEF After, ActionTokens, Valid, Rows
    <3>2. \A tr : After(tr, t, RespLen)' = {} BY <3>1, AfterLast
    <3> QED BY <3>2 DEF Earliest
  <2>2. \A tr : Earliest(After(tr, t, Place))' = {} BY <2>1, <1>4 DEF Earliest, After
  <2> QED
    BY <2>1, <2>2, <1>1, <1>2 DEF Carried, AdvantageAfter, ValueAfter, TokenTypes
<1> QED BY <1>3, <1>5, <1>6 DEF TokenInv

(* A trajectory without a token of the model's in step t is passed over.    *)
LEMMA StepPassedOver ==
  ASSUME BatchOK, NEW tr \in Trajectories, t \in 1..MaxSteps, ~(tr \in Active /\ HasAction(tr))
  PROVE  After(tr, t - 1, RespLen) = After(tr, t, RespLen)
<1>1. t \in Int /\ RespLen \in Nat
      /\ \A x \in Valid : batch[x].step \in Int
  <2>1. \A x \in Valid : x \in Rows /\ batch[x].step \in StepIds BY DEF Valid, BatchOK
  <2> QED BY <2>1, ConstantsAssumption DEF StepIds
<1>2. ASSUME NEW b \in ActionTokens(tr)
      PROVE  /\ b[1] \in Valid /\ ~(RespLen < b[2]) /\ batch[b[1]].step # t
  <2>1. b[1] \in Valid /\ b[2] \in Tokens /\ batch[b[1]].traj = tr /\ batch[b[1]].mask[b[2]] = 1
    BY DEF ActionTokens
  <2>2. ~(RespLen < b[2]) BY <2>1, <1>1 DEF Tokens
  <2>3. ASSUME batch[b[1]].step = t PROVE FALSE
    <3>1. RowOf(tr, t) = b[1] /\ b[1] # None BY <2>1, <2>3, RowOfFacts
    <3>2. tr \in Active /\ HasAction(tr) BY <2>1, <3>1 DEF Active, HasAction
    <3> QED BY <3>2
  <2> QED BY <2>1, <2>2, <2>3
<1>3. ASSUME NEW b \in ActionTokens(tr)
      PROVE  t < batch[b[1]].step \/ (batch[b[1]].step = t /\ RespLen < b[2])
               <=> t - 1 < batch[b[1]].step \/ (batch[b[1]].step = t - 1 /\ RespLen < b[2])
  <2>1. batch[b[1]].step \in Int BY <1>1, <1>2
  <2>2. t < batch[b[1]].step \/ batch[b[1]].step = t <=> t - 1 < batch[b[1]].step BY <2>1, <1>1
  <2> QED BY <2>2, <1>2
<1> QED BY <1>3 DEF After

LEMMA TokenEnterStep ==
  ASSUME BatchOK, PhaseInv, TokenInv, EnterStep
  PROVE  TokenInv'
<1>1. /\ estimator = "token_gae" /\ phase = "step" /\ batch' = batch /\ estimator' = estimator
      /\ lastgae' = lastgae /\ boot' = boot /\ adv' = adv
      /\ TokenTypes /\ TokensVisited /\ Carried /\ t \in 1..MaxSteps
  BY DEF EnterStep, PhaseInv, TokenInv, TokenTypes
<1>2. /\ Rows' = Rows /\ Valid' = Valid /\ RespLen \in Nat \ {0} /\ MaxSteps \in Nat \ {0}
      /\ \A x \in Valid : batch[x].step \in Int /\ batch[x].traj \in Trajectories
  <2>1. \A x \in Valid : x \in Rows /\ batch[x].step \in StepIds /\ batch[x].traj \in Trajectories
    BY DEF Valid, BatchOK
  <2> QED BY <2>1, <1>1, SameBatch, ConstantsAssumption DEF StepIds
<1>3. Place = RespLen BY <1>1 DEF Place
<1>4. \A i \in Valid : \A k \in Tokens : TokenAdvantage(i, k)' <=> TokenAdvantage(i, k)
  BY <1>1, SameTokens, SameBatch DEF TokenAdvantage
<1>5. CASE Active = {}
  <2>1. t' = t - 1 /\ phase' = (IF t = 1 THEN "done" ELSE "step") /\ nextv' = nextv
    BY <1>5 DEF EnterStep
  <2>2. Place' = RespLen BY <2>1 DEF Place
  <2>3. TokenTypes'
    <3>1. CASE t = 1 BY <3>1, <2>1, <1>1, <1>2 DEF TokenTypes
    <3>2. CASE t # 1
      <4>1. t - 1 \in 1..MaxSteps BY <3>2, <1>1, <1>2
      <4> QED BY <3>2, <4>1, <2>1, <1>1, <1>2 DEF TokenTypes
    <3> QED BY <3>1, <3>2
  <2>4. TokensVisited'
    <3>1. ASSUME NEW i \in Valid, NEW k \in Tokens, t - 1 < batch[i].step
          PROVE  t < batch[i].step
      <4>1. batch[i].step # t
        <5> SUFFICES ASSUME batch[i].step = t PROVE FALSE OBVIOUS
        <5>1. batch[i].traj \in Active BY <1>2, RowOfFacts DEF Active
        <5> QED BY <5>1, <1>5
      <4> QED BY <4>1, <3>1, <1>1, <1>2
    <3>2. \A k \in Tokens : ~(RespLen < k) BY <1>2 DEF Tokens
    <3> QED BY <3>1, <3>2, <2>1, <2>2, <1>1, <1>2, <1>4 DEF TokensVisited
  <2>5. Carried'
    <3>1. ASSUME NEW tr \in Trajectories
          PROVE  After(tr, t, RespLen)' = After(tr, t, RespLen)
      <4>1. After(tr, t, RespLen)' = After(tr, t - 1, RespLen)
        BY <2>1, <1>1, SameTokens DEF After, ActionTokens, Valid, Rows
      <4> QED BY <4>1, <1>1, <1>5, StepPassedOver
    <3>2. \A W : Earliest(W)' = Earliest(W) BY <1>1, SameTokens
    <3>3. phase' # "token" BY <2>1
    <3>4. \A tr \in Trajectories : Earliest(After(tr, t, RespLen))' = Earliest(After(tr, t, RespLen))
      BY <3>1, <1>1 DEF Earliest, Precedes
    <3>5. \A tr \in Trajectories : AdvantageAfter(tr, t, RespLen, lastgae[tr])'
      BY <3>4, <1>1, <1>3 DEF Carried, AdvantageAfter
    <3>6. \A tr \in Trajectories : AdvantageAfter(tr, t, Place, lastgae[tr])'
      BY <3>5, <2>2 DEF AdvantageAfter, Earliest, After
    <3>7. \A tr \in Trajectories : ValueAfter(tr, t, RespLen, boot[tr])'
      BY <3>4, <1>1, SameTokens DEF Carried, ValueAfter
    <3> QED BY <3>3, <3>6, <3>7 DEF Carried
  <2> QED BY <2>3, <2>4, <2>5 DEF TokenInv
<1>6. CASE Active # {}
  <2>1. /\ t' = t /\ phase' = "token" /\ j' = RespLen
        /\ nextv' = [tr \in Trajectories |-> IF tr \in Active THEN boot[tr] ELSE nextv[tr]]
    BY <1>6 DEF EnterStep
  <2>2. Place' = RespLen BY <2>1 DEF Place
  <2>3. TokenTypes' BY <2>1, <1>1, <1>2 DEF TokenTypes
  <2>4. TokensVisited' BY <2>1, <2>2, <1>1, <1>2, <1>3, <1>4 DEF TokensVisited
  <2>5. Carried'
    <3>1. \A tr : Earliest(After(tr, t, RespLen))' = Earliest(After(tr, t, RespLen))
      BY <2>1, <1>1 DEF Earliest, Precedes, After, ActionTokens, Valid, Rows
    <3>2. \A tr \in Trajectories : AdvantageAfter(tr, t, RespLen, lastgae[tr])'
      BY <3>1, <1>1, <1>3 DEF Carried, AdvantageAfter
    <3>3. \A tr \in Trajectories : AdvantageAfter(tr, t, Place, lastgae[tr])'
      BY <3>2, <2>2 DEF AdvantageAfter, Earliest, After
    <3>4. \A tr \in Trajectories : ValueAfter(tr, t, RespLen, boot[tr])'
      BY <3>1, <1>1, SameTokens DEF Carried, ValueAfter
    <3>5. Active' = Active BY <2>1, <1>1 DEF Active, RowOf, Valid, Key, Rows
    <3>6. \A tr \in Active : tr \in Trajectories /\ nextv'[tr] = boot'[tr]
      BY <2>1, <1>1 DEF Active
    <3>7. \A tr \in Active : ValueAfter(tr, t, RespLen, nextv[tr])'
      BY <3>4, <3>6 DEF ValueAfter
    <3>8. \A tr \in Active' : ValueAfter(tr, t, j, nextv[tr])'
      BY <3>5, <3>7, <2>1 DEF ValueAfter, Earliest, After
    <3> QED BY <3>3, <3>4, <3>8 DEF Carried
  <2> QED BY <2>3, <2>4, <2>5 DEF TokenInv
<1> QED BY <1>5, <1>6

LEMMA TokenLeaveStep ==
  ASSUME BatchOK, PhaseInv, TokenInv, LeaveStep
  PROVE  TokenInv'
<1>1. /\ estimator = "token_gae" /\ phase = "token" /\ j = 0 /\ batch' = batch /\ estimator' = estimator
      /\ lastgae' = lastgae /\ nextv' = nextv /\ adv' = adv /\ t' = t - 1
      /\ phase' = (IF t = 1 THEN "done" ELSE "step")
      /\ boot' = [tr \in Trajectories |->
                    IF tr \in Active /\ HasAction(tr) THEN nextv[tr] ELSE boot[tr]]
      /\ TokenTypes /\ TokensVisited /\ Carried /\ t \in 1..MaxSteps
  BY DEF LeaveStep, PhaseInv, TokenInv, TokenTypes
<1>2. /\ Rows' = Rows /\ Valid' = Valid /\ RespLen \in Nat \ {0} /\ MaxSteps \in Nat \ {0}
      /\ \A x \in Valid : batch[x].step \in Int
  <2>1. \A x \in Valid : x \in Rows /\ batch[x].step \in StepIds BY DEF Valid, BatchOK
  <2> QED BY <2>1, <1>1, SameBatch, ConstantsAssumption DEF StepIds
<1>3. Place = 0 /\ Place' = RespLen BY <1>1 DEF Place
<1>4. \A i \in Valid : \A k \in Tokens : TokenAdvantage(i, k)' <=> TokenAdvantage(i, k)
  BY <1>1, SameTokens, SameBatch DEF TokenAdvantage
<1>5. TokenTypes'
  <2>1. boot' \in [Trajectories -> Int] BY <1>1 DEF TokenTypes
  <2>2. CASE t = 1 BY <2>1, <2>2, <1>1, <1>2 DEF TokenTypes
  <2>3. CASE t # 1
    <3>1. t - 1 \in 1..MaxSteps BY <2>3, <1>1, <1>2
    <3> QED BY <2>1, <2>3, <3>1, <1>1, <1>2 DEF TokenTypes
  <2> QED BY <2>2, <2>3
<1>6. TokensVisited'
  <2>1. ASSUME NEW i \in Valid, NEW k \in Tokens,
               t - 1 < batch[i].step \/ (batch[i].step = t - 1 /\ RespLen < k)
        PROVE  t < batch[i].step \/ (batch[i].step = t /\ 0 < k)
    <3>1. 0 < k /\ ~(RespLen < k) BY <1>2 DEF Tokens
    <3> QED BY <2>1, <3>1, <1>1, <1>2
  <2> QED BY <2>1, <1>1, <1>2, <1>3, <1>4 DEF TokensVisited
<1>7. \A tr : After(tr, t, RespLen)' = After(tr, t - 1, RespLen)
  BY <1>1, SameTokens DEF After, ActionTokens, Valid, Rows
<1>8. \A tr : Earliest(After(tr, t, RespLen))' = Earliest(After(tr, t, 0))
  <2>1. \A tr : After(tr, t, RespLen)' = After(tr, t, 0) BY <1>1, <1>7, AfterLast
  <2> QED BY <2>1, <1>1 DEF Earliest, Precedes
<1>9. Carried'
  <2>1. \A tr \in Trajectories : AdvantageAfter(tr, t, RespLen, lastgae[tr])'
    BY <1>8, <1>1, <1>3 DEF Carried, AdvantageAfter
  <2>2. \A tr \in Trajectories : AdvantageAfter(tr, t, Place, lastgae[tr])'
    BY <2>1, <1>3 DEF AdvantageAfter, Earliest, After
  <2>3. ASSUME NEW tr \in Trajectories PROVE ValueAfter(tr, t, RespLen, boot[tr])'
    <3>1. CASE tr \in Active /\ HasAction(tr)
      <4>1. boot'[tr] = nextv[tr] /\ ValueAfter(tr, t, 0, nextv[tr])
        BY <3>1, <1>1 DEF Carried
      <4> QED BY <4>1, <1>8, <1>1, SameTokens DEF ValueAfter
    <3>2. CASE ~(tr \in Active /\ HasAction(tr))
      <4>1. boot'[tr] = boot[tr] /\ ValueAfter(tr, t, RespLen, boot[tr])
        BY <3>2, <1>1 DEF Carried
      <4>2. After(tr, t, RespLen)' = After(tr, t, RespLen)
        BY <3>2, <1>1, <1>7, StepPassedOver
      <4>3. Earliest(After(tr, t, RespLen))' = Earliest(After(tr, t, RespLen))
        BY <4>2, <1>1 DEF Earliest, Precedes
      <4> QED BY <4>1, <4>3, <1>1, SameTokens DEF ValueAfter
    <3> QED BY <3>1, <3>2
  <2>4. phase' # "token" BY <1>1
  <2> QED BY <2>2, <2>3, <2>4 DEF Carried
<1> QED BY <1>5, <1>6, <1>9 DEF TokenInv

(* What one token adds, for a trajectory that has the step.                 *)
LEMMA TokenBack ==
  ASSUME BatchOK, TokenTypes, Carried, BackToken, phase = "token", j \in Tokens,
         NEW i \in Valid, batch[i].step = t, NEW tr, tr = batch[i].traj
  PROVE  /\ tr \in Active /\ RowOf(tr, t) = i
         /\ lastgae'[tr] \in Int
         /\ adv'[i] = [adv[i] EXCEPT ![j] = lastgae'[tr] * batch[i].mask[j]]
         /\ batch[i].mask[j] = 0 => lastgae'[tr] = lastgae[tr] /\ nextv'[tr] = nextv[tr]
         /\ batch[i].mask[j] = 1 =>
              /\ lastgae'[tr] = Reward(i, j) + Gamma * nextv[tr] - Value[Key(i)][j]
                                  + Gamma * Lam * lastgae[tr]
              /\ nextv'[tr] = Value[Key(i)][j]
<1>1. /\ i \in Rows /\ tr \in Trajectories /\ RowOf(tr, t) = i /\ i # None /\ Key(i) = <<tr, t>>
  BY RowOfFacts DEF Valid, BatchOK, Key
<1>2. tr \in Active BY <1>1 DEF Active
<1>3. Acts(tr) <=> batch[i].mask[j] = 1 BY <1>1, <1>2 DEF Acts
<1>4. /\ lastgae'[tr] = IF Acts(tr)
                          THEN Reward(RowOf(tr, t), j) + Gamma * nextv[tr] - Value[<<tr, t>>][j]
                                 + Gamma * Lam * lastgae[tr]
                          ELSE lastgae[tr]
      /\ nextv'[tr] = IF Acts(tr) THEN Value[<<tr, t>>][j] ELSE nextv[tr]
      /\ adv'[i] = [adv[i] EXCEPT ![j] = lastgae'[tr] * batch[i].mask[j]]
  BY <1>1 DEF BackToken
<1>5. /\ lastgae[tr] \in Int /\ nextv[tr] \in Int /\ Reward(i, j) \in Int
      /\ Value[<<tr, t>>][j] \in Int /\ Gamma \in Int /\ Lam \in Int
  <2>1. <<tr, t>> \in Trajectories \X StepIds BY <1>1, RewardInt
  <2> QED BY <2>1, <1>1, RewardInt, ConstantsAssumption DEF TokenTypes
<1>6. lastgae'[tr] \in Int
  <2>1. CASE Acts(tr)
    <3>1. PICK r \in Int, n \in Int, v \in Int, g \in Int :
            r = Reward(i, j) /\ n = nextv[tr] /\ v = Value[<<tr, t>>][j] /\ g = lastgae[tr]
      BY <1>5
    <3>2. lastgae'[tr] = r + Gamma * n - v + Gamma * Lam * g BY <2>1, <3>1, <1>1, <1>4
    <3> QED BY <3>2, <1>5
  <2>2. CASE ~Acts(tr) BY <2>2, <1>4, <1>5
  <2> QED BY <2>1, <2>2
<1>7. /\ batch[i].mask[j] = 0 => lastgae'[tr] = lastgae[tr] /\ nextv'[tr] = nextv[tr]
      /\ batch[i].mask[j] = 1 =>
           /\ lastgae'[tr] = Reward(i, j) + Gamma * nextv[tr] - Value[Key(i)][j]
                               + Gamma * Lam * lastgae[tr]
           /\ nextv'[tr] = Value[Key(i)][j]
  BY <1>1, <1>3, <1>4
<1> QED BY <1>1, <1>2, <1>4, <1>6, <1>7

LEMMA TokenBackToken ==
  ASSUME BatchOK, PhaseInv, TokenInv, BackToken
  PROVE  TokenInv'
<1>1. /\ estimator = "token_gae" /\ phase = "token" /\ batch' = batch /\ estimator' = estimator
      /\ boot' = boot /\ t' = t /\ j' = j - 1 /\ phase' = phase
      /\ TokenTypes /\ TokensVisited /\ Carried /\ t \in 1..MaxSteps /\ j \in 1..RespLen
  BY ConstantsAssumption DEF BackToken, PhaseInv, TokenInv, TokenTypes
<1>2. /\ Rows' = Rows /\ Valid' = Valid /\ RespLen \in Nat \ {0} /\ j \in Tokens
      /\ \A x \in Valid : x \in Rows /\ batch[x].step \in Int /\ batch[x].traj \in Trajectories
                          /\ batch[x].mask \in [Tokens -> {0, 1}]
  <2>1. \A x \in Valid : /\ x \in Rows /\ batch[x].step \in StepIds /\ batch[x].traj \in Trajectories
                         /\ batch[x].mask \in [Tokens -> {0, 1}]
    BY DEF Valid, BatchOK
  <2> QED BY <2>1, <1>1, SameBatch, ConstantsAssumption DEF StepIds, Tokens
<1>3. Place = j /\ Place' = j - 1 BY <1>1 DEF Place
<1>4. ASSUME NEW i \in Valid, NEW k \in Tokens, t < batch[i].step \/ (batch[i].step = t /\ j < k)
      PROVE  adv'[i][k] = adv[i][k]
  <2>1. CASE batch[i].step = t
    <3>1. j < k BY <1>2, <1>4, <2>1
    <3>2. k # j BY <3>1, <1>1
    <3>3. adv'[i] = [adv[i] EXCEPT ![j] = lastgae'[batch[i].traj] * batch[i].mask[j]]
      BY <2>1, <1>1, <1>2, TokenBack
    <3> QED BY <3>2, <3>3
  <2>2. CASE batch[i].step # t BY <2>2, <1>2 DEF BackToken
  <2> QED BY <2>1, <2>2
<1>5. ASSUME NEW tr, NEW s \in Int, NEW k \in Int, t < s \/ (s = t /\ j <= k),
             NEW b \in Earliest(After(tr, s, k))
      PROVE  adv'[b[1]][b[2]] = adv[b[1]][b[2]]
  <2>1. /\ b[1] \in Valid /\ b[2] \in Tokens
        /\ s < batch[b[1]].step \/ (batch[b[1]].step = s /\ k < b[2])
    BY DEF Earliest, After, ActionTokens
  <2>2. t \in Int /\ j \in Int /\ b[2] \in Int /\ batch[b[1]].step \in Int
    BY <2>1, <1>1, <1>2 DEF Tokens
  <2>3. t < batch[b[1]].step \/ (batch[b[1]].step = t /\ j < b[2])
    BY <2>1, <2>2, <1>5
  <2> QED BY <2>1, <2>3, <1>4
<1>6. \A tr \in Trajectories :
        /\ AdvantageAfter(tr, t, j, lastgae[tr])
        /\ ValueAfter(tr, t, RespLen, boot[tr])
  BY <1>1, <1>3 DEF Carried
<1>7. \A tr \in Active : tr \in Trajectories /\ ValueAfter(tr, t, j, nextv[tr])
  BY <1>1 DEF Carried, Active
<1>8. TokenTypes'
  <2>1. ASSUME NEW tr \in Trajectories PROVE lastgae'[tr] \in Int /\ nextv'[tr] \in Int
    <3>1. CASE RowOf(tr, t) # None
      <4>1. PICK i \in Valid : i = RowOf(tr, t) /\ batch[i].step = t /\ batch[i].traj = tr
        BY <3>1, RowOfFacts DEF Key
      <4>2. /\ lastgae'[tr] \in Int
            /\ batch[i].mask[j] = 0 => nextv'[tr] = nextv[tr]
            /\ batch[i].mask[j] = 1 => nextv'[tr] = Value[Key(i)][j]
        BY <4>1, <1>1, <1>2, TokenBack
      <4>3. Value[Key(i)][j] \in Int /\ nextv[tr] \in Int /\ batch[i].mask[j] \in {0, 1}
        BY <1>1, <1>2, RewardInt, ConstantsAssumption DEF TokenTypes
      <4> QED BY <4>2, <4>3
    <3>2. CASE RowOf(tr, t) = None
      <4>1. ~Acts(tr) BY <3>2 DEF Acts, Active
      <4> QED BY <4>1, <1>1 DEF BackToken, TokenTypes
    <3> QED BY <3>1, <3>2
  <2>2. ASSUME NEW i \in Rows PROVE adv'[i] \in [Tokens -> Int]
    <3>1. adv[i] \in [Tokens -> Int] BY <1>1 DEF TokenTypes
    <3>2. CASE i \in Valid /\ batch[i].step = t
      <4>1. /\ lastgae'[batch[i].traj] \in Int
            /\ adv'[i] = [adv[i] EXCEPT ![j] = lastgae'[batch[i].traj] * batch[i].mask[j]]
        BY <3>2, <1>1, <1>2, TokenBack
      <4>2. PICK g \in Int, m \in Int : g = lastgae'[batch[i].traj] /\ m = batch[i].mask[j]
        BY <3>2, <4>1, <1>2
      <4>3. g * m \in Int OBVIOUS
      <4> QED BY <3>1, <4>1, <4>2, <4>3
    <3>3. CASE ~(i \in Valid /\ batch[i].step = t)
      BY <3>1, <3>3 DEF BackToken
    <3> QED BY <3>2, <3>3
  <2>3. /\ lastgae' = [tr \in Trajectories |-> lastgae'[tr]]
        /\ nextv' = [tr \in Trajectories |-> nextv'[tr]]
        /\ adv' = [i \in Rows |-> adv'[i]]
    BY DEF BackToken
  <2>4. /\ lastgae' \in [Trajectories -> Int] /\ nextv' \in [Trajectories -> Int]
        /\ adv' \in [Rows -> [Tokens -> Int]]
    BY <2>1, <2>2, <2>3
  <2>5. j - 1 \in 0..RespLen BY <1>1, <1>2
  <2> QED BY <2>4, <2>5, <1>1, <1>2 DEF TokenTypes
<1>9. ASSUME NEW tr \in Trajectories
      PROVE  \/ /\ lastgae'[tr] = lastgae[tr] /\ nextv'[tr] = nextv[tr]
                /\ After(tr, t, j - 1) = After(tr, t, j)
             \/ \E i \in Valid :
                  /\ Earliest(After(tr, t, j - 1)) = {<<i, j>>}
                  /\ lastgae'[tr] = adv'[i][j] /\ nextv'[tr] = Value[Key(i)][j]
  <2>1. CASE Acts(tr)
    <3>1. PICK i \in Valid : i = RowOf(tr, t) /\ batch[i].step = t /\ batch[i].traj = tr
      BY <2>1, RowOfFacts DEF Acts, Active, Key
    <3>2. batch[i].mask[j] = 1 BY <2>1, <3>1 DEF Acts
    <3>3. /\ lastgae'[tr] \in Int /\ nextv'[tr] = Value[Key(i)][j]
          /\ adv'[i] = [adv[i] EXCEPT ![j] = lastgae'[tr] * batch[i].mask[j]]
      BY <3>1, <3>2, <1>1, <1>2, TokenBack
    <3>4. adv[i] \in [Tokens -> Int] BY <1>1, <1>2 DEF TokenTypes
    <3>5. adv'[i][j] = lastgae'[tr]
      <4>1. PICK g \in Int : g = lastgae'[tr] BY <3>3
      <4>2. g * 1 = g OBVIOUS
      <4> QED BY <3>2, <3>3, <3>4, <4>1, <4>2, <1>2
    <3>6. Earliest(After(tr, t, j - 1)) = {<<i, j>>}
      BY <3>1, <3>2, <1>2, FirstVisited
    <3> QED BY <3>3, <3>5, <3>6
  <2>2. CASE ~Acts(tr)
    <3>1. lastgae'[tr] = lastgae[tr] /\ nextv'[tr] = nextv[tr] BY <2>2 DEF BackToken
    <3>2. ASSUME NEW b \in ActionTokens(tr)
          PROVE  t < batch[b[1]].step \/ (batch[b[1]].step = t /\ j - 1 < b[2])
                   <=> t < batch[b[1]].step \/ (batch[b[1]].step = t /\ j < b[2])
      <4>1. b[1] \in Valid /\ b[2] \in Tokens /\ batch[b[1]].traj = tr /\ batch[b[1]].mask[b[2]] = 1
        BY DEF ActionTokens
      <4>2. ~(batch[b[1]].step = t /\ b[2] = j)
        <5> SUFFICES ASSUME batch[b[1]].step = t, b[2] = j PROVE FALSE OBVIOUS
        <5>1. RowOf(tr, t) = b[1] /\ b[1] # None BY <4>1, RowOfFacts
        <5> QED BY <4>1, <5>1, <2>2 DEF Acts, Active
      <4>3. b[2] \in Int /\ j \in Int BY <4>1, <1>1 DEF Tokens
      <4> QED BY <4>2, <4>3
    <3> QED BY <3>1, <3>2 DEF After
  <2> QED BY <2>1, <2>2
<1>10. /\ \A tr : Earliest(After(tr, t, j))' = Earliest(After(tr, t, j - 1))
       /\ \A tr : Earliest(After(tr, t, RespLen))' = Earliest(After(tr, t, RespLen))
  <2>1. /\ \A tr : After(tr, t, j)' = After(tr, t, j - 1)
        /\ \A tr : After(tr, t, RespLen)' = After(tr, t, RespLen)
    BY <1>1 DEF After, ActionTokens, Valid, Rows
  <2> QED BY <2>1, <1>1 DEF Earliest, Precedes
<1>11. ASSUME NEW tr \in Trajectories
       PROVE  /\ AdvantageAfter(tr, t, j, lastgae[tr])'
              /\ tr \in Active => ValueAfter(tr, t, j, nextv[tr])'
              /\ ValueAfter(tr, t, RespLen, boot[tr])'
  <2>1. ValueAfter(tr, t, RespLen, boot[tr])'
    BY <1>1, <1>6, <1>10, SameTokens DEF ValueAfter
  <2>2. CASE /\ lastgae'[tr] = lastgae[tr] /\ nextv'[tr] = nextv[tr]
             /\ After(tr, t, j - 1) = After(tr, t, j)
    <3>1. Earliest(After(tr, t, j))' = Earliest(After(tr, t, j)) BY <2>2, <1>10
    <3>2. \A b \in Earliest(After(tr, t, j)) : adv'[b[1]][b[2]] = adv[b[1]][b[2]]
      <4>1. t \in Int /\ j \in Int /\ j <= j BY <1>1
      <4> QED BY <4>1, <1>5
    <3>3. AdvantageAfter(tr, t, j, lastgae[tr])'
      BY <3>1, <3>2, <2>2, <1>6 DEF AdvantageAfter
    <3>4. tr \in Active => ValueAfter(tr, t, j, nextv[tr])'
      BY <3>1, <2>2, <1>1, <1>7, SameTokens DEF ValueAfter
    <3> QED BY <2>1, <3>3, <3>4
  <2>3. CASE \E i \in Valid :
               /\ Earliest(After(tr, t, j - 1)) = {<<i, j>>}
               /\ lastgae'[tr] = adv'[i][j] /\ nextv'[tr] = Value[Key(i)][j]
    <3>1. PICK i \in Valid :
               /\ Earliest(After(tr, t, j - 1)) = {<<i, j>>}
               /\ lastgae'[tr] = adv'[i][j] /\ nextv'[tr] = Value[Key(i)][j]
      BY <2>3
    <3>2. Earliest(After(tr, t, j))' = {<<i, j>>} BY <3>1, <1>10
    <3>a. PICK k : k = j OBVIOUS
    <3>d. PICK first : first = <<i, k>> OBVIOUS
    <3>b. first = <<i, k>> /\ first[1] = i /\ first[2] = k BY <3>d
    <3>c. Earliest(After(tr, t, j))' = {first} BY <3>a, <3>b, <3>2
    <3>3. AdvantageAfter(tr, t, j, lastgae[tr])'
      BY <3>1, <3>a, <3>b, <3>c DEF AdvantageAfter
    <3>4. ValueAfter(tr, t, j, nextv[tr])'
      BY <3>1, <3>a, <3>b, <3>c, <1>1, SameTokens DEF ValueAfter
    <3> QED BY <2>1, <3>3, <3>4
  <2> QED BY <1>9, <2>2, <2>3
<1>12. Carried'
  <2>1. Active' = Active BY <1>1 DEF Active, RowOf, Valid, Key, Rows
  <2>2. \A tr \in Trajectories : AdvantageAfter(tr, t, Place, lastgae[tr])'
    <3>1. Place' = j' BY <1>1, <1>3
    <3>2. \A tr : Earliest(After(tr, t, Place))' = Earliest(After(tr, t, j))'
      BY <3>1 DEF Earliest, After
    <3> QED BY <3>2, <1>11 DEF AdvantageAfter
  <2>3. \A tr \in Active : tr \in Trajectories BY DEF Active
  <2> QED BY <2>1, <2>2, <2>3, <1>11 DEF Carried
<1>13. ASSUME NEW i \in Valid, NEW k \in Tokens,
              t < batch[i].step \/ (batch[i].step = t /\ j < k)
       PROVE  TokenAdvantage(i, k)'
  <2>1. TokenAdvantage(i, k) BY <1>1, <1>3, <1>13 DEF TokensVisited
  <2>2. adv'[i][k] = adv[i][k] BY <1>4, <1>13
  <2>3. ASSUME NEW b \in NextAction(<<i, k>>)
        PROVE  adv'[b[1]][b[2]] = adv[b[1]][b[2]]
    <3>1. b \in Earliest(After(batch[i].traj, batch[i].step, k)) BY <2>3, NextIsAfter
    <3>2. k \in Int /\ j \in Int /\ batch[i].step \in Int BY <1>1, <1>2 DEF Tokens
    <3>3. t < batch[i].step \/ (batch[i].step = t /\ j <= k) BY <3>2, <1>13
    <3> QED BY <3>1, <3>2, <3>3, <1>5
  <2>4. NextAction(<<i, k>>)' = NextAction(<<i, k>>) BY <1>1, SameTokens
  <2>5. /\ batch'[i].mask[k] = batch[i].mask[k]
        /\ Reward(i, k)' = Reward(i, k) /\ Key(i)' = Key(i) /\ \A b : Key(b[1])' = Key(b[1])
    BY <1>1, SameBatch
  <2> QED BY <2>1, <2>2, <2>3, <2>4, <2>5 DEF TokenAdvantage
<1>14. ASSUME NEW i \in Valid, NEW k \in Tokens, k = j, batch[i].step = t PROVE TokenAdvantage(i, k)'
  <2>1. PICK tr \in Trajectories : tr = batch[i].traj BY <1>2
  <2>2. /\ tr \in Active
        /\ lastgae'[tr] \in Int
        /\ adv'[i] = [adv[i] EXCEPT ![k] = lastgae'[tr] * batch[i].mask[k]]
        /\ batch[i].mask[k] = 1 =>
             lastgae'[tr] = Reward(i, k) + Gamma * nextv[tr] - Value[Key(i)][k]
                              + Gamma * Lam * lastgae[tr]
    BY <2>1, <1>1, <1>2, <1>14, TokenBack
  <2>3. PICK g \in Int : g = lastgae'[tr] BY <2>2
  <2>4. adv'[i][k] = g * batch[i].mask[k]
    <3>1. adv[i] \in [Tokens -> Int] BY <1>1, <1>2 DEF TokenTypes
    <3> QED BY <3>1, <2>2, <2>3, <1>2
  <2>5. /\ batch'[i].mask[k] = batch[i].mask[k] /\ batch[i].mask[k] \in {0, 1}
        /\ Reward(i, k)' = Reward(i, k)
        /\ Key(i)' = Key(i) /\ \A b : Key(b[1])' = Key(b[1])
    BY <1>1, <1>2, SameBatch
  <2>6. CASE batch[i].mask[k] = 0
    <3>1. g * 0 = 0 OBVIOUS
    <3> QED BY <3>1, <2>4, <2>5, <2>6 DEF TokenAdvantage
  <2>7. CASE batch[i].mask[k] = 1
    <3>1. g * 1 = g OBVIOUS
    <3>2. adv'[i][k] = Reward(i, k) + Gamma * nextv[tr] - Value[Key(i)][k] + Gamma * Lam * lastgae[tr]
      BY <3>1, <2>2, <2>3, <2>4, <2>7
    <3>3. NextAction(<<i, k>>)' = Earliest(After(tr, t, k))
      BY <2>1, <1>1, <1>14, SameTokens, NextIsAfter
    <3>4. AdvantageAfter(tr, t, k, lastgae[tr]) /\ ValueAfter(tr, t, k, nextv[tr])
      BY <2>2, <1>6, <1>7, <1>14
    <3>5. ASSUME Earliest(After(tr, t, k)) = {}
          PROVE  adv'[i][k] = Reward(i, k) - Value[Key(i)][k]
      <4>1. lastgae[tr] = 0 /\ nextv[tr] = 0 BY <3>4, <3>5 DEF AdvantageAfter, ValueAfter
      <4>2. PICK r \in Int, v \in Int : r = Reward(i, k) /\ v = Value[Key(i)][k]
        BY <1>2, RewardInt, ConstantsAssumption
      <4>3. r + Gamma * 0 - v + Gamma * Lam * 0 = r - v BY ConstantsAssumption
      <4> QED BY <3>2, <4>1, <4>2, <4>3
    <3>6. ASSUME NEW b \in Earliest(After(tr, t, k))
          PROVE  adv'[i][k] = Reward(i, k) + Gamma * Value[Key(b[1])][b[2]] - Value[Key(i)][k]
                                + Gamma * Lam * adv'[b[1]][b[2]]
      <4>1. nextv[tr] = Value[Key(b[1])][b[2]] /\ lastgae[tr] = adv[b[1]][b[2]]
        BY <3>4 DEF AdvantageAfter, ValueAfter
      <4>2. adv'[b[1]][b[2]] = adv[b[1]][b[2]]
        <5>1. t \in Int /\ k \in Int /\ j <= k BY <1>1, <1>14
        <5> QED BY <5>1, <1>5
      <4> QED BY <4>1, <4>2, <3>2
    <3>7. \A b \in Earliest(After(tr, t, k)) : Key(b[1])' = Key(b[1]) BY <2>5
    <3> QED BY <3>3, <3>5, <3>6, <2>5, <2>7 DEF TokenAdvantage
  <2> QED BY <2>5, <2>6, <2>7
<1>15. TokensVisited'
  <2>1. ASSUME NEW i \in Valid, NEW k \in Tokens,
               t < batch[i].step \/ (batch[i].step = t /\ j - 1 < k)
        PROVE  TokenAdvantage(i, k)'
    <3>1. k \in Int /\ j \in Int BY <1>1 DEF Tokens
    <3>2. \/ t < batch[i].step \/ (batch[i].step = t /\ j < k)
          \/ batch[i].step = t /\ k = j
      BY <2>1, <3>1
    <3>3. CASE batch[i].step = t /\ k = j
      BY <3>3, <1>14
    <3> QED BY <3>2, <3>3, <1>13
  <2> QED BY <2>1, <1>1, <1>2, <1>3 DEF TokensVisited
<1> QED BY <1>1, <1>8, <1>12, <1>15 DEF TokenInv

LEMMA TokenNext ==
  ASSUME BatchOK, PhaseInv, TokenInv, [Next]_vars
  PROVE  TokenInv'
<1>1. CASE estimator # "token_gae"
  BY <1>1, PhaseNext DEF TokenInv
<1>2. CASE EnterStep BY <1>2, TokenEnterStep
<1>3. CASE BackToken BY <1>3, TokenBackToken
<1>4. CASE LeaveStep BY <1>4, TokenLeaveStep
<1>5. CASE Dispatch /\ estimator = "token_gae" BY <1>5, TokenDispatch
<1>6. CASE UNCHANGED vars
  <2>1. /\ batch' = batch /\ estimator' = estimator /\ phase' = phase /\ t' = t /\ j' = j
        /\ adv' = adv /\ lastgae' = lastgae /\ nextv' = nextv /\ boot' = boot
    BY <1>6 DEF vars, loop
  <2>2. TokenTypes' <=> TokenTypes BY <2>1, SameBatch DEF TokenTypes
  <2>3. Place' = Place BY <2>1 DEF Place
  <2>4. \A i, k : TokenAdvantage(i, k)' <=> TokenAdvantage(i, k)
    BY <2>1, SameTokens, SameBatch DEF TokenAdvantage
  <2>5. TokensVisited' <=> TokensVisited
    BY <2>1, <2>3, <2>4, SameBatch DEF TokensVisited
  <2>6. /\ \A tr, x : AdvantageAfter(tr, t, Place, x)' <=> AdvantageAfter(tr, t, Place, x)
        /\ \A tr, x : ValueAfter(tr, t, RespLen, x)' <=> ValueAfter(tr, t, RespLen, x)
        /\ \A tr, x : ValueAfter(tr, t, j, x)' <=> ValueAfter(tr, t, j, x)
    BY <2>1, <2>3 DEF AdvantageAfter, ValueAfter, Earliest, After, Precedes, ActionTokens, Valid, Rows, Key
  <2>7. Active' = Active BY <2>1 DEF Active, RowOf, Valid, Key, Rows
  <2>8. Carried' <=> Carried BY <2>1, <2>6, <2>7 DEF Carried
  <2> QED BY <2>1, <2>2, <2>5, <2>8 DEF TokenInv
<1>7. CASE /\ estimator = "token_gae"
           /\ \/ GaeStep \/ Broadcast \/ RfToken
              \/ AddRow \/ TotalsDone \/ ReturnStep \/ ReturnsDone \/ GroupRow \/ GroupsDone
              \/ Normalize
  BY <1>7 DEF PhaseInv, OutcomeEstimators, GaeStep, Broadcast, RfToken,
              AddRow, TotalsDone, ReturnStep, ReturnsDone, GroupRow, GroupsDone, Normalize
<1> QED BY <1>1, <1>2, <1>3, <1>4, <1>5, <1>6, <1>7 DEF Next

(* The advantages of token_gae are those of generalized advantage           *)
(* estimation on the sequence of the model's own tokens of a trajectory,    *)
(* those of reinforce_plus_plus the discounted later rewards of the row,    *)
(* wherever the tokens of tools lie and in whatever order the rows are.     *)
THEOREM TokensCorrect == Spec => []TokenAdvantages
<1> USE ConstantsAssumption
<1>1. Init => BatchOK /\ PhaseInv /\ TokenInv /\ RfInv
  BY InitBatch, PhaseInit, TokenInit, RfInit
<1>2. BatchOK /\ PhaseInv /\ TokenInv /\ RfInv /\ [Next]_vars
        => (BatchOK /\ PhaseInv /\ TokenInv /\ RfInv)'
  BY BatchNext, PhaseNext, TokenNext, RfNext
<1>3. BatchOK /\ TokenInv /\ RfInv => TokenAdvantages
  <2> SUFFICES ASSUME BatchOK, TokenInv, RfInv, NEW i \in Valid, NEW k \in Tokens
               PROVE  /\ Done({"token_gae"}) => TokenAdvantage(i, k)
                      /\ Done({"reinforce_plus_plus"}) /\ batch[i].mask[k] = 1
                           => adv[i][k] = RowReturn(i, k)
    BY DEF TokenAdvantages
  <2>1. 0 < batch[i].step /\ 0 < k
    <3>1. i \in Rows /\ batch[i].step \in StepIds BY DEF Valid, BatchOK
    <3> QED BY <3>1 DEF StepIds, Tokens
  <2>2. Done({"token_gae"}) => TokenAdvantage(i, k)
    BY <2>1 DEF Done, TokenInv, TokenTypes, TokensVisited
  <2>3. Done({"reinforce_plus_plus"}) /\ batch[i].mask[k] = 1 => adv[i][k] = RowReturn(i, k)
    BY <2>1 DEF Done, RfInv
  <2> QED BY <2>2, <2>3
<1> QED BY <1>1, <1>2, <1>3, PTL DEF Spec

----------------------------------------------------------------------------
(* The estimators on outcomes *)

(* A trajectory belongs to one prompt, and the rows are those of a sequence. *)
BatchShape ==
  /\ Len(batch) \in Nat /\ Rows = 1..Len(batch)
  /\ \A i, k \in Rows : batch[i].traj = batch[k].traj => batch[i].uid = batch[k].uid

LEMMA InitShape == ASSUME ConstantsAssumption, Init PROVE BatchShape
<1>1. PICK n \in 1..MaxRows : \E keys \in [1..n -> Trajectories \X StepIds] :
        \E pads \in SUBSET (1..n) :
          \E uid \in [{keys[i][1] : i \in 1..n} -> Prompts] :
             \E kind \in [Range(keys) -> RowKinds] : batch = BatchOf(keys, pads, uid, kind)
  BY DEF Init
<1>2. PICK keys \in [1..n -> Trajectories \X StepIds], pads \in SUBSET (1..n) :
          \E uid \in [{keys[i][1] : i \in 1..n} -> Prompts] :
             \E kind \in [Range(keys) -> RowKinds] : batch = BatchOf(keys, pads, uid, kind)
  BY <1>1
<1>3. PICK uid : \E kind \in [Range(keys) -> RowKinds] : batch = BatchOf(keys, pads, uid, kind)
  BY <1>2
<1>4. PICK kind \in [Range(keys) -> RowKinds] : batch = BatchOf(keys, pads, uid, kind)
  BY <1>3
<1>5. n \in Nat /\ DOMAIN batch = 1..n
  BY <1>4, ConstantsAssumption DEF BatchOf
<1>6. PICK S : S = {batch[i] : i \in 1..n} OBVIOUS
<1>7. batch \in [1..n -> S]
  <2>1. batch = [i \in 1..n |-> batch[i]] BY <1>4 DEF BatchOf
  <2> QED BY <2>1, <1>6
<1>8. batch \in Seq(S) BY <1>5, <1>7, SeqDef
<1>9. Len(batch) \in Nat /\ Rows = 1..Len(batch)
  BY <1>8, LenProperties DEF Rows
<1>10. \A i \in Rows : batch[i].traj = keys[i][1] /\ batch[i].uid = uid[keys[i][1]]
  BY <1>4, <1>5 DEF BatchOf, Rows
<1>11. \A i, k \in Rows : batch[i].traj = batch[k].traj => batch[i].uid = batch[k].uid
  BY <1>10, Zenon
<1> QED BY <1>9, <1>11 DEF BatchShape

LEMMA ValidFinite ==
  ASSUME BatchShape
  PROVE  IsFiniteSet(Rows) /\ IsFiniteSet(Valid) /\ Valid \subseteq Rows
<1>1. IsFiniteSet(Rows) BY FS_Interval DEF BatchShape
<1>2. Valid \in SUBSET Rows BY DEF Valid
<1> QED BY <1>1, <1>2, FS_Subset

LEMMA StepScoreInt ==
  ASSUME BatchOK, NEW i \in Valid
  PROVE  StepScore(i) \in Int
<1>1. PICK f : f = [k \in Tokens |-> Reward(i, k) * batch[i].mask[k]] OBVIOUS
<1>2. f \in [Tokens -> Int]
  <2>1. ASSUME NEW k \in Tokens PROVE Reward(i, k) * batch[i].mask[k] \in Int
    <3>1. PICK a \in Int, b \in Int : a = Reward(i, k) /\ b = batch[i].mask[k] BY RewardInt
    <3>2. a * b \in Int OBVIOUS
    <3> QED BY <3>1, <3>2
  <2> QED BY <1>1, <2>1
<1>3. IsFiniteSet(Tokens) BY ConstantsAssumption, FS_Interval DEF Tokens
<1>4. SumFunction(f) \in Int BY <1>2, <1>3, SumInt
<1> QED BY <1>1, <1>4 DEF StepScore

(* The reward of an unbroken response is on its last token. *)
LEMMA UnbrokenScore ==
  ASSUME BatchOK, NEW i \in Valid, Unbroken(i)
  PROVE  StepScore(i) = Score[Key(i)] /\ batch[i].mask[1] = 1
<1>1. PICK n \in Tokens : batch[i].mask = [k \in Tokens |-> IF k <= n THEN 1 ELSE 0]
  BY DEF Unbroken
<1>2. RespLen \in Nat /\ RespLen # 0 /\ n \in Nat /\ n # 0 /\ n <= RespLen /\ 1 \in Tokens /\ 1 <= n
  BY ConstantsAssumption DEF Tokens
<1>3. IsFiniteSet(Tokens) BY <1>2, FS_Interval DEF Tokens
<1>4. SumFunction(batch[i].mask) = n
  <2>0. PICK m : m = batch[i].mask OBVIOUS
  <2>1. PICK T \in SUBSET Tokens : T = 1..n
    <3>1. 1..n \in SUBSET Tokens BY <1>2 DEF Tokens
    <3> QED BY <3>1
  <2>2. /\ m \in [Tokens -> Int] /\ \A x \in Tokens \ T : m[x] = 0
        /\ \A x \in T : m[x] = 1
    BY <1>1, <1>2, <2>0, <2>1 DEF Tokens
  <2>3. SumFunction(m) = SumFunction([y \in T |-> m[y]]) BY <1>3, <2>2, SumWhere
  <2>4. PICK e : e = [y \in T |-> m[y]] OBVIOUS
  <2>5. e \in [T -> Int] /\ (\A x \in T : e[x] = 1) /\ IsFiniteSet(T)
    BY <1>3, <2>2, <2>4, FS_Subset
  <2>6. SumFunction(e) = Cardinality(T) BY <2>5, SumOnes
  <2>7. Cardinality(1..n) = n
    <3>1. 1 \in Int /\ n \in Int /\ ~(1 > n) BY <1>2
    <3>2. Cardinality(1..n) = n - 1 + 1 BY <3>1, FS_Interval
    <3> QED BY <1>2, <3>2
  <2> QED BY <2>0, <2>1, <2>3, <2>4, <2>6, <2>7
<1>5. RewardToken(batch[i].mask) = n BY <1>2, <1>4 DEF RewardToken
<1>6. PICK f : f = [k \in Tokens |-> Reward(i, k) * batch[i].mask[k]] OBVIOUS
<1>7. PICK c \in Int : c = Score[Key(i)] BY RewardInt, ConstantsAssumption
<1>8. f \in [Tokens -> Int] /\ f[n] = c /\ \A k \in Tokens \ {n} : f[k] = 0
  <2>1. \A k \in Tokens : batch[i].mask[k] \in {0, 1} BY RewardInt
  <2>2. f[n] = c * 1 BY <1>1, <1>2, <1>5, <1>6, <1>7 DEF Reward
  <2>3. \A k \in Tokens \ {n} : f[k] = 0 * batch[i].mask[k] BY <1>5, <1>6 DEF Reward
  <2>4. \A k \in Tokens \ {n} : f[k] = 0 BY <2>1, <2>3
  <2>5. f[n] = c BY <2>2
  <2>6. \A k \in Tokens : f[k] \in Int BY <2>4, <2>5
  <2> QED BY <1>6, <2>4, <2>5, <2>6
<1>9. SumFunction(f) = c BY <1>3, <1>8, SumSingle
<1>10. batch[i].mask[1] = 1 BY <1>1, <1>2
<1> QED BY <1>6, <1>7, <1>9, <1>10 DEF StepScore

(* The rows _trajectory_total_scores has gone through. *)
Passed ==
  IF phase = "start" THEN {} ELSE IF phase = "totals" THEN {i \in Valid : i < t} ELSE Valid

UidOf(tr) == batch[CHOOSE i \in Rows : batch[i].traj = tr].uid
RowsAmong(seen, tr) == {i \in seen : batch[i].traj = tr}
TotalOf(seen, tr) == SumFunction([i \in RowsAmong(seen, tr) |-> StepScore(i)])
TotalsOver(seen) ==
  [tr \in {batch[i].traj : i \in seen} |-> [uid |-> UidOf(tr), sum |-> TotalOf(seen, tr)]]

(* The table has the trajectories met so far with what their rows add up to. *)
TotalsInv ==
  estimator \in OutcomeEstimators =>
    /\ phase \in {"start", "totals", "returns", "groups", "normalize", "done"}
    /\ phase = "totals" => t \in 1..Len(batch) + 1
    /\ total = TotalsOver(Passed)

(* One row more, in the table and in the sum. *)
LEMMA OneRowMore ==
  ASSUME BatchOK, BatchShape, NEW seen \in SUBSET Valid, NEW i \in Valid, i \notin seen,
         NEW tr
  PROVE  /\ tr = batch[i].traj /\ tr \in {batch[k].traj : k \in seen} =>
              TotalOf(seen \cup {i}, tr) = TotalOf(seen, tr) + StepScore(i)
         /\ tr = batch[i].traj /\ tr \notin {batch[k].traj : k \in seen} =>
              TotalOf(seen \cup {i}, tr) = StepScore(i)
         /\ tr # batch[i].traj => TotalOf(seen \cup {i}, tr) = TotalOf(seen, tr)
<1>1. IsFiniteSet(Valid) BY ValidFinite
<1>2. PICK f : f = [k \in Valid |-> StepScore(k)] OBVIOUS
<1>3. f \in [Valid -> Int] BY <1>2, StepScoreInt
<1>4. PICK T \in SUBSET Valid : T = RowsAmong(seen \cup {i}, tr) BY DEF RowsAmong
<1>5. PICK U \in SUBSET Valid : U = RowsAmong(seen, tr) BY DEF RowsAmong
<1>6. TotalOf(seen \cup {i}, tr) = SumFunction([k \in T |-> f[k]])
  <2>1. [k \in T |-> f[k]] = [k \in T |-> StepScore(k)] BY <1>2
  <2> QED BY <2>1, <1>4, Zenon DEF TotalOf
<1>7. TotalOf(seen, tr) = SumFunction([k \in U |-> f[k]])
  <2>1. [k \in U |-> f[k]] = [k \in U |-> StepScore(k)] BY <1>2
  <2> QED BY <2>1, <1>5, Zenon DEF TotalOf
<1>8. CASE tr # batch[i].traj
  <2>1. T = U BY <1>4, <1>5, <1>8 DEF RowsAmong
  <2> QED BY <1>6, <1>7, <1>8, <2>1
<1>9. CASE tr = batch[i].traj
  <2>1. i \in T /\ U = T \ {i} BY <1>4, <1>5, <1>9 DEF RowsAmong
  <2>2. PICK g : IsSum(g, f, Valid) BY <1>1, <1>3, SumExists
  <2>3. SumFunction([k \in T |-> f[k]]) = g[T] BY <1>1, <1>3, <2>2, SumOnSubset
  <2>4. SumFunction([k \in U |-> f[k]]) = g[U] BY <1>1, <1>3, <2>2, SumOnSubset
  <2>5. g[T] = f[i] + g[T \ {i}] BY <2>1, <2>2 DEF IsSum
  <2>6. g[T] = f[i] + g[U] BY <2>1, <2>5, Zenon
  <2>7. f[i] = StepScore(i) /\ f[i] \in Int /\ g[U] \in Int /\ g[{}] = 0
    BY <1>2, <1>3, <2>2 DEF IsSum
  <2>8. CASE tr \in {batch[k].traj : k \in seen}
    <3>1. TotalOf(seen \cup {i}, tr) = StepScore(i) + TotalOf(seen, tr)
      BY <1>6, <1>7, <2>3, <2>4, <2>6, <2>7, Zenon
    <3>2. TotalOf(seen, tr) \in Int /\ StepScore(i) \in Int BY <1>7, <2>4, <2>7, Zenon
    <3>3. TotalOf(seen \cup {i}, tr) = TotalOf(seen, tr) + StepScore(i) BY <3>1, <3>2
    <3> QED BY <1>9, <2>8, <3>3
  <2>9. CASE tr \notin {batch[k].traj : k \in seen}
    <3>1. U = {} BY <1>5, <2>9 DEF RowsAmong
    <3>2. g[U] = 0 BY <3>1, <2>7, Zenon
    <3>3. g[T] = f[i] BY <3>2, <2>6, <2>7
    <3>4. TotalOf(seen \cup {i}, tr) = StepScore(i) BY <3>3, <1>6, <2>3, <2>7, Zenon
    <3> QED BY <1>9, <2>9, <3>4
  <2> QED BY <2>8, <2>9
<1> QED BY <1>8, <1>9

LEMMA UidOfRow ==
  ASSUME BatchShape, NEW i \in Rows
  PROVE  UidOf(batch[i].traj) = batch[i].uid
<1>1. PICK k : k = CHOOSE m \in Rows : batch[m].traj = batch[i].traj OBVIOUS
<1>2. k \in Rows /\ batch[k].traj = batch[i].traj BY <1>1
<1>3. batch[k].uid = batch[i].uid BY <1>2 DEF BatchShape
<1> QED BY <1>1, <1>3 DEF UidOf

LEMMA TableAdd ==
  ASSUME BatchOK, BatchShape, NEW seen \in SUBSET Valid, NEW i \in Valid, i \notin seen,
         NEW tab, tab = TotalsOver(seen), NEW tr, tr = batch[i].traj
  PROVE  TotalsOver(seen \cup {i}) =
           IF tr \in DOMAIN tab THEN [tab EXCEPT ![tr].sum = @ + StepScore(i)]
           ELSE WithEntry(tab, tr, [uid |-> batch[i].uid, sum |-> StepScore(i)])
<1>1. DOMAIN tab = {batch[k].traj : k \in seen} BY DEF TotalsOver
<1>2. DOMAIN TotalsOver(seen \cup {i}) = {batch[k].traj : k \in seen} \cup {tr}
  BY DEF TotalsOver
<1>3. i \in Rows /\ UidOf(tr) = batch[i].uid BY ValidFinite, UidOfRow
<1>4. \A x \in {batch[k].traj : k \in seen} :
        tab[x] = [uid |-> UidOf(x), sum |-> TotalOf(seen, x)]
  BY DEF TotalsOver
<1>5. \A x \in {batch[k].traj : k \in seen} \cup {tr} :
        TotalsOver(seen \cup {i})[x] = [uid |-> UidOf(x), sum |-> TotalOf(seen \cup {i}, x)]
  BY DEF TotalsOver
<1>8. /\ tr \in DOMAIN tab => TotalOf(seen \cup {i}, tr) = TotalOf(seen, tr) + StepScore(i)
      /\ tr \notin DOMAIN tab => TotalOf(seen \cup {i}, tr) = StepScore(i)
      /\ \A x : x # tr => TotalOf(seen \cup {i}, x) = TotalOf(seen, x)
  <2>1. ASSUME NEW x, x # tr PROVE TotalOf(seen \cup {i}, x) = TotalOf(seen, x)
    BY <2>1, OneRowMore, Zenon
  <2>2. /\ tr \in DOMAIN tab => TotalOf(seen \cup {i}, tr) = TotalOf(seen, tr) + StepScore(i)
        /\ tr \notin DOMAIN tab => TotalOf(seen \cup {i}, tr) = StepScore(i)
    BY <1>1, OneRowMore, Zenon
  <2> QED BY <2>1, <2>2
<1>9. ASSUME NEW x \in DOMAIN tab, x # tr PROVE TotalsOver(seen \cup {i})[x] = tab[x]
  <2>1. PICK u, n : u = UidOf(x) /\ n = TotalOf(seen, x) OBVIOUS
  <2>2. tab[x] = [uid |-> u, sum |-> n] BY <2>1, <1>1, <1>4, <1>9
  <2>3. TotalsOver(seen \cup {i})[x] = [uid |-> u, sum |-> n] BY <2>1, <1>1, <1>5, <1>8, <1>9
  <2> QED BY <2>2, <2>3
<1>6. CASE tr \in DOMAIN tab
  <2>1. PICK new : new = [tab EXCEPT ![tr].sum = @ + StepScore(i)] OBVIOUS
  <2>2. DOMAIN new = DOMAIN tab /\ new = [x \in DOMAIN tab |-> new[x]] BY <2>1, <1>1 DEF TotalsOver
  <2>3. \A x \in DOMAIN tab : x # tr => new[x] = tab[x] BY <2>1
  <2>4. new[tr] = [tab[tr] EXCEPT !.sum = @ + StepScore(i)] BY <2>1, <1>6
  <2>5. new[tr] = [uid |-> UidOf(tr), sum |-> TotalOf(seen, tr) + StepScore(i)]
    <3>1. PICK u, n, c : u = UidOf(tr) /\ n = TotalOf(seen, tr) /\ c = StepScore(i) OBVIOUS
    <3>2. tab[tr] = [uid |-> u, sum |-> n] BY <3>1, <1>1, <1>4, <1>6
    <3>3. new[tr] = [uid |-> u, sum |-> n + c] BY <2>4, <3>1, <3>2
    <3> QED BY <3>1, <3>3
  <2>6. \A x \in DOMAIN tab : new[x] = TotalsOver(seen \cup {i})[x]
    <3>1. new[tr] = TotalsOver(seen \cup {i})[tr] BY <2>5, <1>1, <1>5, <1>6, <1>8
    <3> QED BY <2>3, <3>1, <1>9
  <2>7. TotalsOver(seen \cup {i}) = [x \in DOMAIN tab |-> TotalsOver(seen \cup {i})[x]]
    <3>1. DOMAIN TotalsOver(seen \cup {i}) = DOMAIN tab BY <1>1, <1>2, <1>6
    <3> QED BY <3>1 DEF TotalsOver
  <2>8. TotalsOver(seen \cup {i}) = new BY <2>2, <2>6, <2>7
  <2> QED BY <1>6, <2>1, <2>8
<1>7. CASE tr \notin DOMAIN tab
  <2>1. PICK new : new = WithEntry(tab, tr, [uid |-> batch[i].uid, sum |-> StepScore(i)]) OBVIOUS
  <2>2. /\ new = [x \in DOMAIN tab \cup {tr} |-> new[x]]
        /\ new[tr] = [uid |-> batch[i].uid, sum |-> StepScore(i)]
        /\ \A x \in DOMAIN tab : x # tr => new[x] = tab[x]
    BY <2>1 DEF WithEntry
  <2>3. \A x \in DOMAIN tab \cup {tr} : new[x] = TotalsOver(seen \cup {i})[x]
    <3>1. \A x \in DOMAIN tab : new[x] = TotalsOver(seen \cup {i})[x]
      BY <2>2, <1>7, <1>9
    <3>2. new[tr] = TotalsOver(seen \cup {i})[tr]
      BY <2>2, <1>1, <1>3, <1>5, <1>7, <1>8
    <3> QED BY <3>1, <3>2
  <2>4. TotalsOver(seen \cup {i}) = [x \in DOMAIN tab \cup {tr} |-> TotalsOver(seen \cup {i})[x]]
    BY <1>1, <1>2 DEF TotalsOver
  <2>5. TotalsOver(seen \cup {i}) = new BY <2>2, <2>3, <2>4
  <2> QED BY <1>7, <2>1, <2>5
<1> QED BY <1>6, <1>7

LEMMA SameTotals ==
  ASSUME batch' = batch
  PROVE  /\ BatchShape' <=> BatchShape
         /\ \A seen, tr : RowsAmong(seen, tr)' = RowsAmong(seen, tr)
         /\ \A seen : TotalsOver(seen)' = TotalsOver(seen)
<1>1. Rows' = Rows /\ \A i : StepScore(i)' = StepScore(i) BY SameBatch
<1>2. BatchShape' <=> BatchShape BY <1>1 DEF BatchShape
<1>3. \A seen, tr : RowsAmong(seen, tr)' = RowsAmong(seen, tr) BY DEF RowsAmong
<1>4. \A seen, tr : TotalOf(seen, tr)' = TotalOf(seen, tr) BY <1>1, <1>3, Zenon DEF TotalOf
<1>5. \A tr : UidOf(tr)' = UidOf(tr) BY <1>1 DEF UidOf
<1>6. \A seen : TotalsOver(seen)' = TotalsOver(seen) BY <1>4, <1>5, Zenon DEF TotalsOver
<1> QED BY <1>2, <1>3, <1>6

LEMMA TotalsInit == ASSUME Init PROVE TotalsInv
<1>1. phase = "start" /\ total = <<>> BY DEF Init
<1>2. Passed = {} BY <1>1 DEF Passed
<1>3. TotalsOver({}) = <<>>
  <2>1. DOMAIN TotalsOver({}) = {} /\ TotalsOver({}) = [x \in {} |-> TotalsOver({})[x]]
    BY DEF TotalsOver
  <2> QED BY <2>1
<1>4. total = TotalsOver(Passed) BY <1>1, <1>2, <1>3, Zenon
<1> QED BY <1>1, <1>4 DEF TotalsInv

LEMMA TotalsAddRow ==
  ASSUME BatchOK, BatchShape, PhaseInv, TotalsInv, AddRow
  PROVE  TotalsInv'
<1>1. /\ phase = "totals" /\ t <= Len(batch) /\ t \in 1..Len(batch) + 1
      /\ total = TotalsOver(Passed) /\ batch' = batch /\ phase' = phase /\ t' = t + 1
      /\ Len(batch) \in Nat /\ t \in Nat
  BY DEF AddRow, TotalsInv, PhaseInv, BatchShape
<1>2. PICK seen \in SUBSET Valid : seen = Passed BY <1>1 DEF Passed
<1>3. /\ Passed' = IF t \in Valid THEN seen \cup {t} ELSE seen
      /\ t \notin seen
  <2>1. Valid' = Valid BY <1>1, SameBatch
  <2>2. \A i \in Valid : i \in Nat BY ValidFinite DEF BatchShape
  <2>3. Passed' = {i \in Valid : i < t + 1} /\ seen = {i \in Valid : i < t}
    BY <1>1, <1>2, <2>1 DEF Passed
  <2>4. \A i \in Valid : i < t + 1 <=> i < t \/ i = t BY <1>1, <2>2
  <2>5. ~(t < t) BY <1>1
  <2> QED BY <2>3, <2>4, <2>5
<1>4. PICK tr : tr = batch[t].traj OBVIOUS
<1>5. total' = IF t \notin Valid THEN total
               ELSE IF tr \in DOMAIN total
                      THEN [total EXCEPT ![tr].sum = @ + StepScore(t)]
                      ELSE WithEntry(total, tr, [uid |-> batch[t].uid, sum |-> StepScore(t)])
  BY <1>4 DEF AddRow
<1>6. total' = TotalsOver(Passed')
  <2>1. CASE t \in Valid
    <3>1. PICK i \in Valid : i = t BY <2>1
    <3>2. PICK tab : tab = total OBVIOUS
    <3>3. tab = TotalsOver(seen) BY <1>1, <1>2, <3>2, Zenon
    <3>4. i \notin seen /\ tr = batch[i].traj BY <1>3, <1>4, <3>1
    <3>5. TotalsOver(seen \cup {i}) =
            IF tr \in DOMAIN tab THEN [tab EXCEPT ![tr].sum = @ + StepScore(i)]
            ELSE WithEntry(tab, tr, [uid |-> batch[i].uid, sum |-> StepScore(i)])
      BY <3>3, <3>4, TableAdd
    <3>6. total' = IF tr \in DOMAIN tab THEN [tab EXCEPT ![tr].sum = @ + StepScore(i)]
                   ELSE WithEntry(tab, tr, [uid |-> batch[i].uid, sum |-> StepScore(i)])
      BY <1>5, <2>1, <3>1, <3>2
    <3>7. TotalsOver(seen \cup {t}) = total' BY <3>1, <3>5, <3>6
    <3> QED BY <3>7, <1>3, <2>1, Zenon
  <2>2. CASE t \notin Valid BY <1>1, <1>2, <1>3, <1>5, <2>2, Zenon
  <2> QED BY <2>1, <2>2
<1>7. TotalsOver(Passed)' = TotalsOver(Passed') BY <1>1, SameTotals, Zenon
<1>8. t' \in 1..Len(batch') + 1 BY <1>1
<1> QED BY <1>1, <1>6, <1>7, <1>8 DEF TotalsInv

LEMMA TotalsNext ==
  ASSUME BatchOK, BatchShape, PhaseInv, TotalsInv, [Next]_vars
  PROVE  TotalsInv'
<1>0. batch' = batch /\ estimator' = estimator BY BatchKept, PhaseNext
<1>1. CASE estimator \notin OutcomeEstimators BY <1>0, <1>1 DEF TotalsInv
<1>2. CASE AddRow BY <1>2, TotalsAddRow
<1>3. ASSUME estimator \in OutcomeEstimators, total' = total, Passed' = Passed,
             phase' \in {"start", "totals", "returns", "groups", "normalize", "done"},
             phase' = "totals" => t' \in 1..Len(batch) + 1
      PROVE  TotalsInv'
  <2>1. TotalsOver(Passed)' = TotalsOver(Passed) BY <1>0, <1>3, SameTotals, Zenon
  <2> QED BY <2>1, <1>0, <1>3 DEF TotalsInv
<1>4. CASE Dispatch /\ estimator \in OutcomeEstimators
  <2>1. /\ phase = "start" /\ phase' = "totals" /\ t' = 1 /\ total' = total
    BY <1>4 DEF Dispatch, FirstPhase, AllEstimators, OutcomeEstimators, tables
  <2>2. \A i \in Valid : i \in Nat /\ ~(i < 1) BY ValidFinite DEF BatchShape
  <2>3. Passed = {} /\ Passed' = {} BY <1>0, <2>1, <2>2, SameBatch DEF Passed
  <2>4. 1 \in 1..Len(batch) + 1 BY DEF BatchShape
  <2> QED BY <1>3, <1>4, <2>1, <2>3, <2>4
<1>5. CASE TotalsDone /\ estimator \in OutcomeEstimators
  <2>1. /\ phase = "totals" /\ phase' \in {"returns", "normalize"} /\ total' = total
        /\ t > Len(batch) /\ t \in 1..Len(batch) + 1
    BY <1>5 DEF TotalsDone, tables, TotalsInv
  <2>2. \A i \in Valid : i < t BY <2>1, ValidFinite DEF BatchShape
  <2>3. Passed = Valid /\ Passed' = Valid BY <1>0, <2>1, <2>2, SameBatch DEF Passed
  <2> QED BY <1>3, <1>5, <2>1, <2>3
<1>6. CASE /\ estimator \in OutcomeEstimators
           /\ ReturnStep \/ ReturnsDone \/ GroupRow \/ GroupsDone \/ Normalize
  <2>1. /\ phase \notin {"start", "totals"} /\ total' = total
        /\ phase' \in {"returns", "groups", "normalize", "done"}
    BY <1>6 DEF ReturnStep, ReturnsDone, GroupRow, GroupsDone, Normalize, tables
  <2>2. Passed = Valid /\ Passed' = Valid BY <1>0, <2>1, SameBatch DEF Passed
  <2> QED BY <1>3, <1>6, <2>1, <2>2
<1>7. CASE UNCHANGED vars /\ estimator \in OutcomeEstimators
  <2>1. phase' = phase /\ t' = t /\ total' = total BY <1>7 DEF vars, loop, tables
  <2>2. Passed' = Passed BY <1>0, <2>1, SameBatch DEF Passed
  <2> QED BY <1>3, <1>7, <2>1, <2>2 DEF TotalsInv
<1>8. CASE /\ estimator \in OutcomeEstimators
           /\ \/ GaeStep \/ Broadcast \/ EnterStep \/ BackToken \/ LeaveStep \/ RfToken
  BY <1>8 DEF PhaseInv, OutcomeEstimators, GaeStep, Broadcast, EnterStep, BackToken, LeaveStep, RfToken
<1> QED BY <1>1, <1>2, <1>4, <1>5, <1>6, <1>7, <1>8 DEF Next

(* What Normalize leaves. *)
NormalInv ==
  phase = "done" /\ estimator \in OutcomeEstimators =>
    \A i \in Valid :
      LET tr == batch[i].traj IN
      /\ divisor[i] = OutcomeDivisor(tr)
      /\ \A k \in Tokens : adv[i][k] = OutcomeNumerator(tr) * batch[i].mask[k]
      /\ estimator = "gigpo" =>
           /\ stepDivisor[i] = Cardinality(StepGroup(i))
           /\ \A k \in Tokens :
                stepAdv[i][k] = StepAdvantageW * StepNumerator(i) * batch[i].mask[k]
           /\ stds[i] = Stds(i)

LEMMA SameGroups ==
  ASSUME UNCHANGED <<estimator, batch, tables>>
  PROVE  /\ \A tr : OutcomeNumerator(tr)' = OutcomeNumerator(tr)
         /\ \A tr : OutcomeDivisor(tr)' = OutcomeDivisor(tr)
         /\ \A i : StepGroup(i)' = StepGroup(i)
         /\ \A i : StepNumerator(i)' = StepNumerator(i)
         /\ \A i : Stds(i)' = Stds(i)
<1>0. /\ total' = total /\ perRow' = perRow /\ clusters' = clusters
      /\ estimator' = estimator /\ batch' = batch
  BY DEF tables
<1>1. \A tr : GroupOf(tr)' = GroupOf(tr) BY <1>0 DEF GroupOf
<1>2. \A S : SumOver(S)' = SumOver(S) BY <1>0 DEF SumOver
<1>3. \A tr : OutcomeNumerator(tr)' = OutcomeNumerator(tr)
  BY <1>0, <1>1, <1>2 DEF OutcomeNumerator
<1>4. \A tr : OutcomeDivisor(tr)' = OutcomeDivisor(tr) BY <1>0, <1>1 DEF OutcomeDivisor
<1>5. \A i : StepGroup(i)' = StepGroup(i) BY <1>0 DEF StepGroup
<1>6. \A i : StepNumerator(i)' = StepNumerator(i) BY <1>0, <1>5 DEF StepNumerator
<1>7. \A i : Stds(i)' = Stds(i) BY <1>0, <1>1, <1>5 DEF Stds
<1> QED BY <1>3, <1>4, <1>5, <1>6, <1>7

LEMMA NormalInit == ASSUME Init PROVE NormalInv
BY DEF Init, NormalInv

LEMMA NormalNext ==
  ASSUME PhaseInv, NormalInv, [Next]_vars
  PROVE  NormalInv'
<1>0. batch' = batch /\ estimator' = estimator BY BatchKept, PhaseNext
<1>1. Valid' = Valid /\ Rows' = Rows BY <1>0, SameBatch
<1>2. CASE Normalize
  <2>1. UNCHANGED <<estimator, tables>> BY <1>2 DEF Normalize
  <2>2. /\ \A tr : OutcomeNumerator(tr)' = OutcomeNumerator(tr)
        /\ \A tr : OutcomeDivisor(tr)' = OutcomeDivisor(tr)
        /\ \A i : StepGroup(i)' = StepGroup(i)
        /\ \A i : StepNumerator(i)' = StepNumerator(i)
        /\ \A i : Stds(i)' = Stds(i)
    BY <1>0, <2>1, SameGroups
  <2>3. \A i \in Valid : i \in Rows BY DEF Valid
  <2>4. ASSUME NEW i \in Valid, NEW tr, tr = batch[i].traj
        PROVE  /\ divisor'[i] = OutcomeDivisor(tr)
               /\ \A k \in Tokens : adv'[i][k] = OutcomeNumerator(tr) * batch[i].mask[k]
    BY <1>2, <2>3, <2>4, Zenon DEF Normalize
  <2>5. ASSUME NEW i \in Valid, estimator = "gigpo"
        PROVE  /\ stepDivisor'[i] = Cardinality(StepGroup(i))
               /\ \A k \in Tokens :
                    stepAdv'[i][k] = StepAdvantageW * StepNumerator(i) * batch[i].mask[k]
               /\ stds'[i] = Stds(i)
    <3>1. StepPart BY <1>2, <2>5 DEF Normalize
    <3> QED BY <3>1, <2>3, Zenon DEF StepPart
  <2>6. ASSUME NEW i \in Valid, NEW tr, tr = batch[i].traj
        PROVE  /\ divisor'[i] = OutcomeDivisor(tr)'
               /\ \A k \in Tokens : adv'[i][k] = OutcomeNumerator(tr)' * batch'[i].mask[k]
               /\ estimator' = "gigpo" =>
                    /\ stepDivisor'[i] = Cardinality(StepGroup(i)')
                    /\ \A k \in Tokens :
                         stepAdv'[i][k] = StepAdvantageW * StepNumerator(i)' * batch'[i].mask[k]
                    /\ stds'[i] = Stds(i)'
    <3>1. /\ OutcomeDivisor(tr)' = OutcomeDivisor(tr)
          /\ OutcomeNumerator(tr)' = OutcomeNumerator(tr)
          /\ StepGroup(i)' = StepGroup(i) /\ StepNumerator(i)' = StepNumerator(i)
          /\ Stds(i)' = Stds(i)
      BY <2>2
    <3>2. /\ divisor'[i] = OutcomeDivisor(tr)'
          /\ \A k \in Tokens : adv'[i][k] = OutcomeNumerator(tr)' * batch'[i].mask[k]
      <4>1. \A k \in Tokens : adv'[i][k] = OutcomeNumerator(tr) * batch[i].mask[k]
        BY <2>4, <2>6, Zenon
      <4>2. divisor'[i] = OutcomeDivisor(tr) BY <2>4, <2>6, Zenon
      <4>3. batch' = batch BY <1>0
      <4>4. divisor'[i] = OutcomeDivisor(tr)' BY <3>1, <4>2, Zenon
      <4>5. \A k \in Tokens : adv'[i][k] = OutcomeNumerator(tr)' * batch'[i].mask[k]
        BY <3>1, <4>1, <4>3, Zenon
      <4> QED BY <4>4, <4>5, Zenon
    <3>3. ASSUME estimator' = "gigpo"
          PROVE  /\ stepDivisor'[i] = Cardinality(StepGroup(i)')
                 /\ \A k \in Tokens :
                      stepAdv'[i][k] = StepAdvantageW * StepNumerator(i)' * batch'[i].mask[k]
                 /\ stds'[i] = Stds(i)'
      BY <1>0, <2>5, <3>1, <3>3, Zenon
    <3> QED BY <3>2, <3>3
  <2>7. ASSUME NEW i \in Valid'
        PROVE  ( LET tr == batch[i].traj IN
                 /\ divisor[i] = OutcomeDivisor(tr)
                 /\ \A k \in Tokens : adv[i][k] = OutcomeNumerator(tr) * batch[i].mask[k]
                 /\ estimator = "gigpo" =>
                      /\ stepDivisor[i] = Cardinality(StepGroup(i))
                      /\ \A k \in Tokens :
                           stepAdv[i][k] = StepAdvantageW * StepNumerator(i) * batch[i].mask[k]
                      /\ stds[i] = Stds(i) )'
    BY <1>0, <1>1, <2>6, <2>7, Zenon
  <2> QED BY <2>7, Zenon DEF NormalInv
<1>3. CASE UNCHANGED vars
  <2>1. /\ UNCHANGED <<estimator, tables>> /\ phase' = phase /\ adv' = adv
        /\ divisor' = divisor
        /\ stepAdv' = stepAdv /\ stepDivisor' = stepDivisor /\ stds' = stds
    BY <1>3 DEF vars, gigpo
  <2>2. /\ \A tr : OutcomeNumerator(tr)' = OutcomeNumerator(tr)
        /\ \A tr : OutcomeDivisor(tr)' = OutcomeDivisor(tr)
        /\ \A i : StepGroup(i)' = StepGroup(i)
        /\ \A i : StepNumerator(i)' = StepNumerator(i)
        /\ \A i : Stds(i)' = Stds(i)
    BY <1>0, <2>1, SameGroups
  <2> QED BY <1>0, <1>1, <2>1, <2>2, Zenon DEF NormalInv
<1>4. CASE /\ estimator \in OutcomeEstimators
           /\ \/ Dispatch \/ AddRow \/ TotalsDone \/ ReturnStep \/ ReturnsDone \/ GroupRow
              \/ GroupsDone
  <2>1. phase' # "done"
    BY <1>4 DEF Dispatch, AddRow, TotalsDone, ReturnStep, ReturnsDone, GroupRow, GroupsDone,
                FirstPhase, OutcomeEstimators, AllEstimators
  <2> QED BY <2>1 DEF NormalInv
<1>5. CASE /\ estimator \in OutcomeEstimators
           /\ \/ GaeStep \/ Broadcast \/ EnterStep \/ BackToken \/ LeaveStep \/ RfToken
  BY <1>5 DEF PhaseInv, OutcomeEstimators, GaeStep, Broadcast, EnterStep, BackToken, LeaveStep, RfToken
<1>6. CASE estimator \notin OutcomeEstimators BY <1>0, <1>6 DEF NormalInv
<1> QED BY <1>2, <1>3, <1>4, <1>5, <1>6 DEF Next

(* With unbroken responses, an entry of the table is the outcome.           *)
LEMMA TotalIsOutcome ==
  ASSUME BatchOK, BatchShape, total = TotalsOver(Valid), \A i \in Valid : Unbroken(i),
         NEW i \in Valid, NEW tr, tr = batch[i].traj
  PROVE  /\ tr \in DOMAIN total /\ total[tr].sum = Outcome(tr) /\ Outcome(tr) \in Int
         /\ total[tr].uid = batch[i].uid
<1>1. IsFiniteSet(Valid) /\ Valid \subseteq Rows BY ValidFinite
<1>2. tr \in DOMAIN total /\ total[tr] = [uid |-> UidOf(tr), sum |-> TotalOf(Valid, tr)]
  BY DEF TotalsOver
<1>3. UidOf(tr) = batch[i].uid BY <1>1, UidOfRow
<1>4. PICK S \in SUBSET Valid : S = RowsAmong(Valid, tr) BY DEF RowsAmong
<1>5. IsFiniteSet(S) BY <1>1, <1>4, FS_Subset
<1>6. PICK P : P = {Key(k) : k \in S} OBVIOUS
<1>8. PICK h : h = [k \in S |-> Key(k)] OBVIOUS
<1>7. IsFiniteSet(P)
  <2>1. h \in Surjection(S, P) BY <1>6, <1>8 DEF Surjection
  <2> QED BY <2>1, <1>5, FS_Surjection
<1>9. PICK f : f = [p \in P |-> Score[p]] OBVIOUS
<1>10. PICK e : e = [k \in S |-> StepScore(k)] OBVIOUS
<1>11. \A k \in S : Key(k) \in Trajectories \X StepIds BY RewardInt
<1>12. f \in [P -> Int]
  <2>1. \A p \in P : p \in Trajectories \X StepIds BY <1>6, <1>11
  <2>2. \A p \in P : Score[p] \in Int BY <2>1, ConstantsAssumption
  <2> QED BY <1>9, <2>2
<1>13. h \in [S -> P] /\ \A k, m \in S : h[k] = h[m] => k = m
  BY <1>6, <1>8 DEF BatchOK
<1>14. e \in [S -> Int] BY <1>10, StepScoreInt
<1>15. \A k \in S : e[k] = f[h[k]]
  <2>1. \A k \in S : e[k] = Score[Key(k)] BY <1>10, UnbrokenScore
  <2>2. \A k \in S : f[h[k]] = Score[Key(k)] BY <1>6, <1>8, <1>9
  <2> QED BY <2>1, <2>2
<1>16. P \in SUBSET P /\ P = {h[k] : k \in S} BY <1>6, <1>8
<1>17. SumFunction(e) = SumFunction([p \in P |-> f[p]])
  BY <1>5, <1>7, <1>12, <1>13, <1>14, <1>15, <1>16, SumRenamed
<1>18. [p \in P |-> f[p]] = f BY <1>12
<1>19. TotalOf(Valid, tr) = SumFunction(e) BY <1>4, <1>10, Zenon DEF TotalOf
<1>20. Outcome(tr) = SumFunction(f)
  <2>1. {Key(k) : k \in {m \in Valid : batch[m].traj = tr}} = P
    BY <1>4, <1>6, Zenon DEF RowsAmong
  <2> QED BY <2>1, <1>9, Zenon DEF Outcome
<1>21. SumFunction(f) \in Int BY <1>7, <1>12, SumInt
<1>22. TotalOf(Valid, tr) = Outcome(tr) BY <1>17, <1>18, <1>19, <1>20, Zenon
<1>23. Outcome(tr) \in Int BY <1>20, <1>21, Zenon
<1>24. total[tr].sum = TotalOf(Valid, tr) /\ total[tr].uid = UidOf(tr) BY <1>2
<1> QED BY <1>2, <1>3, <1>22, <1>23, <1>24

(* The group of a trajectory is that of its prompt. *)
LEMMA GroupIs ==
  ASSUME BatchOK, BatchShape, total = TotalsOver(Valid), \A i \in Valid : Unbroken(i),
         NEW i \in Valid, NEW tr, tr = batch[i].traj,
         NEW all, all = TrajectoriesOf(batch[i].uid)
  PROVE  /\ GroupOf(tr) = all /\ IsFiniteSet(all) /\ tr \in all
         /\ \A x \in all : Outcome(x) \in Int
         /\ SumOver(all) = OutcomeSum(all)
<1>1. IsFiniteSet(Valid) BY ValidFinite
<1>2. DOMAIN total = {batch[k].traj : k \in Valid} BY DEF TotalsOver
<1>3. \A k \in Valid : /\ total[batch[k].traj].uid = batch[k].uid
                       /\ total[batch[k].traj].sum = Outcome(batch[k].traj)
                       /\ Outcome(batch[k].traj) \in Int
  BY TotalIsOutcome
<1>4. \A x : x \in GroupOf(tr) <=> \E k \in Valid : x = batch[k].traj /\ batch[k].uid = batch[i].uid
  BY <1>2, <1>3 DEF GroupOf
<1>5. \A x : x \in all <=> \E k \in Valid : x = batch[k].traj /\ batch[k].uid = batch[i].uid
  BY DEF TrajectoriesOf
<1>6. GroupOf(tr) = all BY <1>4, <1>5
<1>7. IsFiniteSet(all)
  <2>1. PICK S \in SUBSET Valid : S = {k \in Valid : batch[k].uid = batch[i].uid} OBVIOUS
  <2>2. IsFiniteSet(S) BY <1>1, <2>1, FS_Subset
  <2>3. IsFiniteSet({batch[k].traj : k \in S})
    <3>1. PICK P : P = {batch[k].traj : k \in S} OBVIOUS
    <3>2. PICK h : h = [k \in S |-> batch[k].traj] OBVIOUS
    <3>3. h \in Surjection(S, P) BY <3>1, <3>2 DEF Surjection
    <3> QED BY <3>1, <3>3, <2>2, FS_Surjection
  <2> QED BY <2>1, <2>3, Zenon DEF TrajectoriesOf
<1>8. tr \in all BY <1>5
<1>9. \A x \in all : total[x].sum = Outcome(x) /\ Outcome(x) \in Int BY <1>3, <1>5
<1>10. [x \in all |-> total[x].sum] = [x \in all |-> Outcome(x)] BY <1>9
<1>11. SumOver(all) = OutcomeSum(all) BY <1>10, Zenon DEF SumOver, OutcomeSum
<1> QED BY <1>6, <1>7, <1>8, <1>9, <1>11

(* What the table is when the estimator is done. *)
LEMMA DoneTotals ==
  ASSUME TotalsInv, phase = "done", estimator \in OutcomeEstimators
  PROVE  total = TotalsOver(Valid)
BY DEF TotalsInv, Passed

LEMMA OutcomeRow ==
  ASSUME BatchOK, BatchShape, TotalsInv, NormalInv, phase = "done",
         estimator \in OutcomeEstimators,
         \A i \in Valid : Unbroken(i),
         NEW i \in Valid, NEW tr, tr = batch[i].traj,
         NEW all, all = TrajectoriesOf(batch[i].uid),
         NEW peers,
         peers = IF all = {tr} THEN {} ELSE IF estimator = "rloo" THEN all \ {tr} ELSE all
  PROVE  IF peers = {} THEN adv[i][1] = divisor[i] * Outcome(tr)
         ELSE adv[i][1] * Cardinality(peers)
                = divisor[i] * (Cardinality(peers) * Outcome(tr) - OutcomeSum(peers))
<1>1. total = TotalsOver(Valid) BY DoneTotals
<1>2. total[tr].sum = Outcome(tr) /\ Outcome(tr) \in Int BY <1>1, TotalIsOutcome
<1>3. /\ GroupOf(tr) = all /\ IsFiniteSet(all) /\ tr \in all
      /\ \A x \in all : Outcome(x) \in Int
      /\ SumOver(all) = OutcomeSum(all)
  BY <1>1, GroupIs
<1>4. PICK o \in Int : o = Outcome(tr) BY <1>2
<1>5. PICK n \in Nat : n = Cardinality(all) BY <1>3, FS_CardinalityType
<1>6. PICK f : f = [x \in all |-> Outcome(x)] OBVIOUS
<1>7. f \in [all -> Int] BY <1>3, <1>6
<1>8. PICK s \in Int : s = OutcomeSum(all) BY <1>3, <1>6, <1>7, SumInt DEF OutcomeSum
<1>9. /\ OutcomeNumerator(tr) = IF n = 1 THEN o ELSE n * o - s
      /\ OutcomeDivisor(tr) = IF n > 1 /\ estimator = "rloo" THEN n - 1 ELSE n
  BY <1>2, <1>3, <1>4, <1>5, <1>8, Zenon DEF OutcomeNumerator, OutcomeDivisor
<1>10. adv[i][1] = OutcomeNumerator(tr) /\ divisor[i] = OutcomeDivisor(tr)
  <2>1. 1 \in Tokens BY ConstantsAssumption DEF Tokens
  <2>2. batch[i].mask[1] = 1 BY UnbrokenScore
  <2>3. divisor[i] = OutcomeDivisor(tr) /\ adv[i][1] = OutcomeNumerator(tr) * 1
    BY <2>1, <2>2 DEF NormalInv
  <2>4. PICK a : a = n * o /\ a \in Int
    <3>1. n * o \in Int OBVIOUS
    <3> QED BY <3>1
  <2>5. OutcomeNumerator(tr) \in Int BY <1>9, <2>4
  <2> QED BY <2>3, <2>5
<1>11. CASE all = {tr}
  <2>1. n = 1 BY <1>5, <1>11, FS_Singleton
  <2>2. adv[i][1] = o /\ divisor[i] = 1 BY <1>9, <1>10, <2>1
  <2>3. adv[i][1] = divisor[i] * Outcome(tr) BY <2>2, <1>4
  <2> QED BY <1>11, <2>3
<1>12. CASE all # {tr}
  <2>1. PICK x \in all : x # tr BY <1>3, <1>12
  <2>2. IsFiniteSet(all \ {tr}) /\ Cardinality(all \ {tr}) = n - 1
    BY <1>3, <1>5, FS_RemoveElement
  <2>3. Cardinality(all \ {tr}) # 0 /\ Cardinality(all \ {tr}) \in Nat
    <3>1. all \ {tr} # {} BY <2>1
    <3> QED BY <3>1, <2>2, FS_EmptySet, FS_CardinalityType
  <2>4. n > 1 /\ n # 1 BY <2>2, <2>3
  <2>5. adv[i][1] = n * o - s BY <1>9, <1>10, <2>4
  <2>6. PICK p \in Int : p = n * o
    <3>1. n * o \in Int OBVIOUS
    <3> QED BY <3>1
  <2>7. CASE estimator # "rloo"
    <3>1. peers = all /\ peers # {} BY <1>3, <1>12, <2>7
    <3>2. divisor[i] = n BY <1>9, <1>10, <2>7
    <3>3. (p - s) * n = n * (p - s) OBVIOUS
    <3>4. adv[i][1] * n = divisor[i] * (n * o - s) BY <2>5, <2>6, <3>2, <3>3
    <3>5. Cardinality(peers) = n /\ OutcomeSum(peers) = s BY <3>1, <1>5, <1>8
    <3>6. adv[i][1] * Cardinality(peers)
             = divisor[i] * (Cardinality(peers) * Outcome(tr) - OutcomeSum(peers))
      BY <3>4, <3>5, <1>4
    <3> QED BY <3>1, <3>6
  <2>8. CASE estimator = "rloo"
    <3>1. peers = all \ {tr} /\ peers # {} BY <1>12, <2>1, <2>8
    <3>2. divisor[i] = n - 1 BY <1>9, <1>10, <2>4, <2>8
    <3>4. PICK P \in SUBSET all : P = all \ {tr} OBVIOUS
    <3>3. PICK g : IsSum(g, f, all) BY <1>3, <1>7, SumExists
    <3>5. [y \in P |-> f[y]] = [y \in P |-> Outcome(y)] BY <1>6
    <3>6. OutcomeSum(P) = g[P]
      <4>1. SumFunction([y \in P |-> f[y]]) = g[P] BY <1>3, <1>7, <3>3, SumOnSubset
      <4> QED BY <4>1, <3>5, Zenon DEF OutcomeSum
    <3>7. OutcomeSum(all) = g[all]
      <4>1. SumFunction(f) = g[all] BY <1>3, <1>7, <3>3, SumFunctionIs
      <4> QED BY <4>1, <1>6, Zenon DEF OutcomeSum
    <3>8. g[all] = f[tr] + g[P] /\ g[P] \in Int
      <4>1. g[P] \in Int BY <3>3 DEF IsSum
      <4>2. g[all] = f[tr] + g[all \ {tr}] BY <1>3, <3>3 DEF IsSum
      <4>3. g[all] = f[tr] + g[P] BY <3>4, <4>2, Zenon
      <4> QED BY <4>1, <4>3
    <3>9. f[tr] = o BY <1>3, <1>4, <1>6
    <3>10. PICK r \in Int : r = OutcomeSum(P)
      <4>1. OutcomeSum(P) \in Int BY <3>6, <3>8, Zenon
      <4> QED BY <4>1
    <3>11. s = o + r BY <1>8, <3>6, <3>7, <3>8, <3>9, <3>10, Zenon
    <3>12. Cardinality(peers) = n - 1 /\ OutcomeSum(peers) = r BY <3>1, <3>4, <3>10, <2>2
    <3>13. (p - (o + r)) * (n - 1) = (n - 1) * ((n - 1) * o - r)
      <4>1. (n - 1) * o = p - o BY <2>6
      <4>2. (n - 1) * o - r = p - (o + r) BY <4>1
      <4>3. PICK c \in Int, d \in Int : c = p - (o + r) /\ d = n - 1 OBVIOUS
      <4>4. c * d = d * c OBVIOUS
      <4> QED BY <4>2, <4>3, <4>4
    <3>14. adv[i][1] * (n - 1) = divisor[i] * ((n - 1) * o - r)
      BY <2>5, <2>6, <3>2, <3>11, <3>13
    <3>15. adv[i][1] * Cardinality(peers)
             = divisor[i] * (Cardinality(peers) * Outcome(tr) - OutcomeSum(peers))
      BY <3>12, <3>14, <1>4
    <3> QED BY <3>1, <3>15
  <2> QED BY <2>7, <2>8
<1> QED BY <1>11, <1>12

(* With grpo, reinforce_plus_plus_baseline and rloo, in any order of the    *)
(* rows and with any padding, the advantage of every step of a trajectory   *)
(* (with gigpo, its part on outcomes) is its outcome less the mean outcome  *)
(* of its prompt's trajectories, for rloo of the others, each counted once  *)
(* however many rows it has                                                 *)
(* (_trajectory_total_scores and the estimators built on it).               *)
THEOREM OutcomesCorrect == Spec => []OutcomeAdvantages
<1> DEFINE Inv == BatchOK /\ BatchShape /\ PhaseInv /\ TotalsInv /\ NormalInv
<1>1. Init => Inv
  BY InitBatch, InitShape, PhaseInit, TotalsInit, NormalInit, ConstantsAssumption
<1>2. Inv /\ [Next]_vars => Inv'
  <2> SUFFICES ASSUME Inv, [Next]_vars PROVE Inv' OBVIOUS
  <2>1. BatchOK' /\ PhaseInv' BY BatchNext, PhaseNext
  <2>2. BatchShape' BY BatchKept, SameTotals
  <2>3. TotalsInv' BY TotalsNext
  <2>4. NormalInv' BY NormalNext
  <2> QED BY <2>1, <2>2, <2>3, <2>4
<1>3. Inv => OutcomeAdvantages
  <2> SUFFICES ASSUME Inv, Done(OutcomeEstimators),
                      \A i \in Valid : Unbroken(i), NEW i \in Valid
               PROVE  LET tr == batch[i].traj
                          all == TrajectoriesOf(batch[i].uid)
                          peers == IF all = {tr} THEN {}
                                   ELSE IF estimator = "rloo" THEN all \ {tr} ELSE all
                      IN  IF peers = {} THEN adv[i][1] = divisor[i] * Outcome(tr)
                          ELSE adv[i][1] * Cardinality(peers)
                            = divisor[i] * (Cardinality(peers) * Outcome(tr) - OutcomeSum(peers))
    <3> HIDE DEF Inv
    <3> QED BY DEF OutcomeAdvantages
  <2>1. phase = "done" /\ estimator \in OutcomeEstimators BY DEF Done
  <2>2. PICK tr : tr = batch[i].traj OBVIOUS
  <2>3. PICK all : all = TrajectoriesOf(batch[i].uid) OBVIOUS
  <2>4. PICK peers : peers = IF all = {tr} THEN {}
                             ELSE IF estimator = "rloo" THEN all \ {tr} ELSE all
    OBVIOUS
  <2>5. IF peers = {} THEN adv[i][1] = divisor[i] * Outcome(tr)
        ELSE adv[i][1] * Cardinality(peers)
               = divisor[i] * (Cardinality(peers) * Outcome(tr) - OutcomeSum(peers))
    BY <2>1, <2>2, <2>3, <2>4, OutcomeRow
  <2> QED BY <2>2, <2>3, <2>4, <2>5, Zenon
<1> HIDE DEF Inv
<1>4. Spec => []Inv BY <1>1, <1>2, PTL DEF Spec
<1> QED BY <1>3, <1>4, PTL

----------------------------------------------------------------------------
(* GiGPO: the returns and the groups of the steps *)

(* The rewards from step s on, discounted back to it. *)
StepReturn(tr, s) == SumFunction([r \in s..MaxSteps |-> Discount[r - s] * RewardsMap(tr, r)])

(* The steps gone through have their returns, and the running return is     *)
(* that of step t + 1.                                                      *)
ReturnInv ==
  estimator = "gigpo" =>
    /\ phase \in {"start", "totals"} => lastgae = [tr \in Trajectories |-> 0]
    /\ phase = "returns" =>
         /\ t \in 0..MaxSteps
         /\ \A tr \in Trajectories : lastgae[tr] = StepReturn(tr, t + 1)
         /\ \A i \in Valid : batch[i].step > t =>
              perRow[i] = StepReturn(batch[i].traj, batch[i].step)
    /\ phase \in {"groups", "normalize", "done"} =>
         \A i \in Valid : perRow[i] = StepReturn(batch[i].traj, batch[i].step)

(* The rows _build_step_groups has gone through. *)
Grouped ==
  IF phase \in {"start", "totals", "returns"} THEN {}
  ELSE IF phase = "groups" THEN {i \in Valid : i < t} ELSE Valid

FirstFit(groups, i, c) ==
  Fits(i, groups[c]) /\ \A d \in DOMAIN groups : d < c => ~Fits(i, groups[d])

(* A row is in the first cluster it fits, and in no other: rows that come   *)
(* later change no representative and open clusters behind the others only. *)
ClustersOver(groups, seen) ==
  /\ groups \in Seq([uid : {batch[i].uid : i \in Valid}, rep : Observations, rows : SUBSET seen])
  /\ \A i \in seen : \A c \in DOMAIN groups : i \in groups[c].rows <=> FirstFit(groups, i, c)
  /\ \A i \in seen : \E c \in DOMAIN groups : i \in groups[c].rows

ObsOK == \A i \in Valid : batch[i].obs \in Observations

ClusterInv ==
  estimator = "gigpo" =>
    /\ phase = "groups" => t \in 1..Len(batch) + 1
    /\ ClustersOver(clusters, Grouped)

LEMMA RewardsMapInt ==
  ASSUME BatchOK, NEW tr, NEW s
  PROVE  RewardsMap(tr, s) \in Int
<1>1. CASE RowOf(tr, s) = None BY <1>1 DEF RewardsMap
<1>2. CASE RowOf(tr, s) # None
  <2>1. PICK i \in Valid : i = RowOf(tr, s) BY <1>2, RowOfFacts
  <2>2. StepScore(i) \in Int BY StepScoreInt
  <2> QED BY <2>1, <2>2, <1>2 DEF RewardsMap
<1> QED BY <1>1, <1>2

(* The summands of StepReturn. *)
LEMMA ReturnTerms ==
  ASSUME BatchOK, NEW tr, NEW s \in Nat \ {0}
  PROVE  /\ IsFiniteSet(s..MaxSteps)
         /\ \E f : /\ f \in [s..MaxSteps -> Int]
                   /\ \A r \in s..MaxSteps : f[r] = Discount[r - s] * RewardsMap(tr, r)
                   /\ StepReturn(tr, s) = SumFunction(f)
<1>1. MaxSteps \in Nat BY ConstantsAssumption
<1>2. IsFiniteSet(s..MaxSteps) BY <1>1, FS_Interval
<1>3. PICK f : f = [r \in s..MaxSteps |-> Discount[r - s] * RewardsMap(tr, r)] OBVIOUS
<1>4. f \in [s..MaxSteps -> Int]
  <2>1. ASSUME NEW r \in s..MaxSteps PROVE Discount[r - s] * RewardsMap(tr, r) \in Int
    <3>1. r - s \in Nat BY <1>1
    <3>2. PICK a \in Int, b \in Int : a = Discount[r - s] /\ b = RewardsMap(tr, r)
      BY <3>1, DiscountIs, RewardsMapInt
    <3>3. a * b \in Int OBVIOUS
    <3> QED BY <3>2, <3>3
  <2> QED BY <2>1, <1>3
<1>5. StepReturn(tr, s) = SumFunction(f) BY <1>3, Zenon DEF StepReturn
<1>6. \A r \in s..MaxSteps : f[r] = Discount[r - s] * RewardsMap(tr, r) BY <1>3
<1> QED BY <1>2, <1>4, <1>5, <1>6

LEMMA StepReturnStep ==
  ASSUME BatchOK, NEW tr, NEW s \in 1..MaxSteps
  PROVE  StepReturn(tr, s) = RewardsMap(tr, s) + Gamma * StepReturn(tr, s + 1)
<1>1. /\ MaxSteps \in Nat /\ Gamma \in Int
      /\ s \in Nat \ {0} /\ s + 1 \in Nat \ {0} /\ s <= MaxSteps
  BY ConstantsAssumption
<1>2. PICK S, V : S = s..MaxSteps /\ V = (s + 1)..MaxSteps OBVIOUS
<1>3. PICK f : /\ f \in [s..MaxSteps -> Int]
               /\ \A r \in s..MaxSteps : f[r] = Discount[r - s] * RewardsMap(tr, r)
               /\ StepReturn(tr, s) = SumFunction(f)
  BY <1>1, ReturnTerms
<1>4. IsFiniteSet(S) /\ f \in [S -> Int] /\ \A r \in S : f[r] = Discount[r - s] * RewardsMap(tr, r)
  BY <1>1, <1>2, <1>3, ReturnTerms
<1>5. PICK e : /\ e \in [(s + 1)..MaxSteps -> Int]
               /\ \A r \in (s + 1)..MaxSteps : e[r] = Discount[r - (s + 1)] * RewardsMap(tr, r)
               /\ StepReturn(tr, s + 1) = SumFunction(e)
  BY <1>1, ReturnTerms
<1>6. /\ IsFiniteSet(V) /\ e \in [V -> Int]
      /\ \A r \in V : e[r] = Discount[r - (s + 1)] * RewardsMap(tr, r)
  BY <1>1, <1>2, <1>5, ReturnTerms
<1>7. V = S \ {s} BY <1>1, <1>2
<1>8. s \in S /\ V \in SUBSET S BY <1>1, <1>2
<1>9. PICK g : IsSum(g, f, S) BY <1>4, SumExists
<1>10. SumFunction(f) = g[S] BY <1>4, <1>9, SumFunctionIs
<1>11. g[S] = f[s] + g[V]
  <2>1. g[S] = f[s] + g[S \ {s}] BY <1>8, <1>9 DEF IsSum
  <2> QED BY <2>1, <1>7, Zenon
<1>12. SumFunction([r \in V |-> f[r]]) = g[V]
  <2>1. IsFiniteSet(S) /\ f \in [S -> Int] /\ V \in SUBSET S BY <1>4, <1>8
  <2> QED BY <2>1, <1>9, SumOnSubset
<1>13. PICK h : h = [r \in V |-> f[r]] OBVIOUS
<1>14. \A r \in V : h[r] = Gamma * e[r]
  <2> SUFFICES ASSUME NEW r \in V PROVE h[r] = Gamma * e[r] OBVIOUS
  <2>1. r - (s + 1) \in Nat /\ r - s = (r - (s + 1)) + 1 BY <1>1, <1>2
  <2>2. PICK d \in Int, b \in Int : d = Discount[r - (s + 1)] /\ b = RewardsMap(tr, r)
    BY <2>1, DiscountIs, RewardsMapInt
  <2>3. Discount[r - s] = Gamma * d BY <2>1, <2>2, DiscountIs
  <2>4. h[r] = (Gamma * d) * b /\ e[r] = d * b BY <1>4, <1>6, <1>8, <1>13, <2>2, <2>3
  <2>5. (Gamma * d) * b = Gamma * (d * b) BY <1>1
  <2> QED BY <2>4, <2>5
<1>15. h \in [V -> Int] BY <1>4, <1>8, <1>13
<1>16. SumFunction(h) = Gamma * SumFunction(e) BY <1>1, <1>6, <1>14, <1>15, SumScale
<1>17. f[s] = RewardsMap(tr, s)
  <2>1. s - s = 0 BY <1>1
  <2>2. f[s] = Discount[s - s] * RewardsMap(tr, s) BY <1>4, <1>8
  <2>3. PICK b \in Int : b = RewardsMap(tr, s) BY RewardsMapInt
  <2>4. f[s] = Discount[0] * b BY <2>1, <2>2, <2>3
  <2>5. f[s] = 1 * b BY <2>4, DiscountIs
  <2> QED BY <2>3, <2>5
<1>18. StepReturn(tr, s) = RewardsMap(tr, s) + Gamma * SumFunction(e)
  BY <1>3, <1>10, <1>11, <1>12, <1>13, <1>16, <1>17, Zenon
<1> QED BY <1>5, <1>18, Zenon

LEMMA NoReturn ==
  ASSUME BatchOK, NEW tr
  PROVE  StepReturn(tr, MaxSteps + 1) = 0
<1>1. MaxSteps \in Nat BY ConstantsAssumption
<1>2. MaxSteps + 1 \in Nat \ {0} BY <1>1
<1>3. PICK f : f \in [(MaxSteps + 1)..MaxSteps -> Int] /\ StepReturn(tr, MaxSteps + 1) = SumFunction(f)
  BY <1>2, ReturnTerms
<1>4. (MaxSteps + 1)..MaxSteps = {} BY <1>1
<1>7. f \in [{} -> Int] BY <1>3, <1>4, Zenon
<1>8. SumFunction(f) = 0 BY <1>7, SumEmpty
<1> QED BY <1>3, <1>8

LEMMA SameStepReturns ==
  ASSUME batch' = batch
  PROVE  \A tr, s : StepReturn(tr, s)' = StepReturn(tr, s)
<1>1. \A tr, s : RewardsMap(tr, s)' = RewardsMap(tr, s) BY SameBatch DEF RewardsMap
<1> QED BY <1>1 DEF StepReturn

LEMMA ReturnInit == ASSUME Init PROVE ReturnInv
BY DEF Init, ReturnInv

LEMMA ReturnReturnStep ==
  ASSUME BatchOK, ReturnInv, estimator = "gigpo", ReturnStep, phase = "returns"
  PROVE  ReturnInv'
<1>1. /\ t \in 0..MaxSteps /\ t > 0 /\ batch' = batch /\ phase' = "returns" /\ t' = t - 1
      /\ \A tr \in Trajectories : lastgae[tr] = StepReturn(tr, t + 1)
      /\ \A i \in Valid : batch[i].step > t => perRow[i] = StepReturn(batch[i].traj, batch[i].step)
      /\ lastgae' = [tr \in Trajectories |-> RewardsMap(tr, t) + Gamma * lastgae[tr]]
      /\ perRow' = [i \in Rows |->
               IF i \in Valid /\ batch[i].step = t THEN lastgae'[batch[i].traj] ELSE perRow[i]]
      /\ estimator' = "gigpo"
  BY DEF ReturnStep, ReturnInv
<1>2. MaxSteps \in Nat /\ t \in 1..MaxSteps /\ t' \in 0..MaxSteps /\ (t - 1) + 1 = t
  BY <1>1, ConstantsAssumption
<1>3. PICK s \in 1..MaxSteps : s = t BY <1>2
<1>4. ASSUME NEW tr \in Trajectories PROVE lastgae'[tr] = StepReturn(tr, s)
  <2>1. lastgae'[tr] = RewardsMap(tr, s) + Gamma * StepReturn(tr, s + 1) BY <1>1, <1>3
  <2> QED BY <2>1, StepReturnStep
<1>5. ASSUME NEW i \in Valid, batch[i].step > t - 1
      PROVE  perRow'[i] = StepReturn(batch[i].traj, batch[i].step)
  <2>1. i \in Rows /\ batch[i].step \in Nat /\ batch[i].traj \in Trajectories
    BY DEF Valid, BatchOK, StepIds
  <2>2. CASE batch[i].step = t
    <3>1. perRow'[i] = lastgae'[batch[i].traj] BY <1>1, <2>1, <2>2
    <3> QED BY <3>1, <1>3, <1>4, <2>1, <2>2
  <2>3. CASE batch[i].step # t
    <3>1. batch[i].step > t BY <2>1, <2>3, <1>5, <1>2
    <3>2. perRow'[i] = perRow[i] BY <1>1, <2>1, <2>3
    <3> QED BY <3>1, <3>2, <1>1
  <2> QED BY <2>2, <2>3
<1>6. \A tr, r : StepReturn(tr, r)' = StepReturn(tr, r) BY <1>1, SameStepReturns
<1>7. Valid' = Valid BY <1>1, SameBatch
<1>8. \A tr \in Trajectories : (lastgae[tr] = StepReturn(tr, t + 1))'
  <2>1. t' + 1 = s BY <1>1, <1>2, <1>3
  <2>2. \A tr : StepReturn(tr, t + 1)' = StepReturn(tr, t' + 1)
    BY <1>6, <1>1, SameBatch DEF StepReturn, RewardsMap
  <2>3. \A tr : StepReturn(tr, t' + 1) = StepReturn(tr, s) BY <2>1
  <2> QED BY <2>2, <2>3, <1>4
<1>9. \A i \in Valid : (batch[i].step > t => perRow[i] = StepReturn(batch[i].traj, batch[i].step))'
  <2>1. t' = t - 1 /\ batch' = batch BY <1>1
  <2>2. \A i : StepReturn(batch[i].traj, batch[i].step)' = StepReturn(batch[i].traj, batch[i].step)
    BY <1>1, SameBatch DEF StepReturn, RewardsMap
  <2> QED BY <2>1, <2>2, <1>5
<1> QED BY <1>1, <1>2, <1>7, <1>8, <1>9 DEF ReturnInv

LEMMA ReturnNext ==
  ASSUME BatchOK, PhaseInv, ReturnInv, [Next]_vars
  PROVE  ReturnInv'
<1>0. batch' = batch /\ estimator' = estimator BY BatchKept, PhaseNext
<1>1. CASE estimator # "gigpo" BY <1>0, <1>1 DEF ReturnInv
<1>2. CASE estimator = "gigpo" /\ ReturnStep
  BY <1>2, ReturnReturnStep DEF ReturnStep
<1>3. /\ Valid' = Valid
      /\ \A i : StepReturn(batch[i].traj, batch[i].step)' = StepReturn(batch[i].traj, batch[i].step)
  BY <1>0, SameBatch DEF StepReturn, RewardsMap
<1>4. CASE estimator = "gigpo" /\ (Dispatch \/ AddRow)
  <2>1. /\ phase \in {"start", "totals"} /\ phase' \in {"start", "totals"} /\ lastgae' = lastgae
    BY <1>4 DEF Dispatch, AddRow, FirstPhase, AllEstimators, OutcomeEstimators
  <2> QED BY <2>1, <1>4 DEF ReturnInv
<1>5. CASE estimator = "gigpo" /\ TotalsDone
  <2>1. /\ phase = "totals" /\ phase' = "returns" /\ lastgae' = lastgae /\ t' = MaxSteps
        /\ MaxSteps \in Nat
    BY <1>5, ConstantsAssumption DEF TotalsDone
  <2>2. \A tr \in Trajectories : lastgae'[tr] = 0 BY <2>1, <1>5 DEF ReturnInv
  <2>3. \A tr : StepReturn(tr, t + 1)' = StepReturn(tr, MaxSteps + 1)
    BY <2>1, <1>0, SameBatch DEF StepReturn, RewardsMap
  <2>4. \A tr \in Trajectories : (lastgae[tr] = StepReturn(tr, t + 1))'
    BY <2>2, <2>3, NoReturn
  <2>5. \A i \in Valid : batch'[i].step <= MaxSteps /\ batch'[i].step \in Nat
    BY <1>0 DEF Valid, BatchOK, StepIds
  <2>6. \A i \in Valid : ~(batch'[i].step > t') BY <2>1, <2>5
  <2>7. t' \in 0..MaxSteps BY <2>1
  <2> QED BY <2>1, <2>4, <2>6, <2>7, <1>3 DEF ReturnInv
<1>6. CASE estimator = "gigpo" /\ ReturnsDone
  <2>1. phase = "returns" /\ phase' = "groups" /\ t = 0 /\ perRow' = perRow
    BY <1>6 DEF ReturnsDone, tables
  <2>2. \A i \in Valid : batch[i].step > t BY <2>1 DEF Valid, BatchOK, StepIds
  <2> QED BY <2>1, <2>2, <1>3, <1>6 DEF ReturnInv
<1>7. CASE estimator = "gigpo" /\ (GroupRow \/ GroupsDone \/ Normalize)
  <2>1. /\ phase \in {"groups", "normalize"} /\ phase' \in {"groups", "normalize", "done"}
        /\ perRow' = perRow
    BY <1>7 DEF GroupRow, GroupsDone, Normalize, tables
  <2> QED BY <2>1, <1>3, <1>7 DEF ReturnInv
<1>8. CASE UNCHANGED vars
  <2>1. lastgae' = lastgae /\ perRow' = perRow /\ phase' = phase /\ t' = t /\ estimator' = estimator
    BY <1>8 DEF vars, loop, tables
  <2>2. \A tr : StepReturn(tr, t + 1)' = StepReturn(tr, t + 1)
    BY <2>1, <1>0, SameBatch DEF StepReturn, RewardsMap
  <2> QED BY <2>1, <2>2, <1>0, <1>3 DEF ReturnInv
<1>9. CASE /\ estimator = "gigpo"
           /\ \/ GaeStep \/ Broadcast \/ EnterStep \/ BackToken \/ LeaveStep \/ RfToken
  BY <1>9 DEF PhaseInv, GaeStep, Broadcast, EnterStep, BackToken, LeaveStep, RfToken
<1> QED BY <1>1, <1>2, <1>4, <1>5, <1>6, <1>7, <1>8, <1>9 DEF Next

LEMMA InitObs == ASSUME Init PROVE ObsOK
<1>1. PICK n \in 1..MaxRows : \E keys \in [1..n -> Trajectories \X StepIds] :
        \E pads \in SUBSET (1..n) :
          \E uid \in [{keys[i][1] : i \in 1..n} -> Prompts] :
             \E kind \in [Range(keys) -> RowKinds] : batch = BatchOf(keys, pads, uid, kind)
  BY DEF Init
<1>2. PICK keys \in [1..n -> Trajectories \X StepIds], pads \in SUBSET (1..n) :
          \E uid \in [{keys[i][1] : i \in 1..n} -> Prompts] :
             \E kind \in [Range(keys) -> RowKinds] : batch = BatchOf(keys, pads, uid, kind)
  BY <1>1
<1>3. PICK uid : \E kind \in [Range(keys) -> RowKinds] : batch = BatchOf(keys, pads, uid, kind)
  BY <1>2
<1>4. PICK kind \in [Range(keys) -> RowKinds] : batch = BatchOf(keys, pads, uid, kind)
  BY <1>3
<1>5. \A i \in Valid : i \in 1..n BY <1>4 DEF BatchOf, Valid, Rows
<1>6. ASSUME NEW i \in Valid PROVE batch[i].obs \in Observations
  <2>1. i \in 1..n BY <1>5
  <2>2. keys[i] \in Range(keys) BY <2>1 DEF Range
  <2>3. kind[keys[i]] \in RowKinds BY <2>2
  <2>4. batch[i].obs = kind[keys[i]][2] BY <1>4, <2>1 DEF BatchOf
  <2> QED BY <2>3, <2>4 DEF Observations
<1> QED BY <1>6 DEF ObsOK

(* What the clusters look like. *)
IsCluster(x, seen) ==
  \E u \in {batch[k].uid : k \in Valid}, o \in Observations, r \in SUBSET seen :
    x = [uid |-> u, rep |-> o, rows |-> r]

LEMMA ClusterShape ==
  ASSUME NEW seen, NEW groups, ClustersOver(groups, seen)
  PROVE  /\ Len(groups) \in Nat /\ DOMAIN groups = 1..Len(groups)
         /\ \A d \in DOMAIN groups : IsCluster(groups[d], seen)
         /\ \A d \in DOMAIN groups : \A k \in groups[d].rows : k \in seen
<1>1. PICK Q : Q = [uid : {batch[k].uid : k \in Valid}, rep : Observations, rows : SUBSET seen]
  OBVIOUS
<1>2. groups \in Seq(Q) BY <1>1 DEF ClustersOver
<1>3. Len(groups) \in Nat /\ DOMAIN groups = 1..Len(groups) /\ \A d \in DOMAIN groups : groups[d] \in Q
  BY <1>2
<1>4. \A q \in Q : IsCluster(q, seen) BY <1>1 DEF IsCluster
<1>5. \A q \in Q : \A k \in q.rows : k \in seen BY <1>1
<1> QED BY <1>3, <1>4, <1>5

(* A row added to the clusters.                                             *)
LEMMA NewCluster ==
  ASSUME ObsOK, NEW seen \in SUBSET Valid, NEW i \in Valid, i \notin seen,
         NEW groups, ClustersOver(groups, seen), Fitting(groups, i) = {}
  PROVE  ClustersOver(Placed(groups, i), seen \cup {i})
<1>1. PICK R : R = [uid : {batch[k].uid : k \in Valid}, rep : Observations, rows : SUBSET (seen \cup {i})]
  OBVIOUS
<1>2. PICK u \in {batch[k].uid : k \in Valid}, o \in Observations :
        u = batch[i].uid /\ o = batch[i].obs
  BY DEF ObsOK
<1>3. PICK new : new = [uid |-> u, rep |-> o, rows |-> {i}] OBVIOUS
<1>4. new \in R /\ new.uid = u /\ new.rep = o /\ new.rows = {i} BY <1>1, <1>3
<1>5. groups \in Seq(R)
  <2>1. PICK Q : Q = [uid : {batch[k].uid : k \in Valid}, rep : Observations, rows : SUBSET seen]
    OBVIOUS
  <2>2. groups \in Seq(Q) BY <2>1 DEF ClustersOver
  <2>3. Q \subseteq R BY <2>1, <1>1
  <2>4. Len(groups) \in Nat /\ groups \in [1..Len(groups) -> Q] BY <2>2
  <2>5. groups \in [1..Len(groups) -> R] BY <2>3, <2>4
  <2> QED BY <2>4, <2>5, SeqDef
<1>6. PICK n \in Nat : n = Len(groups) /\ DOMAIN groups = 1..n BY <1>5
<1>7. PICK next : next = Append(groups, new) OBVIOUS
<1>8. /\ next \in Seq(R) /\ DOMAIN next = 1..n + 1
      /\ \A d \in 1..n : next[d] = groups[d]
      /\ next[n + 1] = new
  BY <1>4, <1>5, <1>6, <1>7
<1>9. Placed(groups, i) = next BY <1>2, <1>3, <1>7 DEF Placed
<1>10. \A d \in 1..n : ~Fits(i, groups[d]) BY <1>6 DEF Fitting
<1>11. Fits(i, new)
  <2>1. <<o, o>> \in Similar BY ConstantsAssumption
  <2> QED BY <2>1, <1>2, <1>4 DEF Fits, Alike
<1>12. \A d \in 1..n : \A k \in groups[d].rows : k \in seen BY <1>6, ClusterShape
<1>13. ASSUME NEW k \in seen \cup {i}, NEW d \in 1..n + 1
       PROVE  k \in next[d].rows <=> FirstFit(next, k, d)
  <2>1. CASE d \in 1..n
    <3>1. \A e \in DOMAIN next : e < d => e \in 1..n BY <1>8, <2>1
    <3>2. \A e \in 1..n : e \in DOMAIN next BY <1>8
    <3>3. FirstFit(next, k, d) <=> FirstFit(groups, k, d)
      BY <1>6, <1>8, <2>1, <3>1, <3>2 DEF FirstFit
    <3>4. CASE k = i
      <4>1. ~FirstFit(groups, k, d) BY <1>10, <2>1, <3>4 DEF FirstFit
      <4>2. k \notin next[d].rows BY <1>8, <1>12, <2>1, <3>4
      <4> QED BY <3>3, <4>1, <4>2
    <3>5. CASE k # i
      <4>1. k \in groups[d].rows <=> FirstFit(groups, k, d)
        BY <1>6, <2>1, <3>5 DEF ClustersOver
      <4> QED BY <1>8, <2>1, <3>3, <4>1
    <3> QED BY <3>4, <3>5
  <2>2. CASE d = n + 1
    <3>1. next[d] = new BY <1>8, <2>2
    <3>2. CASE k = i
      <4>1. \A e \in DOMAIN next : e < d => e \in 1..n BY <1>8, <2>2
      <4>2. FirstFit(next, k, d) BY <1>8, <1>10, <1>11, <3>1, <3>2, <4>1 DEF FirstFit
      <4> QED BY <1>4, <3>1, <3>2, <4>2
    <3>3. CASE k # i
      <4>1. PICK c \in 1..n : k \in groups[c].rows BY <1>6, <3>3 DEF ClustersOver
      <4>2. FirstFit(groups, k, c) BY <1>6, <3>3, <4>1 DEF ClustersOver
      <4>3. Fits(k, next[c]) /\ c < d /\ c \in DOMAIN next
        BY <1>8, <2>2, <4>2 DEF FirstFit
      <4>4. ~FirstFit(next, k, d) BY <4>3 DEF FirstFit
      <4> QED BY <1>4, <3>1, <3>3, <4>4
    <3> QED BY <3>2, <3>3
  <2> QED BY <2>1, <2>2
<1>14. ASSUME NEW k \in seen \cup {i} PROVE \E d \in 1..n + 1 : k \in next[d].rows
  <2>1. CASE k = i
    <3>1. n + 1 \in 1..n + 1 OBVIOUS
    <3> QED BY <3>1, <2>1, <1>4, <1>8
  <2>2. CASE k # i
    <3>1. PICK c \in 1..n : k \in groups[c].rows BY <1>6, <2>2 DEF ClustersOver
    <3>2. c \in 1..n + 1 OBVIOUS
    <3> QED BY <3>1, <3>2, <1>8
  <2> QED BY <2>1, <2>2
<1>15. ClustersOver(next, seen \cup {i})
  BY <1>1, <1>8, <1>13, <1>14, Zenon DEF ClustersOver
<1> QED BY <1>9, <1>15

LEMMA JoinedCluster ==
  ASSUME NEW seen \in SUBSET Valid, NEW i \in Valid, i \notin seen,
         NEW groups, ClustersOver(groups, seen), Fitting(groups, i) # {}
  PROVE  ClustersOver(Placed(groups, i), seen \cup {i})
<1>1. PICK n \in Nat : n = Len(groups) /\ DOMAIN groups = 1..n BY ClusterShape
<1>2. PICK first : first = CHOOSE c \in Fitting(groups, i) : \A d \in Fitting(groups, i) : c <= d
  OBVIOUS
<1>3. first \in Fitting(groups, i) /\ \A d \in Fitting(groups, i) : first <= d
  <2>0. \A c \in Fitting(groups, i) : c \in Nat BY <1>1 DEF Fitting
  <2>1. PICK F : F = Fitting(groups, i) OBVIOUS
  <2>2. F # {} /\ F \in SUBSET Nat BY <2>0, <2>1
  <2>3. \E m \in F : \A k \in F : m <= k BY <2>2, NatLeast
  <2>4. \E m \in Fitting(groups, i) : \A k \in Fitting(groups, i) : m <= k
    BY <2>1, <2>3, Zenon
  <2> QED BY <2>4, <1>2
<1>4. first \in 1..n /\ Fits(i, groups[first]) /\ \A d \in 1..n : Fits(i, groups[d]) => first <= d
  BY <1>1, <1>3 DEF Fitting
<1>5. PICK next : next = [groups EXCEPT ![first].rows = @ \cup {i}] OBVIOUS
<1>6. Placed(groups, i) = next BY <1>2, <1>5, Zenon DEF Placed
<1>7. DOMAIN next = 1..n /\ \A d \in 1..n : d # first => next[d] = groups[d]
  BY <1>1, <1>5
<1>8. PICK u \in {batch[k].uid : k \in Valid}, o \in Observations, r \in SUBSET seen :
        groups[first] = [uid |-> u, rep |-> o, rows |-> r]
  <2>1. IsCluster(groups[first], seen) BY <1>1, <1>4, ClusterShape
  <2> QED BY <2>1 DEF IsCluster
<1>9. next[first] = [uid |-> u, rep |-> o, rows |-> r \cup {i}]
  <2>1. next[first] = [groups[first] EXCEPT !.rows = @ \cup {i}] BY <1>1, <1>4, <1>5
  <2> QED BY <2>1, <1>8
<1>10. \A d \in 1..n : next[d].uid = groups[d].uid /\ next[d].rep = groups[d].rep
  BY <1>7, <1>8, <1>9
<1>11. \A d \in 1..n : \A k : k \in next[d].rows <=> k \in groups[d].rows \/ (d = first /\ k = i)
  <2> SUFFICES ASSUME NEW d \in 1..n, NEW k
               PROVE  k \in next[d].rows <=> k \in groups[d].rows \/ (d = first /\ k = i)
    OBVIOUS
  <2>1. CASE d = first
    <3>1. next[d].rows = r \cup {i} /\ groups[d].rows = r BY <2>1, <1>8, <1>9
    <3> QED BY <2>1, <3>1
  <2>2. CASE d # first BY <2>2, <1>7
  <2> QED BY <2>1, <2>2
<1>12. \A d \in 1..n : \A k : Fits(k, next[d]) <=> Fits(k, groups[d])
  BY <1>10 DEF Fits
<1>13. \A d \in 1..n : \A k : FirstFit(next, k, d) <=> FirstFit(groups, k, d)
  BY <1>1, <1>7, <1>12 DEF FirstFit
<1>14. \A d \in 1..n : i \notin groups[d].rows BY <1>1, ClusterShape
<1>15. ASSUME NEW k \in seen \cup {i}, NEW d \in 1..n
       PROVE  k \in next[d].rows <=> FirstFit(next, k, d)
  <2>1. CASE k = i
    <3>1. k \in next[d].rows <=> d = first BY <2>1, <1>11, <1>14
    <3>2. FirstFit(groups, i, d) <=> d = first
      <4>1. FirstFit(groups, i, first) BY <1>1, <1>4 DEF FirstFit
      <4>2. d # first /\ Fits(i, groups[d]) => first < d BY <1>4
      <4>3. d # first => ~FirstFit(groups, i, d) BY <1>1, <1>4, <4>2 DEF FirstFit
      <4> QED BY <4>1, <4>3
    <3> QED BY <2>1, <3>1, <3>2, <1>13
  <2>2. CASE k # i
    <3>1. k \in groups[d].rows <=> FirstFit(groups, k, d) BY <2>2, <1>1 DEF ClustersOver
    <3> QED BY <2>2, <3>1, <1>11, <1>13
  <2> QED BY <2>1, <2>2
<1>16. ASSUME NEW k \in seen \cup {i} PROVE \E d \in 1..n : k \in next[d].rows
  <2>1. CASE k = i BY <2>1, <1>4, <1>11
  <2>2. CASE k # i
    <3>1. PICK c \in 1..n : k \in groups[c].rows BY <1>1, <2>2 DEF ClustersOver
    <3> QED BY <3>1, <1>11
  <2> QED BY <2>1, <2>2
<1>17. next \in Seq([uid : {batch[k].uid : k \in Valid}, rep : Observations,
                     rows : SUBSET (seen \cup {i})])
  <2>1. PICK R : R = [uid : {batch[k].uid : k \in Valid}, rep : Observations,
                      rows : SUBSET (seen \cup {i})]
    OBVIOUS
  <2>2. ASSUME NEW d \in 1..n PROVE next[d] \in R
    <3>1. CASE d = first BY <3>1, <2>1, <1>8, <1>9
    <3>2. CASE d # first
      <4>1. IsCluster(groups[d], seen) BY <1>1, ClusterShape
      <4>2. groups[d] \in R BY <4>1, <2>1 DEF IsCluster
      <4> QED BY <4>2, <3>2, <1>7
    <3> QED BY <3>1, <3>2
  <2>3. next \in [1..n -> R]
    <3>1. next = [d \in 1..n |-> next[d]] BY <1>1, <1>5
    <3> QED BY <3>1, <2>2
  <2>4. next \in Seq(R) BY <2>3, SeqDef
  <2> QED BY <2>1, <2>4
<1>18. ClustersOver(next, seen \cup {i})
  BY <1>7, <1>15, <1>16, <1>17, Zenon DEF ClustersOver
<1> QED BY <1>6, <1>18, Zenon

LEMMA SameClusters ==
  ASSUME batch' = batch
  PROVE  /\ ObsOK' <=> ObsOK
         /\ \A groups, seen : ClustersOver(groups, seen)' <=> ClustersOver(groups, seen)
<1>1. Valid' = Valid BY SameBatch
<1>2. \A i, c : Fits(i, c)' <=> Fits(i, c) BY DEF Fits, Alike
<1>3. \A groups, i, c : FirstFit(groups, i, c)' <=> FirstFit(groups, i, c)
  BY <1>2, Zenon DEF FirstFit
<1>4. \A groups, seen : ClustersOver(groups, seen)' <=> ClustersOver(groups, seen)
  BY <1>1, <1>3, Zenon DEF ClustersOver
<1>5. ObsOK' <=> ObsOK BY <1>1 DEF ObsOK
<1> QED BY <1>4, <1>5

LEMMA ClusterInit == ASSUME Init PROVE ClusterInv
<1>1. phase = "start" /\ clusters = <<>> BY DEF Init
<1>2. PICK Q : Q = [uid : {batch[i].uid : i \in Valid}, rep : Observations, rows : SUBSET {}]
  OBVIOUS
<1>3. <<>> \in Seq(Q) /\ DOMAIN <<>> = {} OBVIOUS
<1>4. ClustersOver(<<>>, {}) BY <1>2, <1>3, Zenon DEF ClustersOver
<1>5. Grouped = {} BY <1>1 DEF Grouped
<1> QED BY <1>1, <1>4, <1>5, Zenon DEF ClusterInv

LEMMA ClusterNext ==
  ASSUME BatchShape, ObsOK, PhaseInv, ClusterInv, [Next]_vars
  PROVE  ClusterInv'
<1>0. batch' = batch /\ estimator' = estimator BY BatchKept, PhaseNext
<1>1. CASE estimator # "gigpo" BY <1>0, <1>1 DEF ClusterInv
<1>2. ASSUME estimator = "gigpo", NEW seen, seen = Grouped', ClustersOver(clusters', seen),
             phase' = "groups" => t' \in 1..Len(batch) + 1
      PROVE  ClusterInv'
  <2>1. ClustersOver(clusters, Grouped)' <=> ClustersOver(clusters', Grouped')
    BY <1>0, SameClusters, Zenon
  <2>2. ClustersOver(clusters', Grouped') BY <1>2, Zenon
  <2> QED BY <2>1, <2>2, <1>0, <1>2 DEF ClusterInv
<1>3. Valid' = Valid BY <1>0, SameBatch
<1>4. CASE estimator = "gigpo" /\ GroupRow
  <2>1. /\ phase = "groups" /\ phase' = "groups" /\ t <= Len(batch) /\ t' = t + 1
        /\ clusters' = IF t \in Valid THEN Placed(clusters, t) ELSE clusters
        /\ t \in 1..Len(batch) + 1 /\ Len(batch) \in Nat
    BY <1>4 DEF GroupRow, ClusterInv, BatchShape
  <2>2. PICK seen \in SUBSET Valid : seen = Grouped BY <2>1 DEF Grouped
  <2>3. ClustersOver(clusters, seen) BY <1>4, <2>2, Zenon DEF ClusterInv
  <2>4. /\ Grouped' = IF t \in Valid THEN seen \cup {t} ELSE seen
        /\ t \notin seen
    <3>1. \A i \in Valid : i \in Nat BY ValidFinite DEF BatchShape
    <3>2. Grouped' = {i \in Valid : i < t + 1} /\ seen = {i \in Valid : i < t}
      BY <2>1, <2>2, <1>3 DEF Grouped
    <3>3. \A i \in Valid : i < t + 1 <=> i < t \/ i = t BY <2>1, <3>1
    <3>4. ~(t < t) BY <2>1
    <3> QED BY <3>2, <3>3, <3>4
  <2>5. t' \in 1..Len(batch) + 1 BY <2>1
  <2>6. PICK later : later = Grouped' OBVIOUS
  <2>7. ClustersOver(clusters', later)
    <3>1. CASE t \in Valid
      <4>1. PICK i \in Valid : i = t BY <3>1
      <4>2. i \notin seen BY <2>4, <4>1
      <4>3. ClustersOver(Placed(clusters, i), seen \cup {i})
        <5>1. PICK groups : groups = clusters OBVIOUS
        <5>2. ClustersOver(groups, seen) BY <2>3, <5>1
        <5>3. ClustersOver(Placed(groups, i), seen \cup {i})
          BY <4>2, <5>2, NewCluster, JoinedCluster
        <5> QED BY <5>1, <5>3
      <4>4. clusters' = Placed(clusters, i) BY <2>1, <3>1, <4>1
      <4>5. later = seen \cup {i} BY <2>4, <2>6, <3>1, <4>1
      <4> QED BY <4>3, <4>4, <4>5, Zenon
    <3>2. CASE t \notin Valid
      <4>1. clusters' = clusters /\ later = seen BY <2>1, <2>4, <2>6, <3>2
      <4> QED BY <4>1, <2>3, Zenon
    <3> QED BY <3>1, <3>2
  <2> QED BY <1>2, <1>4, <2>5, <2>6, <2>7
<1>5. ASSUME estimator = "gigpo", clusters' = clusters, Grouped' = Grouped,
             phase' = "groups" => t' \in 1..Len(batch) + 1
      PROVE  ClusterInv'
  <2>1. PICK seen : seen = Grouped' OBVIOUS
  <2>2. ClustersOver(clusters', seen) BY <1>5, <2>1, Zenon DEF ClusterInv
  <2> QED BY <1>2, <1>5, <2>1, <2>2
<1>6. CASE estimator = "gigpo" /\ (Dispatch \/ AddRow \/ TotalsDone \/ ReturnStep)
  <2>1. /\ phase \in {"start", "totals", "returns"} /\ phase' \in {"start", "totals", "returns"}
        /\ clusters' = clusters
    BY <1>6 DEF Dispatch, AddRow, TotalsDone, ReturnStep, FirstPhase, AllEstimators,
                OutcomeEstimators, tables
  <2>2. Grouped = {} /\ Grouped' = {} BY <2>1 DEF Grouped
  <2> QED BY <1>5, <1>6, <2>1, <2>2
<1>7. CASE estimator = "gigpo" /\ ReturnsDone
  <2>1. phase = "returns" /\ phase' = "groups" /\ t' = 1 /\ clusters' = clusters
    BY <1>7 DEF ReturnsDone, tables
  <2>2. \A i \in Valid : i \in Nat /\ ~(i < 1) BY ValidFinite DEF BatchShape
  <2>3. Grouped = {} /\ Grouped' = {} BY <1>3, <2>1, <2>2 DEF Grouped
  <2>4. 1 \in 1..Len(batch) + 1 BY DEF BatchShape
  <2> QED BY <1>5, <1>7, <2>1, <2>3, <2>4
<1>8. CASE estimator = "gigpo" /\ GroupsDone
  <2>1. /\ phase = "groups" /\ phase' = "normalize" /\ clusters' = clusters
        /\ t > Len(batch) /\ t \in 1..Len(batch) + 1
    BY <1>8 DEF GroupsDone, tables, ClusterInv
  <2>2. \A i \in Valid : i < t BY <2>1, ValidFinite DEF BatchShape
  <2>3. Grouped = Valid /\ Grouped' = Valid BY <1>3, <2>1, <2>2 DEF Grouped
  <2> QED BY <1>5, <1>8, <2>1, <2>3
<1>9. CASE estimator = "gigpo" /\ Normalize
  <2>1. phase = "normalize" /\ phase' = "done" /\ clusters' = clusters
    BY <1>9 DEF Normalize, tables
  <2>2. Grouped = Valid /\ Grouped' = Valid BY <1>3, <2>1 DEF Grouped
  <2> QED BY <1>5, <1>9, <2>1, <2>2
<1>10. CASE estimator = "gigpo" /\ UNCHANGED vars
  <2>1. phase' = phase /\ t' = t /\ clusters' = clusters BY <1>10 DEF vars, loop, tables
  <2>2. Grouped' = Grouped BY <1>3, <2>1 DEF Grouped
  <2> QED BY <1>5, <1>10, <2>1, <2>2 DEF ClusterInv
<1>11. CASE /\ estimator = "gigpo"
            /\ \/ GaeStep \/ Broadcast \/ EnterStep \/ BackToken \/ LeaveStep \/ RfToken
  BY <1>11 DEF PhaseInv, GaeStep, Broadcast, EnterStep, BackToken, LeaveStep, RfToken
<1> QED BY <1>1, <1>4, <1>6, <1>7, <1>8, <1>9, <1>10, <1>11 DEF Next

(* The step group of a row is the cluster it is in. *)
LEMMA GroupIsCluster ==
  ASSUME ClustersOver(clusters, Valid), NEW c \in DOMAIN clusters, NEW i \in clusters[c].rows
  PROVE  /\ i \in Valid
         /\ \A d \in DOMAIN clusters : i \in clusters[d].rows <=> d = c
         /\ StepGroup(i) = clusters[c].rows
         /\ \A k \in clusters[c].rows : k \in Valid
         /\ clusters[c].uid = batch[i].uid
<1>1. /\ Len(clusters) \in Nat /\ DOMAIN clusters = 1..Len(clusters)
      /\ \A d \in DOMAIN clusters : \A k \in clusters[d].rows : k \in Valid
  BY ClusterShape
<1>2. i \in Valid BY <1>1
<1>3. \A d \in DOMAIN clusters : i \in clusters[d].rows <=> FirstFit(clusters, i, d)
  BY <1>2 DEF ClustersOver
<1>4. FirstFit(clusters, i, c) BY <1>3
<1>5. ASSUME NEW d \in DOMAIN clusters, i \in clusters[d].rows PROVE d = c
  <2>1. FirstFit(clusters, i, d) BY <1>3, <1>5
  <2>2. ~(c < d) /\ ~(d < c) BY <1>4, <2>1 DEF FirstFit
  <2>3. c \in Int /\ d \in Int BY <1>1
  <2> QED BY <2>2, <2>3
<1>6. {d \in DOMAIN clusters : i \in clusters[d].rows} = {c} BY <1>5
<1>7. StepGroup(i) = clusters[c].rows
  <2>1. {clusters[d].rows : d \in {c}} = {clusters[c].rows} OBVIOUS
  <2>2. StepGroup(i) = UNION {clusters[c].rows} BY <1>6, <2>1, Zenon DEF StepGroup
  <2> QED BY <2>2
<1>8. clusters[c].uid = batch[i].uid BY <1>4 DEF FirstFit, Fits
<1> QED BY <1>1, <1>2, <1>5, <1>7, <1>8

LEMMA Groups ==
  ASSUME ClustersOver(clusters, Valid)
  PROVE  StepsGrouped
<1>1. ASSUME NEW i \in Valid
      PROVE  Cardinality({c \in DOMAIN clusters : i \in clusters[c].rows}) = 1
  <2>1. PICK c \in DOMAIN clusters : i \in clusters[c].rows BY DEF ClustersOver
  <2>2. {d \in DOMAIN clusters : i \in clusters[d].rows} = {c} BY <2>1, GroupIsCluster
  <2> QED BY <2>2, FS_Singleton
<1>2. ASSUME NEW i \in Valid, NEW k \in Valid,
             batch[i].uid = batch[k].uid, batch[i].obs = batch[k].obs
      PROVE  StepGroup(i) = StepGroup(k)
  <2>1. PICK c \in DOMAIN clusters : i \in clusters[c].rows BY DEF ClustersOver
  <2>2. FirstFit(clusters, i, c) BY <2>1 DEF ClustersOver
  <2>3. \A x : Fits(i, x) <=> Fits(k, x) BY <1>2 DEF Fits
  <2>4. FirstFit(clusters, k, c) BY <2>2, <2>3 DEF FirstFit
  <2>5. k \in clusters[c].rows BY <2>4 DEF ClustersOver
  <2>6. StepGroup(i) = clusters[c].rows BY <2>1, GroupIsCluster
  <2>7. StepGroup(k) = clusters[c].rows BY <2>5, GroupIsCluster
  <2> QED BY <2>6, <2>7
<1>3. ASSUME NEW i \in Valid, NEW k \in Valid, StepGroup(i) = StepGroup(k)
      PROVE  batch[i].uid = batch[k].uid
  <2>1. PICK c \in DOMAIN clusters : i \in clusters[c].rows BY DEF ClustersOver
  <2>2. PICK d \in DOMAIN clusters : k \in clusters[d].rows BY DEF ClustersOver
  <2>3. StepGroup(i) = clusters[c].rows /\ clusters[c].uid = batch[i].uid
    BY <2>1, GroupIsCluster
  <2>4. StepGroup(k) = clusters[d].rows BY <2>2, GroupIsCluster
  <2>5. k \in clusters[c].rows BY <1>3, <2>2, <2>3, <2>4
  <2>6. clusters[c].uid = batch[k].uid BY <2>5, GroupIsCluster
  <2> QED BY <2>3, <2>6
<1> QED BY <1>1, <1>2, <1>3 DEF StepsGrouped

(* With unbroken responses, the return of a step is that of its scores.     *)
LEMMA ReturnIs ==
  ASSUME BatchOK, \A i \in Valid : Unbroken(i), NEW tr, NEW s \in Nat \ {0}
  PROVE  StepReturn(tr, s) = ReturnFrom(tr, s) /\ StepReturn(tr, s) \in Int
<1>1. PICK f : /\ f \in [s..MaxSteps -> Int]
               /\ \A r \in s..MaxSteps : f[r] = Discount[r - s] * RewardsMap(tr, r)
               /\ StepReturn(tr, s) = SumFunction(f)
  BY ReturnTerms
<1>2. PICK S : S = s..MaxSteps OBVIOUS
<1>3. IsFiniteSet(S) /\ f \in [S -> Int] BY <1>1, <1>2, ReturnTerms
<1>4. PICK T : T = {x \in s..MaxSteps : RowOf(tr, x) # None} OBVIOUS
<1>5. T \in SUBSET S BY <1>2, <1>4
<1>6. ASSUME NEW r \in S, r \notin T PROVE f[r] = 0
  <2>1. RewardsMap(tr, r) = 0 BY <1>2, <1>4, <1>6 DEF RewardsMap
  <2>2. r - s \in Nat
    <3>1. MaxSteps \in Nat BY ConstantsAssumption
    <3> QED BY <3>1, <1>2
  <2>3. PICK d \in Int : d = Discount[r - s] BY <2>2, DiscountIs
  <2>4. d * 0 = 0 OBVIOUS
  <2> QED BY <1>1, <1>2, <2>1, <2>3, <2>4
<1>7. ASSUME NEW r \in T PROVE f[r] = Discount[r - s] * Score[<<tr, r>>]
  <2>1. RowOf(tr, r) # None /\ r \in s..MaxSteps BY <1>4
  <2>2. PICK k \in Valid : k = RowOf(tr, r) /\ Key(k) = <<tr, r>> BY <2>1, RowOfFacts
  <2>3. RewardsMap(tr, r) = Score[<<tr, r>>] BY <2>1, <2>2, UnbrokenScore DEF RewardsMap
  <2> QED BY <1>1, <2>1, <2>3
<1>8. SumFunction(f) = SumFunction([r \in T |-> f[r]])
  <2>1. \A r \in S \ T : f[r] = 0 BY <1>6
  <2> QED BY <2>1, <1>3, <1>5, SumWhere
<1>9. [r \in T |-> f[r]] = [r \in T |-> Discount[r - s] * Score[<<tr, r>>]] BY <1>7
<1>10. ReturnFrom(tr, s) = SumFunction([r \in T |-> f[r]]) BY <1>4, <1>9, Zenon DEF ReturnFrom
<1>11. SumFunction(f) \in Int BY <1>3, SumInt
<1>12. StepReturn(tr, s) = ReturnFrom(tr, s) BY <1>1, <1>8, <1>10, Zenon
<1> QED BY <1>1, <1>11, <1>12, Zenon

(* What Normalize makes of the step group of a row. *)
LEMMA GigpoRow ==
  ASSUME BatchOK, BatchShape, TotalsInv, NormalInv, ReturnInv, ClusterInv,
         phase = "done", estimator = "gigpo", \A i \in Valid : Unbroken(i),
         NEW i \in Valid,
         NEW outcomes, outcomes = [tr \in TrajectoriesOf(batch[i].uid) |-> Outcome(tr)],
         NEW returns,
         returns = [k \in StepGroup(i) |-> ReturnFrom(batch[k].traj, batch[k].step)],
         NEW n, n = Cardinality(StepGroup(i))
  PROVE  /\ stepDivisor[i] = n
         /\ stepAdv[i][1] = StepAdvantageW * (n * returns[i] - SumFunction(returns))
         /\ stds[i] = IF GigpoMode = "mean_norm" THEN <<>> ELSE <<outcomes, returns>>
<1>1. ClustersOver(clusters, Valid) BY DEF ClusterInv, Grouped
<1>2. PICK c \in DOMAIN clusters : i \in clusters[c].rows BY <1>1 DEF ClustersOver
<1>3. PICK G \in SUBSET Valid : G = StepGroup(i) /\ i \in G
  <2>1. StepGroup(i) = clusters[c].rows /\ \A m \in clusters[c].rows : m \in Valid
    BY <1>1, <1>2, GroupIsCluster
  <2> QED BY <2>1, <1>2
<1>4. IsFiniteSet(G) BY ValidFinite, FS_Subset
<1>5. PICK C \in Nat : C = Cardinality(G) /\ C = n BY <1>3, <1>4, FS_CardinalityType
<1>6. ASSUME NEW m \in Valid
      PROVE  /\ perRow[m] = ReturnFrom(batch[m].traj, batch[m].step) /\ perRow[m] \in Int
  <2>1. perRow[m] = StepReturn(batch[m].traj, batch[m].step) BY DEF ReturnInv
  <2>2. batch[m].step \in Nat \ {0} BY DEF BatchOK, Valid, StepIds
  <2> QED BY <2>1, <2>2, ReturnIs
<1>7. [k \in G |-> perRow[k]] = [k \in G |-> ReturnFrom(batch[k].traj, batch[k].step)]
  BY <1>6
<1>8. returns = [k \in G |-> perRow[k]] BY <1>3, <1>7, Zenon
<1>9. PICK u \in Int : u = perRow[i] /\ u = returns[i] BY <1>3, <1>6, <1>8
<1>10. PICK s \in Int : s = SumFunction(returns)
  <2>1. returns \in [G -> Int] BY <1>6, <1>8
  <2>2. SumFunction(returns) \in Int BY <2>1, <1>4, SumInt
  <2> QED BY <2>2
<1>11. StepNumerator(i) = C * u - s
  BY <1>3, <1>5, <1>8, <1>9, <1>10, Zenon DEF StepNumerator
<1>12. 1 \in Tokens /\ batch[i].mask[1] = 1
  BY UnbrokenScore, ConstantsAssumption DEF Tokens
<1>13. estimator \in OutcomeEstimators BY DEF OutcomeEstimators
<1>14. /\ stepDivisor[i] = Cardinality(StepGroup(i))
       /\ stepAdv[i][1] = StepAdvantageW * StepNumerator(i) * batch[i].mask[1]
       /\ stds[i] = Stds(i)
  BY <1>12, <1>13, Zenon DEF NormalInv
<1>15. stepAdv[i][1] = StepAdvantageW * (C * u - s)
  <2>1. PICK W \in Int : W = StepAdvantageW BY ConstantsAssumption
  <2>2. PICK v \in Int : v = C * u - s
    <3>1. C * u - s \in Int OBVIOUS
    <3> QED BY <3>1
  <2>3. stepAdv[i][1] = W * v * 1 BY <1>11, <1>12, <1>14, <2>1, <2>2, Zenon
  <2>4. W * v * 1 = W * v OBVIOUS
  <2> QED BY <2>1, <2>2, <2>3, <2>4, Zenon
<1>16. stds[i] = IF GigpoMode = "mean_norm" THEN <<>> ELSE <<outcomes, returns>>
  <2>1. PICK tr : tr = batch[i].traj OBVIOUS
  <2>2. PICK all : all = TrajectoriesOf(batch[i].uid) OBVIOUS
  <2>3. total = TotalsOver(Valid) BY <1>13, DoneTotals
  <2>4. GroupOf(tr) = all BY <2>1, <2>2, <2>3, GroupIs
  <2>5. \A x \in all : total[x].sum = Outcome(x)
    <3> TAKE x \in all
    <3>1. PICK k \in Valid : x = batch[k].traj BY <2>2 DEF TrajectoriesOf
    <3> QED BY <3>1, <2>3, TotalIsOutcome
  <2>6. [x \in all |-> total[x].sum] = [x \in all |-> Outcome(x)] BY <2>5
  <2>7. outcomes = [x \in GroupOf(tr) |-> total[x].sum] BY <2>2, <2>4, <2>6, Zenon
  <2>8. Stds(i) = IF GigpoMode = "mean_norm" THEN <<>> ELSE <<outcomes, returns>>
    BY <2>1, <2>7, <1>3, <1>8, Zenon DEF Stds
  <2> QED BY <2>8, <1>14, Zenon
<1> QED BY <1>5, <1>3, <1>9, <1>10, <1>14, <1>15, <1>16, Zenon

(* With gigpo, in any order of the rows, with any padding and in both of    *)
(* its modes, the second part of a step's advantage is the difference of    *)
(* its own discounted return and the mean of those of the steps of its      *)
(* prompt that saw the same; each part is divided by the deviation of its   *)
(* own group, the trajectories of the prompt or those steps                 *)
(* (compute_step_discounted_returns, _build_step_groups and                 *)
(* compute_gigpo_outcome_advantage).                                        *)
THEOREM GigpoCorrect == Spec => []GigpoAdvantages
<1> DEFINE Inv == /\ BatchOK /\ BatchShape /\ ObsOK /\ PhaseInv /\ TotalsInv /\ NormalInv
                  /\ ReturnInv /\ ClusterInv
<1>1. Init => Inv
  BY InitBatch, InitShape, InitObs, PhaseInit, TotalsInit, NormalInit, ReturnInit, ClusterInit,
     ConstantsAssumption
<1>2. Inv /\ [Next]_vars => Inv'
  <2> SUFFICES ASSUME Inv, [Next]_vars PROVE Inv' OBVIOUS
  <2>1. BatchOK' /\ PhaseInv' BY BatchNext, PhaseNext
  <2>2. BatchShape' BY BatchKept, SameTotals
  <2>3. ObsOK' BY BatchKept, SameClusters
  <2>4. TotalsInv' BY TotalsNext
  <2>5. NormalInv' BY NormalNext
  <2>6. ReturnInv' BY ReturnNext
  <2>7. ClusterInv' BY ClusterNext
  <2> QED BY <2>1, <2>2, <2>3, <2>4, <2>5, <2>6, <2>7
<1>3. Inv => GigpoAdvantages
  <2> SUFFICES ASSUME Inv, phase = "done", estimator = "gigpo" PROVE GigpoAdvantages
    BY DEF GigpoAdvantages, Done
  <2>1. StepsGrouped
    <3>1. ClustersOver(clusters, Valid) BY DEF ClusterInv, Grouped
    <3> QED BY <3>1, Groups
  <2>2. ASSUME \A i \in Valid : Unbroken(i), NEW i \in Valid,
               NEW outcomes, outcomes = [tr \in TrajectoriesOf(batch[i].uid) |-> Outcome(tr)],
               NEW returns,
               returns = [k \in StepGroup(i) |-> ReturnFrom(batch[k].traj, batch[k].step)],
               NEW n, n = Cardinality(StepGroup(i))
        PROVE  /\ stepDivisor[i] = n
               /\ stepAdv[i][1] = StepAdvantageW * (n * returns[i] - SumFunction(returns))
               /\ stds[i] = IF GigpoMode = "mean_norm" THEN <<>> ELSE <<outcomes, returns>>
    BY <2>2, GigpoRow
  <2> HIDE DEF Inv
  <2> QED BY <2>1, <2>2, Zenon DEF GigpoAdvantages
<1> HIDE DEF Inv
<1>4. Spec => []Inv BY <1>1, <1>2, PTL DEF Spec
<1> QED BY <1>3, <1>4, PTL

================================================================================
