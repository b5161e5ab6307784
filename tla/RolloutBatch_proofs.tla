-------------------------- MODULE RolloutBatch_proofs --------------------------
(***************************************************************************)
(* Proofs about RolloutBatch, for every set of batch sizes, number of      *)
(* trajectories per prompt, number of workers and set of replicas: the     *)
(* chunks of a batch leave no sample out and share none; no agent flow     *)
(* runs while a replica sleeps; the rows the trainer trains on are every   *)
(* step of every trajectory, once, each with the uid of its own prompt;    *)
(* and the whole of it is one call that raises or delivers a complete      *)
(* batch (RolloutCall).                                                    *)
(*                                                                         *)
(* The data is followed through the iteration by one invariant, DataInv,   *)
(* with a lemma for what each action does to the rows: CollectedInOrder    *)
(* and JoinedComplete (Concat and Join), PaddedComplete (Pad),             *)
(* ReorderedComplete (Balance), RemaskedComplete (the two updates).        *)
(***************************************************************************)
EXTENDS RolloutBatch, FoldFacts, TLAPS

LEMMA DivBounds ==
  ASSUME NEW a \in Nat, NEW b \in Nat \ {0}
  PROVE  /\ a \div b \in Nat
         /\ b * (a \div b) <= a
         /\ a < b * (a \div b) + b
  OBVIOUS

LEMMA TimesPositive ==
  ASSUME NEW a \in Nat \ {0}, NEW b \in Nat \ {0}
  PROVE  a * b \in Nat \ {0}
  OBVIOUS

LEMMA DivMonotone ==
  ASSUME NEW a \in Nat, NEW c \in Nat, NEW b \in Nat \ {0}, a <= c
  PROVE  a \div b <= c \div b
  OBVIOUS

LEMMA CeilDivBounds ==
  ASSUME NEW a \in Nat \ {0}, NEW b \in Nat \ {0}
  PROVE  /\ CeilDiv(a, b) \in Nat \ {0}
         /\ b * (CeilDiv(a, b) - 1) < a
         /\ a <= b * CeilDiv(a, b)
<1>1. a - 1 \in Nat OBVIOUS
<1>2. PICK q \in Nat : q = (a - 1) \div b BY <1>1, DivBounds
<1>3. b * q <= a - 1 /\ a - 1 < b * q + b BY <1>1, <1>2, DivBounds
<1>4. b * (q + 1) = b * q + b OBVIOUS
<1> QED BY <1>2, <1>3, <1>4 DEF CeilDiv

LEMMA MulCancel ==
  ASSUME NEW a \in Int, NEW b \in Int, NEW c \in Nat \ {0}, c * a < c * b
  PROVE  a < b
<1> SUFFICES ASSUME b <= a PROVE FALSE OBVIOUS
<1>1. PICK d \in Nat : a = b + d OBVIOUS
<1>2. c * a = c * b + c * d BY <1>1
<1>3. c * d \in Nat BY <1>1
<1>4. c * a \in Int /\ c * b \in Int OBVIOUS
<1> QED BY <1>2, <1>3, <1>4

(* The chunks that DataProto.split makes are at most one per worker, leave  *)
(* no sample out and put none in two of them: what the workers return is    *)
(* the whole batch, once.                                                   *)
THEOREM ChunksPartition ==
  ASSUME size \in BatchSizes
  PROVE  /\ NumChunks \in 1..NumWorkers
         /\ \A s \in Samples : \E w \in 1..NumChunks : s \in Chunk(w)
         /\ \A w \in 1..NumChunks : Chunk(w) \subseteq Samples
         /\ \A v, w \in 1..NumChunks : v # w => Chunk(v) \cap Chunk(w) = {}
<1>1. NumSamples \in Nat \ {0}
  BY ConstantsAssumption, TimesPositive DEF NumSamples
<1>2. PICK n \in Nat \ {0} : n = NumSamples BY <1>1
<1>3. /\ SplitSize \in Nat \ {0}
      /\ n <= NumWorkers * SplitSize
  BY <1>2, CeilDivBounds, ConstantsAssumption DEF SplitSize
<1>4. PICK k \in Nat \ {0} : k = SplitSize BY <1>3
<1>5. /\ NumChunks \in Nat \ {0}
      /\ k * (NumChunks - 1) < n
  BY <1>2, <1>4, CeilDivBounds DEF NumChunks
<1>6. PICK c \in Nat \ {0} : c = NumChunks BY <1>5
<1>7. NumWorkers \in Nat \ {0} BY ConstantsAssumption
<1>8. NumChunks \in 1..NumWorkers
  <2>1. k * (c - 1) < k * NumWorkers
    <3>1. k * (c - 1) \in Int /\ k * NumWorkers = NumWorkers * k BY <1>7
    <3> QED BY <3>1, <1>3, <1>4, <1>5, <1>6, <1>7
  <2>2. c - 1 < NumWorkers BY <2>1, <1>7, MulCancel
  <2> QED BY <2>2, <1>6, <1>7
<1>9. ASSUME NEW s \in Samples PROVE \E w \in 1..NumChunks : s \in Chunk(w)
  <2>1. s \in Nat \ {0} /\ s <= n BY <1>2 DEF Samples
  <2>2. PICK w \in Nat \ {0} : w = CeilDiv(s, k) BY <2>1, CeilDivBounds
  <2>3. k * (w - 1) < s /\ s <= k * w BY <2>1, <2>2, CeilDivBounds
  <2>4. w <= c
    <3>1. s - 1 \in Nat /\ n - 1 \in Nat /\ s - 1 <= n - 1 BY <2>1
    <3>2. (s - 1) \div k <= (n - 1) \div k BY <3>1, DivMonotone
    <3>3. (s - 1) \div k \in Nat /\ (n - 1) \div k \in Nat BY <3>1, DivBounds
    <3> QED BY <3>2, <3>3, <2>2, <1>2, <1>4, <1>6 DEF CeilDiv, NumChunks
  <2>5. k * (w - 1) = (w - 1) * k /\ k * w = w * k /\ k * w \in Int /\ k * (w - 1) \in Int
    OBVIOUS
  <2>6. s \in Chunk(w)
    BY <2>1, <2>3, <2>5, <1>2, <1>4 DEF Chunk, ChunkStart, ChunkEnd
  <2> QED BY <2>2, <2>4, <2>6, <1>6
<1>10. ASSUME NEW w \in 1..NumChunks PROVE Chunk(w) \subseteq Samples
  <2>1. w \in Nat \ {0} BY <1>5
  <2>2. (w - 1) * k \in Nat /\ w * k \in Nat BY <2>1
  <2> QED BY <2>2, <1>2, <1>4 DEF Chunk, ChunkStart, ChunkEnd, Samples
<1>11. ASSUME NEW v \in 1..NumChunks, NEW w \in 1..NumChunks, v < w
       PROVE  Chunk(v) \cap Chunk(w) = {}
  <2>1. v \in Nat \ {0} /\ w \in Nat \ {0} BY <1>5
  <2>2. PICK d \in Nat : w - 1 = v + d BY <2>1, <1>11
  <2>3. (w - 1) * k = v * k + d * k BY <2>2, <2>1
  <2>4. d * k \in Nat /\ v * k \in Nat /\ w * k \in Nat BY <2>1, <2>2
  <2>5. v * k <= (w - 1) * k BY <2>3, <2>4
  <2>6. \A s \in Chunk(v) : s \in Int /\ s <= v * k
    BY <2>4, <1>2, <1>4, <2>1 DEF Chunk, ChunkStart, ChunkEnd
  <2>7. \A s \in Chunk(w) : s > (w - 1) * k
    BY <2>3, <2>4, <1>2, <1>4 DEF Chunk, ChunkStart, ChunkEnd
  <2> QED BY <2>3, <2>4, <2>5, <2>6, <2>7
<1> QED
  <2>1. ASSUME NEW v \in 1..NumChunks, NEW w \in 1..NumChunks, v # w
        PROVE  Chunk(v) \cap Chunk(w) = {}
    <3>1. CASE v < w BY <3>1, <1>11
    <3>2. CASE w < v BY <3>2, <1>11
    <3> QED BY <3>1, <3>2, <2>1, <1>5
  <2> QED BY <2>1, <1>8, <1>9, <1>10

LEMMA StepTypes == TypeOK /\ [Next]_vars => TypeOK'
<1> SUFFICES ASSUME TypeOK, [Next]_vars PROVE TypeOK'
  OBVIOUS
<1> USE DEF TypeOK
<1>1. CASE NextBatch
  BY <1>1, ConstantsAssumption DEF NextBatch
<1>2. ASSUME NEW r \in Replicas, WakeReplica(r) \/ SleepReplica(r) PROVE TypeOK'
  BY <1>2 DEF WakeReplica, SleepReplica
<1>3. CASE Dispatch
  BY <1>3 DEF Dispatch
<1>4. ASSUME NEW s \in AllSamples, FlowStep(s) PROVE TypeOK'
  <2>1. steps[s] + 1 \in 0..MaxSteps
    BY <1>4, ConstantsAssumption DEF FlowStep
  <2> QED BY <1>4, <2>1 DEF FlowStep
<1>5. ASSUME NEW s \in AllSamples, FlowDone(s) \/ FlowRaises(s) PROVE TypeOK'
  BY <1>5 DEF FlowDone, FlowRaises
<1>6. ASSUME NEW w \in Workers, WorkerReturns(w) \/ WorkerRaises(w) PROVE TypeOK'
  BY <1>6 DEF WorkerReturns, WorkerRaises
<1>7. CASE Concat \/ SomeRaised \/ Join \/ Pad \/ Balance \/ UpdateCritic \/ UpdateActor \/ EndIteration
  BY <1>7 DEF Concat, SomeRaised, Join, Pad, Balance, UpdateCritic, UpdateActor, EndIteration
<1>8. CASE UNCHANGED vars
  BY <1>8 DEF vars
<1> QED BY <1>1, <1>2, <1>3, <1>4, <1>5, <1>6, <1>7, <1>8 DEF Next

(* The phases of the iteration, and the states of replicas, workers and     *)
(* flows, stay in their ranges.                                             *)
THEOREM RolloutTypes == Spec => []TypeOK
<1>1. Init => TypeOK
  BY ConstantsAssumption DEF Init, TypeOK
<1> QED BY <1>1, StepTypes, PTL DEF Spec

(* What keeps FlowsRunAwake true.  While the manager waits, every replica   *)
(* is awake, every worker has a chunk, and a worker that returned left no   *)
(* flow of its chunk running; in every other phase but a crash nothing      *)
(* runs, and a crash leaves the replicas as they are, awake.                *)
WaitingForAll ==
  phase = "generating" =>
    /\ NumChunks = NumWorkers
    /\ \A s \in AllSamples : flow[s] = "running" => s \in Samples
    /\ \A w \in Workers : worker[w] = "returned" =>
         \A s \in Chunk(w) \cap AllSamples : flow[s] = "done"

AwakeWhileInUse == phase \in {"generating", "crashed"} => awake = Replicas

QuietOtherwise ==
  phase \notin {"generating", "crashed"} => \A s \in AllSamples : flow[s] # "running"

IInv == WaitingForAll /\ AwakeWhileInUse /\ QuietOtherwise

LEMMA InitIInv == Init => IInv
BY DEF Init, IInv, WaitingForAll, AwakeWhileInUse, QuietOtherwise

LEMMA StepIInv == TypeOK /\ IInv /\ [Next]_vars => IInv'
<1> USE DEF IInv, WaitingForAll, AwakeWhileInUse, QuietOtherwise
<1> SUFFICES ASSUME TypeOK, IInv, [Next]_vars PROVE IInv'
  OBVIOUS
<1>1. ASSUME UNCHANGED <<size, worker, flow>>, UNCHANGED <<phase, awake>> PROVE IInv'
  BY <1>1 DEF Chunk, ChunkStart, ChunkEnd, SplitSize, NumChunks, Samples, NumSamples
<1>2. ASSUME UNCHANGED size
      PROVE  /\ NumChunks' = NumChunks /\ Samples' = Samples
             /\ \A w \in Workers : Chunk(w)' = Chunk(w)
  BY <1>2 DEF Chunk, ChunkStart, ChunkEnd, SplitSize, NumChunks, Samples, NumSamples
<1>3. CASE NextBatch
  BY <1>3 DEF NextBatch
<1>4. ASSUME NEW r \in Replicas, WakeReplica(r) \/ SleepReplica(r) PROVE IInv'
  BY <1>4, <1>2 DEF WakeReplica, SleepReplica
<1>5. CASE Dispatch
  <2>1. \A w \in Workers : worker'[w] # "returned" BY <1>5 DEF Dispatch
  <2>2. \A s \in AllSamples : flow'[s] = "running" => s \in Samples BY <1>5 DEF Dispatch
  <2>3. /\ phase' = IF NumChunks = NumWorkers THEN "generating" ELSE "crashed"
        /\ awake' = Replicas /\ UNCHANGED size
    BY <1>5 DEF Dispatch, WokenUp
  <2> QED BY <2>1, <2>2, <2>3, <1>2
<1>6. ASSUME NEW s \in AllSamples, FlowStep(s) \/ FlowDone(s) \/ FlowRaises(s) PROVE IInv'
  <2>1. flow' = flow \/ flow' = [flow EXCEPT ![s] = "done"] \/ flow' = [flow EXCEPT ![s] = "raised"]
    BY <1>6 DEF FlowStep, FlowDone, FlowRaises
  <2>2. flow[s] = "running" /\ UNCHANGED <<phase, size, awake, worker>>
    BY <1>6 DEF FlowStep, FlowDone, FlowRaises
  <2>3. phase \in {"generating", "crashed"} BY <2>2
  <2>4. \A t \in AllSamples : flow'[t] = "running" => flow[t] = "running"
    BY <2>1 DEF TypeOK
  <2>5. \A t \in AllSamples : flow[t] = "done" => flow'[t] = "done"
    BY <2>1, <2>2 DEF TypeOK
  <2> QED BY <2>2, <2>3, <2>4, <2>5, <1>2
<1>7. ASSUME NEW w \in Workers, WorkerReturns(w) \/ WorkerRaises(w) PROVE IInv'
  <2>1. \A v \in Workers : worker'[v] = "returned" =>
          worker[v] = "returned" \/ \A s \in Chunk(v) : flow[s] = "done"
    BY <1>7 DEF WorkerReturns, WorkerRaises, TypeOK
  <2>2. UNCHANGED <<phase, size, awake, flow>> BY <1>7 DEF WorkerReturns, WorkerRaises
  <2> QED BY <2>1, <2>2, <1>2
<1>8. CASE Concat
  <2>1. \A s \in AllSamples : flow[s] # "running"
    <3> SUFFICES ASSUME NEW s \in AllSamples, flow[s] = "running" PROVE FALSE OBVIOUS
    <3>1. phase = "generating" /\ AllReturned BY <1>8 DEF Concat
    <3>2. s \in Samples /\ NumChunks = NumWorkers BY <3>1
    <3>3. PICK w \in 1..NumChunks : s \in Chunk(w) BY <3>2, ChunksPartition DEF TypeOK
    <3>4. flow[s] = "done" BY <3>1, <3>2, <3>3 DEF AllReturned, Workers
    <3> QED BY <3>4
  <2> QED BY <2>1, <1>8, <1>2 DEF Concat
<1>9. CASE SomeRaised
  BY <1>9, <1>2 DEF SomeRaised
<1>10. CASE Join \/ Pad \/ Balance \/ UpdateCritic \/ UpdateActor \/ EndIteration
  BY <1>10, <1>2 DEF Join, Pad, Balance, UpdateCritic, UpdateActor, EndIteration
<1>11. CASE UNCHANGED vars
  BY <1>11, <1>1 DEF vars
<1> QED
  BY <1>3, <1>4, <1>5, <1>6, <1>7, <1>8, <1>9, <1>10, <1>11 DEF Next

(* An agent flow only ever runs while every replica is awake, whatever the  *)
(* order in which replicas, flows and workers proceed or fail.              *)
THEOREM AwakeSafe == Spec => []FlowsRunAwake
<1>1. IInv => FlowsRunAwake
  BY DEF IInv, AwakeWhileInUse, QuietOtherwise, FlowsRunAwake
<1> QED BY <1>1, InitIInv, StepIInv, RolloutTypes, PTL DEF Spec

----------------------------------------------------------------------------
LEMMA LargestBatch ==
  /\ MaxPrompts \in BatchSizes
  /\ \A n \in BatchSizes : n <= MaxPrompts
<1> DEFINE f == [n \in BatchSizes |-> n]
<1>1. f \in [BatchSizes -> Int] /\ BatchSizes # {} /\ IsFiniteSet(BatchSizes)
  BY ConstantsAssumption
<1>2. \E m \in BatchSizes : \A x \in BatchSizes : f[x] <= f[m]
  <2> HIDE DEF f
  <2> QED BY <1>1, Maximal
<1>3. \E m \in BatchSizes : \A n \in BatchSizes : n <= m BY <1>2
<1> QED BY <1>3 DEF MaxPrompts

LEMMA SamplesBounded ==
  ASSUME size \in BatchSizes
  PROVE  /\ NumSamples \in Nat \ {0} /\ NumSamples = size * RolloutN
         /\ Samples \subseteq AllSamples
<1>1. /\ size \in Nat \ {0} /\ RolloutN \in Nat \ {0} /\ MaxPrompts \in Nat \ {0}
      /\ size <= MaxPrompts
  BY LargestBatch, ConstantsAssumption
<1>2. NumSamples \in Nat \ {0} /\ NumSamples = size * RolloutN
  BY <1>1, TimesPositive DEF NumSamples
<1>3. PICK d \in Nat : MaxPrompts = size + d
  <2>1. MaxPrompts - size \in Nat /\ MaxPrompts = size + (MaxPrompts - size) BY <1>1
  <2> QED BY <2>1
<1>4. RolloutN * MaxPrompts = size * RolloutN + RolloutN * d BY <1>1, <1>3
<1>5. RolloutN * d \in Nat /\ size * RolloutN \in Nat BY <1>1
<1> QED BY <1>2, <1>4, <1>5 DEF Samples, AllSamples

(* What the workers return, one after another, is the samples in order.    *)
LEMMA CollectedInOrder ==
  ASSUME size \in BatchSizes
  PROVE  Collected = [s \in Samples |-> s]
<1>1. PICK n \in Nat \ {0}, k \in Nat \ {0}, c \in Nat \ {0} :
        /\ n = NumSamples /\ k = SplitSize /\ c = NumChunks
        /\ k * (c - 1) < n /\ n <= k * c
  <2>1. NumSamples \in Nat \ {0} BY SamplesBounded
  <2>2. SplitSize \in Nat \ {0}
    BY <2>1, CeilDivBounds, ConstantsAssumption DEF SplitSize
  <2>3. /\ NumChunks \in Nat \ {0} /\ SplitSize * (NumChunks - 1) < NumSamples
        /\ NumSamples <= SplitSize * NumChunks
    BY <2>1, <2>2, CeilDivBounds DEF NumChunks
  <2> QED BY <2>1, <2>2, <2>3
<1> DEFINE o == [w \in 0..c |-> IF w * k < n THEN w * k ELSE n]
           seqs == [w \in 1..c |-> SamplesOf(w)]
           len == [w \in 1..c |-> Len(seqs[w])]
<1>2. ASSUME NEW w \in 1..c
      PROVE  /\ o[w - 1] = (w - 1) * k /\ (w - 1) * k \in Nat /\ (w - 1) * k < n
             /\ ChunkStart(w) = (w - 1) * k + 1 /\ ChunkEnd(w) = o[w]
             /\ o[w] \in Nat /\ (w - 1) * k < o[w]
  <2>1. (w - 1) * k \in Nat /\ w * k \in Nat /\ w * k = (w - 1) * k + k OBVIOUS
  <2>2. (w - 1) * k < n
    <3>1. PICK d \in Nat : c - 1 = (w - 1) + d
      <4>1. (c - 1) - (w - 1) \in Nat /\ c - 1 = (w - 1) + ((c - 1) - (w - 1)) OBVIOUS
      <4> QED BY <4>1
    <3>2. k * (c - 1) = (w - 1) * k + k * d BY <3>1
    <3>3. k * d \in Nat BY <3>1
    <3> QED BY <3>2, <3>3, <2>1, <1>1
  <2>3. w - 1 \in 0..c /\ w \in 0..c OBVIOUS
  <2>4. o[w - 1] = (w - 1) * k BY <2>2, <2>3
  <2>5. o[w] = IF w * k < n THEN w * k ELSE n BY <2>3
  <2>6. ChunkStart(w) = (w - 1) * k + 1 /\ ChunkEnd(w) = o[w]
    BY <1>1, <2>5 DEF ChunkStart, ChunkEnd
  <2> HIDE DEF o
  <2> QED BY <2>1, <2>2, <2>4, <2>5, <2>6
<1>3. ASSUME NEW w \in 1..c
      PROVE  /\ SamplesOf(w) \in Seq(Nat)
             /\ Len(SamplesOf(w)) = o[w] - (w - 1) * k
             /\ \A i \in 1..Len(SamplesOf(w)) : SamplesOf(w)[i] = (w - 1) * k + i
  <2> HIDE DEF o
  <2>1. PICK a \in Nat, b \in Nat : a = (w - 1) * k /\ b = o[w] /\ a < b BY <1>2
  <2>2. SamplesOf(w) = [i \in 1..(b - (a + 1) + 1) |-> a + 1 + i - 1]
    BY <1>2, <2>1 DEF SamplesOf
  <2>3. b - (a + 1) + 1 = b - a /\ b - a \in Nat BY <2>1
  <2>4. SamplesOf(w) = [i \in 1..(b - a) |-> a + i]
    <3>1. \A i \in 1..(b - a) : a + 1 + i - 1 = a + i BY <2>1
    <3> QED BY <2>2, <2>3, <3>1
  <2>5. [i \in 1..(b - a) |-> a + i] \in Seq(Nat) /\ Len([i \in 1..(b - a) |-> a + i]) = b - a
    BY <2>1, <2>3
  <2> QED BY <2>1, <2>3, <2>4, <2>5
<1>4. seqs \in [1..c -> Seq(Nat)] BY <1>3
<1>5. len \in [1..c -> Nat] /\ \A w \in 1..c : len[w] = o[w] - (w - 1) * k
  <2>1. \A w \in 1..c : len[w] = Len(SamplesOf(w)) OBVIOUS
  <2>2. len = [w \in 1..c |-> len[w]] OBVIOUS
  <2>3. \A w \in 1..c : Len(SamplesOf(w)) \in Nat BY <1>3
  <2> HIDE DEF len, o
  <2> QED BY <2>1, <2>2, <2>3, <1>3
<1>6. IsOffsets(o, len, c)
  <2>1. o[0] = 0 OBVIOUS
  <2>2. o \in [0..c -> Nat]
    <3>1. \A w \in 0..c : w * k \in Nat OBVIOUS
    <3> QED BY <3>1
  <2> HIDE DEF o, len
  <2>3. \A w \in 1..c : o[w] = o[w - 1] + len[w] BY <1>2, <1>5
  <2> QED BY <2>1, <2>2, <2>3 DEF IsOffsets
<1>7. o[c] = n
  <2>1. c * k = k * c /\ c \in 0..c OBVIOUS
  <2> QED BY <2>1, <1>1
<1>8. Collected = FlattenSeq(seqs) BY <1>1 DEF Collected
<1>9. /\ Collected \in Seq(Nat) /\ Len(Collected) = n
      /\ \A w \in 1..c : \A i \in 1..len[w] : Collected[o[w - 1] + i] = seqs[w][i]
  <2> HIDE DEF o, seqs
  <2>1. Pieces(seqs, len, c, Nat) BY <1>4, <1>5 DEF Pieces
  <2> HIDE DEF len
  <2>2. LaidOut(FlattenSeq(seqs), seqs, len, o, c, Nat) BY <2>1, <1>6, Flattened
  <2> QED BY <2>2, <1>7, <1>8 DEF LaidOut
<1>10. ASSUME NEW s \in 1..n PROVE Collected[s] = s
  <2>1. PICK w \in 1..c : \E i \in 1..len[w] : s = o[w - 1] + i
    <3> HIDE DEF o, len
    <3>1. s \in 1..o[c] BY <1>7
    <3>2. c \in Nat /\ len \in [1..c -> Nat] /\ IsOffsets(o, len, c) BY <1>5, <1>6
    <3> QED BY <3>1, <3>2, OffsetsCover
  <2>2. PICK i \in 1..len[w] : s = o[w - 1] + i BY <2>1
  <2>3. len[w] = Len(SamplesOf(w)) /\ seqs[w] = SamplesOf(w) OBVIOUS
  <2> HIDE DEF o, len, seqs
  <2>4. Collected[s] = SamplesOf(w)[i] BY <1>9, <2>2, <2>3
  <2>5. SamplesOf(w)[i] = (w - 1) * k + i BY <1>3, <2>3
  <2> QED BY <2>2, <2>4, <2>5, <1>2
<1>11. Samples = 1..n BY <1>1 DEF Samples
<1>12. Collected \in [1..n -> Nat] BY <1>9
<1> HIDE DEF o, len, seqs
<1> QED BY <1>10, <1>11, <1>12

----------------------------------------------------------------------------
(* What makes the data of the iteration right.  A flow that is done took   *)
(* at least one step, so when the workers have all returned every sample   *)
(* did; what the manager returns is laid out sample by sample; and from    *)
(* the join on the batch is made of rows, the ones that are not padding    *)
(* being every step that was taken, once, with the uid of its prompt.      *)
Masks == {"tokens", "first"}

Row == [uid : Nat, from : Samples, step : 1..MaxSteps, pad : BOOLEAN,
        mask : Masks]

Taken == {t \in Samples \X (1..MaxSteps) : t[2] <= steps[t[1]]}

Real(rows) == {j \in DOMAIN rows : ~rows[j].pad}

Complete(rows) ==
  /\ rows \in Seq(Row) /\ Len(rows) > 0
  /\ {<<rows[j].from, rows[j].step>> : j \in Real(rows)} = Taken
  /\ \A i, j \in Real(rows) :
       rows[i].from = rows[j].from /\ rows[i].step = rows[j].step => i = j

Aligned(rows) == \A j \in DOMAIN rows : rows[j].uid = GenPrompt(rows[j].from)

Joined == phase \in {"joined", "padded", "balanced", "critic", "actor"}

DoneTookSteps == \A s \in AllSamples : flow[s] = "done" => steps[s] > 0

AllTookSteps == \A s \in Samples : steps[s] > 0

LaidOutBySample ==
  output = [num_steps |-> [s \in Samples |-> steps[s]],
            rows |-> FlattenSeq([s \in Samples |-> RowsOf(s)])]

DataInv ==
  /\ DoneTookSteps
  /\ Joined \/ phase = "sleeping" => AllTookSteps
  /\ phase = "sleeping" => LaidOutBySample
  /\ Joined => Complete(batch)
  /\ phase = "critic" => saved \in [DOMAIN batch -> Masks]
  /\ Aligned(batch)

JoinOf(b) ==
  b = [j \in 1..Len(output.rows) |->
        [uid |-> Repeated[j], from |-> output.rows[j].from,
         step |-> output.rows[j].step, pad |-> FALSE, mask |-> "tokens"]]

(* What the trainer joins: the rows of the samples in order, each half of  *)
(* the same sample's.                                                      *)
LEMMA JoinedComplete ==
  ASSUME TypeOK, AllTookSteps, LaidOutBySample, NEW b, JoinOf(b)
  PROVE  Complete(b) /\ Aligned(b)
<1>1. PICK n \in Nat \ {0} : n = NumSamples /\ Samples = 1..n
  BY SamplesBounded DEF TypeOK, Samples
<1>2. \A s \in 1..n : steps[s] \in 1..MaxSteps
  BY <1>1, SamplesBounded, ConstantsAssumption DEF TypeOK, AllTookSteps
<1>3. \A s \in 1..n : BatchPrompt(s) \in Nat
  <2> TAKE s \in 1..n
  <2>1. s \in Nat \ {0} /\ RolloutN \in Nat \ {0} BY ConstantsAssumption
  <2> QED BY <2>1, CeilDivBounds DEF BatchPrompt
<1> DEFINE len == [s \in 1..n |-> steps[s]]
           Half == [from : Samples, step : 1..MaxSteps]
           halves == [s \in 1..n |-> RowsOf(s)]
           uids == [s \in 1..n |-> [k \in 1..steps[s] |-> BatchPrompt(s)]]
           all == FlattenSeq(halves)
           uid == FlattenSeq(uids)
<1>4. len \in [1..n -> Nat] /\ \A s \in 1..n : len[s] = steps[s] BY <1>2
<1>5. PICK o : IsOffsets(o, len, n)
  <2> HIDE DEF len
  <2> QED BY <1>4, OffsetsExist
<1>6. LaidOut(all, halves, len, o, n, Half)
  <2>1. ASSUME NEW s \in 1..n PROVE RowsOf(s) \in Seq(Half) /\ Len(RowsOf(s)) = steps[s]
    <3>1. \A k \in 1..steps[s] : [from |-> s, step |-> k] \in Half
      BY <1>1, <1>2, ConstantsAssumption
    <3>2. steps[s] \in Nat BY <1>2
    <3> HIDE DEF Half
    <3> QED BY <3>1, <3>2 DEF RowsOf
  <2>2. Pieces(halves, len, n, Half)
    <3>1. halves \in [1..n -> Seq(Half)] /\ \A s \in 1..n : halves[s] = RowsOf(s) BY <2>1
    <3> HIDE DEF halves, len, Half
    <3> QED BY <3>1, <2>1, <1>4 DEF Pieces
  <2> HIDE DEF halves, len, Half
  <2> QED BY <2>2, <1>5, Flattened
<1>7. LaidOut(uid, uids, len, o, n, Nat)
  <2>1. ASSUME NEW s \in 1..n
        PROVE  uids[s] \in Seq(Nat) /\ Len(uids[s]) = steps[s]
    <3>1. steps[s] \in Nat BY <1>2
    <3> QED BY <3>1, <1>3
  <2>2. Pieces(uids, len, n, Nat)
    <3>1. DOMAIN uids = 1..n /\ uids = [s \in 1..n |-> uids[s]] OBVIOUS
    <3> HIDE DEF uids, len
    <3> QED BY <3>1, <2>1, <1>4 DEF Pieces
  <2> HIDE DEF uids, len
  <2> QED BY <2>2, <1>5, Flattened
<1>8. output.rows = all BY <1>1 DEF LaidOutBySample
<1>9. Repeated = uid
  <2>1. \A s \in Samples : output.num_steps[s] = steps[s] BY DEF LaidOutBySample
  <2>2. [i \in Samples |-> [k \in 1..output.num_steps[i] |-> BatchPrompt(i)]] = uids
    BY <2>1, <1>1
  <2> HIDE DEF uids
  <2> QED BY <2>2 DEF Repeated
<1>10. Len(output.rows) = o[n] /\ o[n] \in Nat BY <1>6, <1>8, <1>5 DEF LaidOut, IsOffsets
<1>11. ASSUME NEW s \in 1..n, NEW k \in Nat, k \in 1..steps[s], NEW p, p = o[s - 1] + k
       PROVE  /\ p \in 1..o[n]
              /\ b[p].uid = BatchPrompt(s) /\ b[p].from = s /\ b[p].step = k
  <2>1. k \in 1..len[s] BY <1>4, <1>11
  <2>2. p \in 1..o[n]
    <3> HIDE DEF len
    <3> QED BY <2>1, <1>4, <1>5, <1>11, OffsetsApart
  <2>3. output.rows[p] = [from |-> s, step |-> k]
    <3>1. all[p] = halves[s][k]
      <4> HIDE DEF all, halves, len, Half
      <4> QED BY <2>1, <1>6, <1>11 DEF LaidOut
    <3>2. halves[s][k] = [from |-> s, step |-> k] BY <1>11 DEF RowsOf
    <3> HIDE DEF all, halves
    <3> QED BY <3>1, <3>2, <1>8
  <2>4. Repeated[p] = BatchPrompt(s)
    <3>1. uid[p] = uids[s][k]
      <4> HIDE DEF uid, uids, len
      <4> QED BY <2>1, <1>7, <1>11 DEF LaidOut
    <3>2. uids[s][k] = BatchPrompt(s) BY <1>11
    <3> HIDE DEF uid, uids
    <3> QED BY <3>1, <3>2, <1>9
  <2>5. p \in 1..Len(output.rows) BY <2>2, <1>10
  <2>6. b[p] = [uid |-> Repeated[p], from |-> output.rows[p].from,
                step |-> output.rows[p].step, pad |-> FALSE, mask |-> "tokens"]
    BY <2>5 DEF JoinOf
  <2> QED BY <2>2, <2>3, <2>4, <2>6
<1> HIDE DEF len, Half, halves, uids, all, uid
<1>12. DOMAIN b = 1..o[n] BY <1>10 DEF JoinOf
<1>13. ASSUME NEW j \in 1..o[n]
       PROVE  \E s \in 1..n : \E k \in 1..steps[s] : j = o[s - 1] + k
  <2>0. n \in Nat /\ len \in [1..n -> Nat] BY <1>4
  <2>1. \E s \in 1..n : \E k \in 1..len[s] : j = o[s - 1] + k
    <3>1. PICK l : l = len OBVIOUS
    <3>2. n \in Nat /\ l \in [1..n -> Nat] /\ IsOffsets(o, l, n) BY <2>0, <3>1, <1>5
    <3>3. \E s \in 1..n : \E k \in 1..l[s] : j = o[s - 1] + k BY <3>2, OffsetsCover
    <3> QED BY <3>1, <3>3
  <2> QED BY <2>1, <1>4
<1>14. ASSUME NEW j \in DOMAIN b
       PROVE  /\ b[j] \in Row /\ ~b[j].pad
              /\ b[j].uid = GenPrompt(b[j].from)
              /\ <<b[j].from, b[j].step>> \in Taken
              /\ b[j].from \in 1..n /\ b[j].step \in 1..steps[b[j].from]
              /\ j = o[b[j].from - 1] + b[j].step
  <2>1. PICK s \in 1..n : \E k \in 1..steps[s] : j = o[s - 1] + k BY <1>12, <1>13
  <2>2. PICK k \in 1..steps[s] : j = o[s - 1] + k BY <2>1
  <2>3. b[j] = [uid |-> Repeated[j], from |-> output.rows[j].from,
                step |-> output.rows[j].step, pad |-> FALSE, mask |-> "tokens"]
    BY <1>10, <1>12 DEF JoinOf
  <2>4. k \in 1..MaxSteps BY <1>2, ConstantsAssumption
  <2>4a. ~b[j].pad BY <2>3
  <2>5. b[j].from = s /\ b[j].step = k /\ b[j].uid = BatchPrompt(s)
    <3>1. k \in Nat BY <1>2
    <3> QED BY <2>2, <3>1, <1>11
  <2>6. b[j] \in Row
    <3>1. b[j].uid \in Nat /\ b[j].from \in Samples /\ b[j].step \in 1..MaxSteps
      BY <2>4, <2>5, <1>1, <1>3
    <3> QED BY <2>3, <3>1 DEF Row, Masks
  <2>7. <<s, k>> \in Taken
    <3>1. k <= steps[s] BY <1>2
    <3> QED BY <3>1, <2>4, <1>1 DEF Taken
  <2>8. BatchPrompt(s) = GenPrompt(s) BY DEF BatchPrompt, GenPrompt
  <2> QED BY <2>2, <2>4a, <2>5, <2>6, <2>7, <2>8
<1>15. b \in Seq(Row) /\ Len(b) = o[n]
  <2>1. b = [j \in 1..o[n] |-> b[j]] BY <1>10 DEF JoinOf
  <2>2. \A j \in 1..o[n] : b[j] \in Row BY <1>12, <1>14
  <2>3. b \in [1..o[n] -> Row] BY <2>1, <2>2
  <2> QED BY <2>3, <1>10
<1>16. Len(b) > 0
  <2>1. 1 \in 1..n /\ 1 \in 1..steps[1] BY <1>1, <1>2
  <2>2. PICK p : p = o[1 - 1] + 1 OBVIOUS
  <2>3. p \in 1..o[n] BY <2>1, <2>2, <1>11
  <2> QED BY <2>3, <1>10, <1>15
<1>17. Real(b) = DOMAIN b BY <1>14 DEF Real
<1>18. {<<b[j].from, b[j].step>> : j \in Real(b)} = Taken
  <2>1. ASSUME NEW t \in Taken PROVE \E j \in DOMAIN b : t = <<b[j].from, b[j].step>>
    <3>1. t[1] \in 1..n /\ t[2] \in 1..steps[t[1]] /\ t = <<t[1], t[2]>>
      BY <1>1, <1>2 DEF Taken
    <3>2. PICK s \in 1..n : s = t[1] BY <3>1
    <3>3. PICK k \in 1..steps[s] : k = t[2] BY <3>1, <3>2
    <3>4. PICK p \in DOMAIN b : b[p].from = s /\ b[p].step = k
      <4>1. PICK p : p = o[s - 1] + k OBVIOUS
      <4>2. p \in 1..o[n] /\ b[p].from = s /\ b[p].step = k BY <3>1, <3>3, <4>1, <1>2, <1>11
      <4> QED BY <4>2, <1>12
    <3> QED BY <3>1, <3>2, <3>3, <3>4
  <2>2. \A j \in DOMAIN b : <<b[j].from, b[j].step>> \in Taken BY <1>14
  <2>3. {<<b[j].from, b[j].step>> : j \in DOMAIN b} = Taken BY <2>1, <2>2
  <2> QED BY <2>3, <1>17
<1>19. \A i, j \in Real(b) : b[i].from = b[j].from /\ b[i].step = b[j].step => i = j
  <2>1. ASSUME NEW i \in DOMAIN b, NEW j \in DOMAIN b,
               b[i].from = b[j].from, b[i].step = b[j].step
        PROVE  i = j
    <3>1. i = o[b[i].from - 1] + b[i].step BY <1>14
    <3>2. j = o[b[j].from - 1] + b[j].step BY <1>14
    <3> QED BY <3>1, <3>2, <2>1
  <2> QED BY <2>1, <1>17
<1> QED BY <1>14, <1>15, <1>16, <1>18, <1>19 DEF Complete, Aligned

LEMMA RemainderRange ==
  ASSUME NEW a \in Int, NEW b \in Nat \ {0}
  PROVE  a % b \in 0..(b - 1)
OBVIOUS

(* Padding adds copies that are flagged, and nothing else.                 *)
LEMMA PaddedComplete ==
  ASSUME NEW b, Complete(b), Aligned(b)
  PROVE  /\ Complete(Padded(b)) /\ Aligned(Padded(b))
<1>1. PICK m \in Nat \ {0} : m = Len(b) /\ b \in Seq(Row) /\ DOMAIN b = 1..m
  BY DEF Complete
<1>2. PICK q \in Nat : q = (-m) % WorldSize
  <2>1. (-m) % WorldSize \in 0..(WorldSize - 1) BY RemainderRange, ConstantsAssumption
  <2> QED BY <2>1
<1> DEFINE at(i) == ((i - 1) % m) + 1
           t == [i \in 1..q |-> [b[at(i)] EXCEPT !.pad = TRUE]]
<1>3. \A i \in 1..q : at(i) \in 1..m
  <2> TAKE i \in 1..q
  <2>1. (i - 1) % m \in 0..(m - 1) BY RemainderRange
  <2> QED BY <2>1
<1> HIDE DEF at
<1>4. ASSUME NEW i \in 1..q
      PROVE  /\ t[i] \in Row /\ t[i].pad /\ t[i].uid = b[at(i)].uid
             /\ t[i].from = b[at(i)].from
  <2>1. b[at(i)] \in Row BY <1>1, <1>3
  <2>2. t[i] = [b[at(i)] EXCEPT !.pad = TRUE] OBVIOUS
  <2> HIDE DEF t
  <2> QED BY <2>1, <2>2 DEF Row
<1>5. t \in Seq(Row) /\ Len(t) = q
  <2>1. t = [i \in 1..q |-> t[i]] OBVIOUS
  <2> HIDE DEF t
  <2>2. t \in [1..q -> Row] BY <1>4, <2>1
  <2> QED BY <2>2, <2>1
<1>6. PICK c : c = Padded(b) /\ c = b \o t
  BY <1>1, <1>2 DEF Padded, at
<1> HIDE DEF t
<1>7. /\ c \in Seq(Row) /\ Len(c) = m + q /\ DOMAIN c = 1..(m + q)
      /\ \A j \in 1..m : c[j] = b[j]
      /\ \A j \in (m + 1)..(m + q) : c[j] = t[j - m]
  <2>1. PICK u \in Seq(Row), v \in Seq(Row) : u = b /\ v = t BY <1>1, <1>5
  <2>2. Len(u) = m /\ Len(v) = q BY <2>1, <1>1, <1>5
  <2>3. /\ u \o v \in Seq(Row) /\ Len(u \o v) = m + q
        /\ \A j \in 1..m + q : (u \o v)[j] = IF j <= m THEN u[j] ELSE v[j - m]
    BY <2>2, ConcatProperties
  <2>4. c = u \o v BY <2>1, <1>6
  <2>5. c \in Seq(Row) /\ Len(c) = m + q /\ DOMAIN c = 1..(m + q) BY <2>3, <2>4
  <2>6. \A j \in 1..m : c[j] = b[j] BY <2>1, <2>3, <2>4
  <2>7. \A j \in (m + 1)..(m + q) : c[j] = t[j - m] BY <2>1, <2>3, <2>4
  <2> QED BY <2>5, <2>6, <2>7
<1>8. \A j \in (m + 1)..(m + q) : j - m \in 1..q
  BY <1>1, <1>2
<1>9. \A j \in DOMAIN c : j \in 1..m \/ j \in (m + 1)..(m + q)
  BY <1>1, <1>2, <1>7
<1>10. Real(c) = Real(b)
  <2>1. \A j \in (m + 1)..(m + q) : c[j].pad BY <1>4, <1>7, <1>8
  <2>2. \A j \in 1..m : j \in DOMAIN c BY <1>2, <1>7
  <2> QED BY <2>1, <2>2, <1>1, <1>7, <1>9 DEF Real
<1>11. \A j \in Real(b) : j \in 1..m /\ c[j] = b[j] BY <1>1, <1>7 DEF Real
<1>12. Complete(c)
  <2>1. {<<c[j].from, c[j].step>> : j \in Real(c)} = {<<b[j].from, b[j].step>> : j \in Real(b)}
    BY <1>10, <1>11
  <2>2. \A i, j \in Real(c) : c[i].from = c[j].from /\ c[i].step = c[j].step => i = j
    BY <1>10, <1>11 DEF Complete
  <2>3. {<<b[j].from, b[j].step>> : j \in Real(b)} = Taken BY DEF Complete
  <2>4. c \in Seq(Row) /\ Len(c) > 0 BY <1>2, <1>7
  <2> QED BY <2>1, <2>2, <2>3, <2>4 DEF Complete
<1>13. Aligned(c)
  <2>1. ASSUME NEW j \in 1..m PROVE c[j].uid = GenPrompt(c[j].from)
    BY <1>1, <1>7 DEF Aligned
  <2>2. ASSUME NEW j \in (m + 1)..(m + q) PROVE c[j].uid = GenPrompt(c[j].from)
    <3>1. PICK i \in 1..q : i = j - m BY <1>8
    <3>2. c[j] = t[i] BY <3>1, <1>7
    <3>3. at(i) \in DOMAIN b BY <1>1, <1>3
    <3>4. b[at(i)].uid = GenPrompt(b[at(i)].from) BY <3>3 DEF Aligned
    <3> QED BY <3>2, <3>4, <1>4
  <2> QED BY <2>1, <2>2, <1>9 DEF Aligned
<1> QED BY <1>6, <1>12, <1>13

(* c has the rows of b in the order o, but for their masks.                *)
Rearranged(c, b, o) ==
  /\ c \in Seq(Row) /\ Len(c) = Len(b)
  /\ o \in [DOMAIN b -> DOMAIN b]
  /\ \A i, j \in DOMAIN b : o[i] = o[j] => i = j
  /\ \A j \in DOMAIN b : \E i \in DOMAIN b : o[i] = j
  /\ \A j \in DOMAIN b : /\ c[j].uid = b[o[j]].uid /\ c[j].from = b[o[j]].from
                         /\ c[j].step = b[o[j]].step /\ (c[j].pad <=> b[o[j]].pad)

LEMMA RearrangedComplete ==
  ASSUME NEW b, Complete(b), Aligned(b), NEW c, NEW o, Rearranged(c, b, o)
  PROVE  Complete(c) /\ Aligned(c)
<1>1. PICK m \in Nat \ {0} : m = Len(b) /\ DOMAIN b = 1..m /\ DOMAIN c = 1..m
  BY DEF Complete, Rearranged
<1>2. \A j \in DOMAIN b : /\ c[j].uid = b[o[j]].uid /\ c[j].from = b[o[j]].from
                          /\ c[j].step = b[o[j]].step /\ o[j] \in DOMAIN b
  BY DEF Rearranged
<1>3. \A j \in DOMAIN b : j \in Real(c) <=> o[j] \in Real(b)
  BY <1>1 DEF Rearranged, Real
<1>4. {<<c[j].from, c[j].step>> : j \in Real(c)} = {<<b[j].from, b[j].step>> : j \in Real(b)}
  <2>1. ASSUME NEW j \in Real(c)
        PROVE  \E i \in Real(b) : <<c[j].from, c[j].step>> = <<b[i].from, b[i].step>>
    <3>1. j \in DOMAIN b BY <1>1 DEF Real
    <3> QED BY <3>1, <1>2, <1>3
  <2>2. ASSUME NEW i \in Real(b)
        PROVE  \E j \in Real(c) : <<c[j].from, c[j].step>> = <<b[i].from, b[i].step>>
    <3>1. i \in DOMAIN b BY DEF Real
    <3>2. PICK j \in DOMAIN b : o[j] = i BY <3>1 DEF Rearranged
    <3> QED BY <3>2, <1>2, <1>3
  <2> QED BY <2>1, <2>2
<1>5. ASSUME NEW i \in Real(c), NEW j \in Real(c),
             c[i].from = c[j].from, c[i].step = c[j].step
      PROVE  i = j
  <2>1. i \in DOMAIN b /\ j \in DOMAIN b BY <1>1 DEF Real
  <2>2. o[i] \in Real(b) /\ o[j] \in Real(b) BY <2>1, <1>3
  <2>3. b[o[i]].from = b[o[j]].from /\ b[o[i]].step = b[o[j]].step BY <2>1, <1>2, <1>5
  <2>4. o[i] = o[j] BY <2>2, <2>3 DEF Complete
  <2> QED BY <2>1, <2>4 DEF Rearranged
<1>6. Complete(c)
  <2>1. c \in Seq(Row) /\ Len(c) > 0 BY DEF Rearranged, Complete
  <2>2. {<<b[j].from, b[j].step>> : j \in Real(b)} = Taken BY DEF Complete
  <2> QED BY <2>1, <2>2, <1>4, <1>5 DEF Complete
<1>7. Aligned(c)
  BY <1>1, <1>2 DEF Aligned
<1> QED BY <1>6, <1>7

(* Dealing the rows to the ranks puts them in a new order and loses none.  *)
LEMMA RankOrder ==
  ASSUME batch \in Seq(Row), NEW rank \in [DOMAIN batch -> Ranks]
  PROVE  /\ ByRank(rank) \in [DOMAIN batch -> DOMAIN batch]
         /\ \A i, j \in DOMAIN batch : ByRank(rank)[i] = ByRank(rank)[j] => i = j
         /\ \A j \in DOMAIN batch : \E i \in DOMAIN batch : ByRank(rank)[i] = j
<1>0. PICK m \in Nat : m = Len(batch) /\ DOMAIN batch = 1..m
  OBVIOUS
<1>1. PICK D : D = 1..m /\ m = Len(batch) /\ D = DOMAIN batch /\ batch \in Seq(Row)
  BY <1>0
<1>2. IsFiniteSet(D) /\ Cardinality(D) = m
  <2>1. IsFiniteSet(1..m) /\ Cardinality(1..m) = IF 1 > m THEN 0 ELSE m - 1 + 1
    BY FS_Interval
  <2>2. Cardinality(1..m) = m BY <2>1
  <2> QED BY <2>1, <2>2, <1>1
<1>3. \A j \in D : rank[j] \in Int
  BY <1>1, ConstantsAssumption DEF Ranks
<1> DEFINE B(j) == Before(rank, j)
           place == [j \in D |-> Cardinality(B(j))]
<1>4. \A i, j \in D : i \in B(j) <=> rank[i] < rank[j] \/ (rank[i] = rank[j] /\ i <= j)
  BY <1>1 DEF Before
<1>5. \A j \in D : B(j) \in SUBSET D
  BY <1>1 DEF Before
<1> HIDE DEF B
<1>6. ASSUME NEW j \in D PROVE IsFiniteSet(B(j)) /\ Cardinality(B(j)) \in 1..m
  <2>1. IsFiniteSet(B(j)) /\ Cardinality(B(j)) <= m BY <1>2, <1>5, FS_Subset
  <2>2. j \in B(j) BY <1>1, <1>3, <1>4
  <2>3. Cardinality(B(j)) \in Nat BY <2>1, FS_CardinalityType
  <2>4. Cardinality(B(j)) # 0 BY <2>1, <2>2, FS_EmptySet
  <2> QED BY <2>1, <2>3, <2>4
<1>7. ASSUME NEW i \in D, NEW j \in D, i \notin B(j)
      PROVE  Cardinality(B(j)) < Cardinality(B(i))
  <2>1. B(j) \in SUBSET B(i)
    <3>1. rank[j] < rank[i] \/ (rank[i] = rank[j] /\ j < i) BY <1>1, <1>3, <1>4, <1>7
    <3>2. ASSUME NEW x \in B(j) PROVE x \in B(i)
      <4>1. x \in D /\ x \in Int /\ i \in Int /\ j \in Int BY <1>1, <1>5
      <4>2. rank[x] < rank[j] \/ (rank[x] = rank[j] /\ x <= j) BY <4>1, <1>4
      <4>3. rank[x] \in Int /\ rank[i] \in Int /\ rank[j] \in Int BY <4>1, <1>3
      <4>4. rank[x] < rank[i] \/ (rank[x] = rank[i] /\ x <= i) BY <3>1, <4>1, <4>2, <4>3
      <4> QED BY <4>1, <4>4, <1>4
    <3> QED BY <3>2
  <2>2. B(j) # B(i)
    <3>1. i \in B(i) BY <1>1, <1>3, <1>4
    <3> QED BY <3>1, <1>7
  <2>3. /\ Cardinality(B(j)) <= Cardinality(B(i))
        /\ Cardinality(B(i)) = Cardinality(B(j)) => B(i) = B(j)
    BY <2>1, <1>6, FS_Subset
  <2>4. Cardinality(B(j)) \in Nat /\ Cardinality(B(i)) \in Nat BY <1>6
  <2> QED BY <2>2, <2>3, <2>4
<1>8. \A i, j \in D : Cardinality(B(i)) = Cardinality(B(j)) => i = j
  <2> TAKE i, j \in D
  <2> HAVE Cardinality(B(i)) = Cardinality(B(j))
  <2>1. Cardinality(B(j)) \in Nat /\ Cardinality(B(i)) \in Nat BY <1>6
  <2>2. i \in B(j) /\ j \in B(i) BY <2>1, <1>7
  <2> QED BY <2>2, <1>1, <1>3, <1>4
<1>9. place \in Injection(D, D)
  <2>1. place \in [D -> D] BY <1>1, <1>6
  <2>2. \A i, j \in D : place[i] = place[j] => i = j BY <1>8
  <2> HIDE DEF place
  <2> QED BY <2>1, <2>2 DEF Injection, IsInjective
<1>10. \A p \in D : \E j \in D : Cardinality(B(j)) = p
  <2>1. place \in Surjection(D, D)
    <3> HIDE DEF place
    <3> QED BY <1>2, <1>9, FS_Injection
  <2>2. \A p \in D : \E j \in D : place[j] = p
    <3> HIDE DEF place
    <3> QED BY <2>1 DEF Surjection
  <2> QED BY <2>2
<1> DEFINE o == [p \in D |-> CHOOSE j \in D : Cardinality(B(j)) = p]
<1>11. \A p \in D : o[p] \in D /\ Cardinality(B(o[p])) = p
  BY <1>10
<1>12. ByRank(rank) = o
  BY <1>1 DEF ByRank, B
<1>13. o \in [D -> D]
  <2>1. o = [p \in D |-> o[p]] OBVIOUS
  <2> HIDE DEF o
  <2> QED BY <2>1, <1>11
<1> HIDE DEF o
<1>14. \A i, j \in D : o[i] = o[j] => i = j BY <1>11
<1>15. \A j \in D : \E i \in D : o[i] = j
  <2> TAKE j \in D
  <2>1. PICK p \in D : p = Cardinality(B(j)) BY <1>1, <1>6
  <2>2. o[p] = j BY <2>1, <1>8, <1>11
  <2> QED BY <2>2
<1> QED BY <1>1, <1>12, <1>13, <1>14, <1>15

LEMMA ReorderedComplete ==
  ASSUME Complete(batch), Aligned(batch), NEW rank \in [DOMAIN batch -> Ranks]
  PROVE  /\ Complete(Reordered(ByRank(rank))) /\ Aligned(Reordered(ByRank(rank)))
<1>1. PICK m \in Nat : m = Len(batch) /\ DOMAIN batch = 1..m /\ batch \in Seq(Row)
  BY DEF Complete
<1>2. PICK o : /\ o = ByRank(rank)
               /\ o \in [1..m -> 1..m]
               /\ \A i, j \in 1..m : o[i] = o[j] => i = j
               /\ \A j \in 1..m : \E i \in 1..m : o[i] = j
  <2>1. PICK o : o = ByRank(rank) OBVIOUS
  <2>2. /\ o \in [DOMAIN batch -> DOMAIN batch]
        /\ \A i, j \in DOMAIN batch : o[i] = o[j] => i = j
        /\ \A j \in DOMAIN batch : \E i \in DOMAIN batch : o[i] = j
    BY <1>1, <2>1, RankOrder
  <2> QED BY <1>1, <2>1, <2>2
<1>3. PICK c : c = Reordered(o) /\ c = [j \in 1..m |-> batch[o[j]]]
  BY <1>1 DEF Reordered
<1>4. \A j \in 1..m : c[j] = batch[o[j]] /\ batch[o[j]] \in Row
  BY <1>1, <1>2, <1>3
<1>5. c \in Seq(Row) /\ Len(c) = m
  <2>1. c \in [1..m -> Row] BY <1>1, <1>3, <1>4
  <2> QED BY <2>1
<1>6. Rearranged(c, batch, o)
  BY <1>1, <1>2, <1>4, <1>5 DEF Rearranged
<1> QED BY <1>2, <1>3, <1>6, RearrangedComplete

LEMMA RemaskedComplete ==
  ASSUME NEW b, Complete(b), Aligned(b), NEW mask \in [DOMAIN b -> Masks]
  PROVE  /\ Complete(WithMask(b, mask)) /\ Aligned(WithMask(b, mask))
         /\ DOMAIN WithMask(b, mask) = DOMAIN b
<1>1. PICK m \in Nat : m = Len(b) /\ DOMAIN b = 1..m /\ b \in Seq(Row)
  BY DEF Complete
<1>2. PICK c : c = WithMask(b, mask) /\ c = [j \in 1..m |-> [b[j] EXCEPT !.mask = mask[j]]]
  BY <1>1 DEF WithMask
<1> DEFINE o == [j \in 1..m |-> j]
<1>3. ASSUME NEW j \in 1..m
      PROVE  /\ c[j] \in Row /\ c[j].uid = b[j].uid /\ c[j].from = b[j].from
             /\ c[j].step = b[j].step /\ (c[j].pad <=> b[j].pad)
  <2>1. b[j] \in Row /\ c[j] = [b[j] EXCEPT !.mask = mask[j]] /\ mask[j] \in Masks
    BY <1>1, <1>2
  <2> QED BY <2>1 DEF Row
<1>4. c \in Seq(Row) /\ Len(c) = m /\ DOMAIN c = 1..m
  <2>1. c \in [1..m -> Row]
    <3>1. c = [j \in 1..m |-> c[j]] BY <1>2
    <3> QED BY <3>1, <1>3
  <2> QED BY <2>1, <1>1
<1>5. Rearranged(c, b, o)
  <2>1. o \in [1..m -> 1..m] /\ \A j \in 1..m : o[j] = j OBVIOUS
  <2> HIDE DEF o
  <2> QED BY <2>1, <1>1, <1>3, <1>4 DEF Rearranged
<1> HIDE DEF o
<1> QED BY <1>1, <1>2, <1>4, <1>5, RearrangedComplete

----------------------------------------------------------------------------
LEMMA SameSamples ==
  ASSUME UNCHANGED <<size, steps>>
  PROVE  /\ Samples' = Samples /\ Row' = Row /\ Taken' = Taken
         /\ NumSamples' = NumSamples
         /\ AllTookSteps' <=> AllTookSteps
         /\ Complete(batch)' <=> Complete(batch')
         /\ Aligned(batch)' <=> Aligned(batch')
<1>1. Samples' = Samples /\ NumSamples' = NumSamples BY DEF Samples, NumSamples
<1>2. Row' = Row /\ Taken' = Taken BY <1>1 DEF Row, Taken
<1>3. AllTookSteps' <=> AllTookSteps BY <1>1 DEF AllTookSteps
<1>4. Complete(batch)' <=> Complete(batch') BY <1>2 DEF Complete, Real
<1>5. Aligned(batch)' <=> Aligned(batch') BY DEF Aligned, GenPrompt
<1> QED BY <1>1, <1>2, <1>3, <1>4, <1>5

(* When every worker has returned, every sample took a step and what the   *)
(* workers return is laid out sample by sample.                            *)
LEMMA ConcatLaysOut ==
  ASSUME TypeOK, WaitingForAll, DoneTookSteps, Concat
  PROVE  AllTookSteps' /\ LaidOutBySample'
<1>1. size \in BatchSizes /\ phase = "generating" /\ AllReturned /\ NumChunks = NumWorkers
      /\ UNCHANGED <<size, steps>>
  BY DEF TypeOK, Concat, WaitingForAll
<1>2. PICK n \in Nat : n = NumSamples /\ Samples = 1..n
  BY <1>1, SamplesBounded DEF Samples
<1>3. AllTookSteps
  <2> SUFFICES ASSUME NEW s \in Samples PROVE steps[s] > 0
    BY DEF AllTookSteps
  <2>1. PICK w \in Workers : s \in Chunk(w)
    BY <1>1, ChunksPartition DEF Workers
  <2>2. s \in AllSamples BY <1>1, SamplesBounded
  <2>3. flow[s] = "done"
    BY <1>1, <2>1, <2>2 DEF WaitingForAll, AllReturned
  <2> QED BY <2>2, <2>3 DEF DoneTookSteps
<1>4. PICK c : c = Collected /\ c = [s \in 1..n |-> s] BY <1>1, <1>2, CollectedInOrder
<1>5. Len(c) = n
  <2>1. c \in [1..n -> Nat] BY <1>4
  <2> QED BY <2>1
<1>6. LaidOutBySample'
  <2>1. output' = [num_steps |-> [i \in 1..Len(c) |-> steps[c[i]]],
                   rows |-> FlattenSeq([i \in 1..Len(c) |-> RowsOf(c[i])])]
    BY <1>4 DEF Concat
  <2>2. [i \in 1..Len(c) |-> steps[c[i]]] = [s \in 1..n |-> steps[s]]
    BY <1>4, <1>5
  <2>3. [i \in 1..Len(c) |-> RowsOf(c[i])] = [s \in 1..n |-> RowsOf(s)]
    BY <1>4, <1>5
  <2>4. output' = [num_steps |-> [s \in 1..n |-> steps[s]],
                   rows |-> FlattenSeq([s \in 1..n |-> RowsOf(s)])]
    BY <2>1, <2>2, <2>3
  <2>5. Samples' = 1..n /\ \A s : RowsOf(s)' = RowsOf(s)
    BY <1>1, <1>2, SameSamples DEF RowsOf
  <2> QED BY <2>4, <2>5, <1>1 DEF LaidOutBySample
<1> QED BY <1>1, <1>3, <1>6, SameSamples

LEMMA InitDataInv == Init => DataInv
BY DEF Init, DataInv, DoneTookSteps, Joined, Aligned

LEMMA StepDataInv == TypeOK /\ IInv /\ DataInv /\ [Next]_vars => DataInv'
<1> SUFFICES ASSUME TypeOK, IInv, DataInv, [Next]_vars PROVE DataInv'
  OBVIOUS
<1> USE DEF Joined
<1>1. ASSUME UNCHANGED <<phase, size, flow, steps, output, batch, saved>> PROVE DataInv'
  <2>1. LaidOutBySample' <=> LaidOutBySample
    BY <1>1, SameSamples DEF LaidOutBySample, RowsOf
  <2> QED BY <1>1, <2>1, SameSamples DEF DataInv, DoneTookSteps
<1>2. CASE NextBatch
  <2>1. batch' = <<>> /\ phase' = "waking" BY <1>2 DEF NextBatch
  <2>2. Aligned(batch)' BY <2>1 DEF Aligned
  <2>3. DoneTookSteps' BY <1>2 DEF NextBatch, DoneTookSteps
  <2> QED BY <2>1, <2>2, <2>3 DEF DataInv
<1>3. ASSUME NEW r \in Replicas, WakeReplica(r) \/ SleepReplica(r) PROVE DataInv'
  BY <1>3, <1>1 DEF WakeReplica, SleepReplica
<1>4. ASSUME NEW w \in Workers, WorkerReturns(w) \/ WorkerRaises(w) PROVE DataInv'
  BY <1>4, <1>1 DEF WorkerReturns, WorkerRaises
<1>5. CASE Dispatch
  <2>1. /\ phase' \in {"generating", "crashed"} /\ UNCHANGED <<size, steps, batch>>
        /\ \A s \in AllSamples : flow'[s] # "done"
    BY <1>5 DEF Dispatch
  <2>2. DoneTookSteps' BY <2>1 DEF DoneTookSteps, AllSamples
  <2> QED BY <2>1, <2>2, SameSamples DEF DataInv
<1>6. ASSUME NEW s \in AllSamples, FlowStep(s) \/ FlowDone(s) \/ FlowRaises(s) PROVE DataInv'
  <2>1. phase \in {"generating", "crashed"} /\ UNCHANGED <<phase, size, batch>>
    BY <1>6 DEF IInv, QuietOtherwise, FlowStep, FlowDone, FlowRaises
  <2>2. Aligned(batch)'
    BY <2>1 DEF DataInv, Aligned, GenPrompt
  <2>3. DoneTookSteps'
    <3>1. \A t \in AllSamples : steps[t] \in Nat BY ConstantsAssumption DEF TypeOK
    <3>2. CASE FlowStep(s)
      BY <3>1, <3>2 DEF FlowStep, DataInv, DoneTookSteps, TypeOK
    <3>3. CASE FlowDone(s)
      BY <3>1, <3>3 DEF FlowDone, DataInv, DoneTookSteps, TypeOK
    <3>4. CASE FlowRaises(s)
      BY <3>1, <3>4 DEF FlowRaises, DataInv, DoneTookSteps, TypeOK
    <3> QED BY <3>2, <3>3, <3>4, <1>6
  <2> QED BY <2>1, <2>2, <2>3 DEF DataInv
<1>7. CASE Concat
  <2>1. AllTookSteps' /\ LaidOutBySample'
    BY <1>7, ConcatLaysOut DEF IInv, DataInv
  <2>2. phase' = "sleeping" /\ UNCHANGED <<size, flow, steps, batch>>
    BY <1>7 DEF Concat
  <2> QED BY <2>1, <2>2, SameSamples DEF DataInv, DoneTookSteps
<1>8. CASE SomeRaised
  <2>1. phase' = "crashed" /\ UNCHANGED <<size, flow, steps, batch>>
    BY <1>8 DEF SomeRaised
  <2> QED BY <2>1, SameSamples DEF DataInv, DoneTookSteps
<1>9. ASSUME UNCHANGED <<size, flow, steps>>, phase' # "sleeping",
             Joined' => AllTookSteps /\ Complete(batch'),
             phase' = "critic" => saved' \in [DOMAIN batch' -> Masks],
             Aligned(batch')
      PROVE  DataInv'
  BY <1>9, SameSamples DEF DataInv, DoneTookSteps
<1>10. CASE Join
  <2>1. JoinOf(batch') BY <1>10 DEF Join, JoinOf
  <2>2. phase = "sleeping" /\ phase' = "joined" /\ UNCHANGED <<size, flow, steps>>
    BY <1>10 DEF Join
  <2>3. AllTookSteps /\ LaidOutBySample BY <2>2 DEF DataInv
  <2>4. Complete(batch') /\ Aligned(batch')
    BY <2>1, <2>3, JoinedComplete
  <2> QED BY <2>2, <2>3, <2>4, <1>9
<1>11. CASE Pad
  <2>1. phase = "joined" /\ phase' = "padded" /\ batch' = Padded(batch) /\ UNCHANGED <<size, flow, steps>>
    BY <1>11 DEF Pad
  <2>2. AllTookSteps /\ Complete(batch) /\ Aligned(batch)
    BY <2>1 DEF DataInv
  <2>3. Complete(batch') /\ Aligned(batch')
    BY <2>1, <2>2, PaddedComplete
  <2> QED BY <2>1, <2>2, <2>3, <1>9
<1>12. CASE Balance
  <2>1. phase = "padded" /\ phase' = "balanced" /\ UNCHANGED <<size, flow, steps>>
    BY <1>12 DEF Balance
  <2>2. PICK rank \in [DOMAIN batch -> Ranks] : batch' = Reordered(ByRank(rank))
    BY <1>12 DEF Balance
  <2>3. AllTookSteps /\ Complete(batch) /\ Aligned(batch)
    BY <2>1 DEF DataInv
  <2>4. Complete(batch') /\ Aligned(batch')
    BY <2>2, <2>3, ReorderedComplete
  <2> QED BY <2>1, <2>3, <2>4, <1>9
<1>13. CASE UpdateCritic
  <2>1. phase = "balanced" /\ phase' = "critic" /\ UNCHANGED <<size, flow, steps>>
    BY <1>13 DEF UpdateCritic
  <2>2. AllTookSteps /\ Complete(batch) /\ Aligned(batch)
    BY <2>1 DEF DataInv
  <2>3. PICK mask : /\ mask = [j \in DOMAIN batch |-> batch[j].mask] /\ saved' = mask
                    /\ batch' = WithMask(batch, CriticMask(mask))
    BY <1>13 DEF UpdateCritic
  <2>4. mask \in [DOMAIN batch -> Masks]
    <3>1. batch \in Seq(Row) BY <2>2 DEF Complete
    <3>2. \A j \in DOMAIN batch : batch[j] \in Row BY <3>1
    <3>3. \A j \in DOMAIN batch : batch[j].mask \in Masks BY <3>2 DEF Row
    <3> QED BY <2>3, <3>3
  <2>5. CriticMask(mask) \in [DOMAIN batch -> Masks] BY <2>4 DEF CriticMask, Masks
  <2>6. Complete(batch') /\ Aligned(batch') /\ DOMAIN batch' = DOMAIN batch
    BY <2>2, <2>3, <2>5, RemaskedComplete
  <2>7. saved' \in [DOMAIN batch' -> Masks] BY <2>3, <2>4, <2>6
  <2> QED BY <2>1, <2>2, <2>6, <2>7, <1>9
<1>14. CASE UpdateActor
  <2>1. phase = "critic" /\ phase' = "actor" /\ UNCHANGED <<size, flow, steps>>
        /\ batch' = WithMask(batch, saved)
    BY <1>14 DEF UpdateActor
  <2>2. AllTookSteps /\ Complete(batch) /\ Aligned(batch) /\ saved \in [DOMAIN batch -> Masks]
    BY <2>1 DEF DataInv
  <2>3. Complete(batch') /\ Aligned(batch')
    BY <2>1, <2>2, RemaskedComplete
  <2> QED BY <2>1, <2>2, <2>3, <1>9
<1>15. CASE EndIteration
  <2>1. phase' = "idle" /\ UNCHANGED <<size, flow, steps, batch>>
    BY <1>15 DEF EndIteration
  <2> QED BY <2>1, <1>9 DEF DataInv
<1>16. CASE UNCHANGED vars
  BY <1>16, <1>1 DEF vars
<1> QED
  BY <1>2, <1>3, <1>4, <1>5, <1>6, <1>7, <1>8, <1>10, <1>11, <1>12, <1>13, <1>14, <1>15, <1>16
     DEF Next

LEMMA Invariants == Spec => [](TypeOK /\ IInv /\ DataInv)
BY InitIInv, StepIInv, InitDataInv, StepDataInv, RolloutTypes, PTL DEF Spec

(* The uid of a row is always that of the prompt its trajectory answered,  *)
(* for every batch size, number of workers and order of the flows.         *)
THEOREM AlignedSafe == Spec => []RowsAligned
<1>1. DataInv => RowsAligned BY DEF DataInv, Aligned, RowsAligned
<1> QED BY <1>1, Invariants, PTL

(* From the padding on, the rows that are not padding are every step of    *)
(* every trajectory, exactly once, however the rows are dealt to the ranks.*)
THEOREM EveryStepSafe == Spec => []EveryStepOnce
<1>1. DataInv => EveryStepOnce
  BY DEF DataInv, Joined, EveryStepOnce, Complete, Taken, RealRows, Real
<1> QED BY <1>1, Invariants, PTL

----------------------------------------------------------------------------
(* The samples of a prompt are RolloutN consecutive ones.                  *)
LEMMA PromptOf ==
  ASSUME NEW n \in Nat \ {0}, NEW s \in 1..(n * RolloutN)
  PROVE  /\ GenPrompt(s) \in 1..n
         /\ \A p \in 1..n : s \in (p - 1) * RolloutN + 1 .. p * RolloutN => p = GenPrompt(s)
         /\ s \in (GenPrompt(s) - 1) * RolloutN + 1 .. GenPrompt(s) * RolloutN
<1>1. PICK k \in Nat \ {0} : k = RolloutN BY ConstantsAssumption
<1>2. s \in Nat \ {0} /\ s <= n * k
  <2>1. n * k \in Nat BY <1>1
  <2> QED BY <2>1, <1>1
<1>3. PICK g \in Nat \ {0} : g = GenPrompt(s) /\ k * (g - 1) < s /\ s <= k * g
  BY <1>1, <1>2, CeilDivBounds DEF GenPrompt
<1>4. ASSUME NEW p \in Nat \ {0}, NEW q \in Nat \ {0}, k * (p - 1) < k * q
      PROVE  p <= q
  <2>1. p - 1 < q BY <1>4, MulCancel
  <2> QED BY <2>1
<1>5. \A p \in Nat \ {0} : k * (p - 1) \in Int /\ k * p \in Nat /\ k * p = p * k /\ k * (p - 1) = (p - 1) * k
  BY <1>1
<1>6. g <= n
  <2>1. k * (g - 1) < k * n BY <1>1, <1>2, <1>3, <1>5
  <2> QED BY <2>1, <1>4
<1>7. ASSUME NEW p \in 1..n, s \in (p - 1) * k + 1 .. p * k PROVE p = g
  <2>1. p \in Nat \ {0} OBVIOUS
  <2>2. k * (p - 1) < s /\ s <= k * p BY <2>1, <1>5, <1>7
  <2>3. k * (p - 1) < k * g /\ k * (g - 1) < k * p BY <2>1, <2>2, <1>2, <1>3, <1>5
  <2>4. p <= g /\ g <= p BY <2>1, <2>3, <1>4
  <2> QED BY <2>1, <2>4
<1>8. s \in (g - 1) * k + 1 .. g * k
  BY <1>2, <1>3, <1>5
<1> QED BY <1>1, <1>3, <1>6, <1>7, <1>8

(* What the trainer sees of a complete batch is what it may rely on.       *)
Seen(rows) == {<<rows[j].uid, rows[j].from, rows[j].step>> : j \in Real(rows)}

LEMMA SeenIs ==
  ASSUME NEW b, Complete(b), Aligned(b)
  PROVE  Seen(b) = {<<GenPrompt(t[1]), t[1], t[2]>> : t \in Taken}
<1>1. ASSUME NEW j \in Real(b)
      PROVE  /\ <<b[j].from, b[j].step>> \in Taken
             /\ b[j].uid = GenPrompt(b[j].from)
  BY DEF Complete, Aligned, Real
<1>2. ASSUME NEW t \in Taken PROVE \E j \in Real(b) : t = <<b[j].from, b[j].step>>
  BY DEF Complete
<1>3. ASSUME NEW j \in Real(b)
      PROVE  \E t \in Taken : <<b[j].uid, b[j].from, b[j].step>> = <<GenPrompt(t[1]), t[1], t[2]>>
  <2>1. PICK t \in Taken : t = <<b[j].from, b[j].step>> BY <1>1
  <2>2. t[1] = b[j].from /\ t[2] = b[j].step BY <2>1
  <2> QED BY <2>2, <1>1
<1>4. ASSUME NEW t \in Taken
      PROVE  \E j \in Real(b) : <<b[j].uid, b[j].from, b[j].step>> = <<GenPrompt(t[1]), t[1], t[2]>>
  <2>1. PICK j \in Real(b) : t = <<b[j].from, b[j].step>> BY <1>2
  <2>2. t[1] = b[j].from /\ t[2] = b[j].step BY <2>1
  <2> QED BY <2>2, <1>1
<1> QED BY <1>3, <1>4 DEF Seen

LEMMA SeenIsPromised ==
  ASSUME TypeOK, AllTookSteps, NEW b, Complete(b), Aligned(b)
  PROVE  \E n \in 1..MaxPrompts :
           \E length \in [1..(n * RolloutN) -> 1..MaxSteps] :
             Seen(b) = Call!RowsFor(n, length)
<1>1. PICK n \in Nat \ {0} : n = size /\ n \in 1..MaxPrompts
  <2>1. size \in Nat \ {0} /\ MaxPrompts \in Nat /\ size <= MaxPrompts
    BY LargestBatch, ConstantsAssumption DEF TypeOK
  <2> QED BY <2>1
<1>2. PICK m \in Nat \ {0} : m = n * RolloutN /\ Samples = 1..m /\ Samples \subseteq AllSamples
  BY <1>1, SamplesBounded DEF TypeOK, Samples
<1>3. \A s \in 1..m : steps[s] \in 1..MaxSteps
  BY <1>2, ConstantsAssumption DEF TypeOK, AllTookSteps
<1>4. PICK length \in [1..m -> 1..MaxSteps] : length = [s \in 1..m |-> steps[s]]
  BY <1>3
<1>5. PICK R : R = Call!RowsFor(n, length) OBVIOUS
<1>6. R = {r \in (1..n) \X (1..m) \X (1..MaxSteps) :
             /\ r[2] \in (r[1] - 1) * RolloutN + 1 .. r[1] * RolloutN
             /\ r[3] <= length[r[2]]}
  BY <1>2, <1>5 DEF Call!RowsFor
<1>7. ASSUME NEW t \in Taken PROVE <<GenPrompt(t[1]), t[1], t[2]>> \in R
  <2>1. t[1] \in 1..m /\ t[2] \in 1..MaxSteps /\ t[2] <= steps[t[1]]
    BY <1>2 DEF Taken
  <2>2. PICK s \in 1..m, k \in 1..MaxSteps : s = t[1] /\ k = t[2] BY <2>1
  <2>3. PICK g \in 1..n : g = GenPrompt(s) /\ s \in (g - 1) * RolloutN + 1 .. g * RolloutN
    BY <1>2, PromptOf
  <2>4. k <= length[s] BY <2>1, <2>2, <1>4
  <2>5. <<g, s, k>> \in R
    BY <2>3, <2>4, <1>6
  <2> QED BY <2>2, <2>3, <2>5
<1>8. ASSUME NEW r \in R PROVE \E t \in Taken : r = <<GenPrompt(t[1]), t[1], t[2]>>
  <2>1. r \in (1..n) \X (1..m) \X (1..MaxSteps) BY <1>6
  <2>2. PICK p \in 1..n, s \in 1..m, k \in 1..MaxSteps : r = <<p, s, k>> BY <2>1
  <2>3. s \in (p - 1) * RolloutN + 1 .. p * RolloutN /\ k <= length[s] BY <2>2, <1>6
  <2>4. p = GenPrompt(s) BY <2>3, <1>2, PromptOf
  <2>5. k <= steps[s] BY <2>3, <1>4
  <2>6. <<s, k>> \in Taken BY <2>5, <1>2 DEF Taken
  <2> QED BY <2>2, <2>4, <2>6
<1>9. Seen(b) = {<<GenPrompt(t[1]), t[1], t[2]>> : t \in Taken} BY SeenIs
<1>10. Seen(b) = R
  BY <1>7, <1>8, <1>9
<1>11. length \in [1..(n * RolloutN) -> 1..MaxSteps] BY <1>2
<1> QED BY <1>1, <1>5, <1>10, <1>11

LEMMA SeenKept ==
  ASSUME UNCHANGED <<size, steps>>, Complete(batch), Aligned(batch),
         Complete(batch)', Aligned(batch)'
  PROVE  Seen(batch)' = Seen(batch)
<1>1. Seen(batch) = {<<GenPrompt(t[1]), t[1], t[2]>> : t \in Taken} BY SeenIs
<1>2. Complete(batch') /\ Aligned(batch') BY SameSamples
<1>3. Seen(batch') = {<<GenPrompt(t[1]), t[1], t[2]>> : t \in Taken} BY <1>2, SeenIs
<1>4. Seen(batch)' = Seen(batch') BY DEF Seen, Real
<1> QED BY <1>1, <1>3, <1>4

(* The state of the call, as the trainer sees it.                          *)
Stage ==
  IF phase \in {"idle", "crashed"} THEN phase ELSE IF Delivered THEN "ready" ELSE "called"

InHand == IF Delivered THEN Seen(batch) ELSE {}

StageStep ==
  \/ Stage = "idle" /\ Stage' = "called" /\ InHand' = {}
  \/ /\ Stage = "called" /\ Stage' = "ready"
     /\ \E n \in 1..MaxPrompts :
          \E length \in [1..(n * RolloutN) -> 1..MaxSteps] : InHand' = Call!RowsFor(n, length)
  \/ Stage = "called" /\ Stage' = "crashed" /\ InHand' = {}
  \/ Stage = "ready" /\ Stage' = "idle" /\ InHand' = {}
  \/ Stage' = Stage /\ InHand' = InHand

LEMMA CallStep ==
  ASSUME TypeOK, IInv, DataInv, TypeOK', DataInv', [Next]_vars
  PROVE  StageStep
<1> USE DEF Delivered
<1>1. ASSUME UNCHANGED <<size, steps>>, Delivered, Delivered' PROVE StageStep
  <2>1. Complete(batch) /\ Aligned(batch) /\ Complete(batch)' /\ Aligned(batch)'
    BY <1>1 DEF DataInv, Joined
  <2>2. Seen(batch)' = Seen(batch) BY <2>1, <1>1, SeenKept
  <2>3. Stage' = Stage /\ InHand' = InHand BY <2>2, <1>1 DEF Stage, InHand
  <2> QED BY <2>3 DEF StageStep
<1>2. ASSUME UNCHANGED phase, ~Delivered PROVE StageStep
  <2>1. Stage' = Stage /\ InHand' = InHand BY <1>2 DEF Stage, InHand
  <2> QED BY <2>1 DEF StageStep
<1>3. CASE NextBatch
  BY <1>3 DEF NextBatch, StageStep, Stage, InHand
<1>4. ASSUME NEW r \in Replicas, WakeReplica(r) \/ SleepReplica(r) PROVE StageStep
  BY <1>4, <1>2 DEF WakeReplica, SleepReplica
<1>5. CASE Dispatch
  BY <1>5 DEF Dispatch, StageStep, Stage, InHand
<1>6. ASSUME NEW s \in AllSamples, FlowStep(s) \/ FlowDone(s) \/ FlowRaises(s) PROVE StageStep
  <2>1. phase \in {"generating", "crashed"} /\ UNCHANGED phase
    BY <1>6 DEF IInv, QuietOtherwise, FlowStep, FlowDone, FlowRaises
  <2> QED BY <2>1, <1>2
<1>7. ASSUME NEW w \in Workers, WorkerReturns(w) \/ WorkerRaises(w) PROVE StageStep
  <2>1. UNCHANGED <<phase, size, steps>> BY <1>7 DEF WorkerReturns, WorkerRaises
  <2> QED BY <2>1, <1>1, <1>2
<1>8. CASE Concat
  BY <1>8 DEF Concat, StageStep, Stage, InHand
<1>9. CASE SomeRaised
  BY <1>9 DEF SomeRaised, StageStep, Stage, InHand
<1>10. CASE Join
  BY <1>10 DEF Join, StageStep, Stage, InHand
<1>11. CASE Pad
  <2>1. phase = "joined" /\ phase' = "padded" /\ UNCHANGED <<size, steps>>
    BY <1>11 DEF Pad
  <2>2. AllTookSteps /\ Complete(batch') /\ Aligned(batch')
    BY <2>1, SameSamples DEF DataInv, Joined
  <2>3. \E n \in 1..MaxPrompts :
          \E length \in [1..(n * RolloutN) -> 1..MaxSteps] :
            Seen(batch') = Call!RowsFor(n, length)
    BY <2>2, SeenIsPromised
  <2>4. InHand' = Seen(batch') BY <2>1 DEF InHand, Seen, Real
  <2>5. Stage = "called" /\ Stage' = "ready" BY <2>1 DEF Stage
  <2> QED BY <2>3, <2>4, <2>5 DEF StageStep
<1>12. CASE Balance \/ UpdateCritic \/ UpdateActor
  BY <1>12, <1>1 DEF Balance, UpdateCritic, UpdateActor
<1>13. CASE EndIteration
  BY <1>13 DEF EndIteration, StageStep, Stage, InHand
<1>14. CASE UNCHANGED vars
  BY <1>14, <1>1, <1>2 DEF vars
<1> QED
  BY <1>3, <1>4, <1>5, <1>6, <1>7, <1>8, <1>9, <1>10, <1>11, <1>12, <1>13, <1>14 DEF Next

(* Seen from the trainer, the manager, its workers, the flows and the      *)
(* joining of their rows are one call that raises or delivers, for every   *)
(* sample of the batch, the whole trajectory of its prompt, and keeps what *)
(* it delivered until the iteration ends.                                  *)
THEOREM CallRefined == Spec => CallSpec
<1>1. Init => Call!CInit
  BY DEF Init, Call!CInit, Delivered
<1>2. TypeOK /\ IInv /\ DataInv /\ (TypeOK /\ IInv /\ DataInv)' /\ [Next]_vars
        => [Call!CNext]_(Call!cvars)
  <2> SUFFICES ASSUME TypeOK, IInv, DataInv, TypeOK', DataInv', [Next]_vars
               PROVE  [Call!CNext]_(Call!cvars)
    OBVIOUS
  <2>1. StageStep BY CallStep
  <2> QED
    BY <2>1 DEF StageStep, Stage, InHand, Seen, Real, RealRows,
                Call!CNext, Call!BeginCall, Call!Deliver, Call!Raise, Call!EndCall, Call!cvars
<1> QED BY <1>1, <1>2, Invariants, PTL DEF Spec, CallSpec, Call!CSpec

================================================================================
