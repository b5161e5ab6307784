--------------------------- MODULE TrainerLoop_proofs ---------------------------
(***************************************************************************)
(* What holds of TrainerLoop for every length of training, every save      *)
(* frequency and any number of restarts, unless only one checkpoint is     *)
(* kept (MaxKeep = 1 removes the tracked one before its successor is        *)
(* written).                                                               *)
(***************************************************************************)
EXTENDS TrainerLoop, SequenceTheorems, TLAPS

Gone == {"down", "failed"}
Between == {"loop", "finished"}

(* Memory: what a process has done is what its counters say. *)
MemoryInv ==
  /\ phase \in Gone =>
       /\ global_step = 0 /\ epoch = 0 /\ loader = StartOfData /\ last = FALSE
       /\ actor = <<>> /\ critic = <<>> /\ prevActor = <<>> /\ prevCritic = <<>>
  /\ phase \notin Gone =>
       /\ global_step >= 1 /\ life >= 1
       /\ Len(critic) = IF phase \in Between \cup {"batch"} THEN global_step - 1 ELSE global_step
       /\ Served = IF phase \in Between THEN global_step - 1 ELSE global_step
       /\ actor = ActorOf(critic)
       /\ \A i \in DOMAIN critic : critic[i].batch = i
       /\ loader.pass <= epoch /\ epoch <= loader.pass + EpochsLost
       /\ Served <= MaxStep
  /\ phase \notin Gone \cup Between => epoch < TotalEpochs

(* is_last_step, and why the loop may come to its end without it. *)
LastInv ==
  /\ phase = "loop" => ~last /\ (global_step <= TotalSteps \/ tracker.step = global_step - 1)
  /\ phase \notin Gone \cup Between => last = (global_step >= TotalSteps)
  /\ phase = "step_end" /\ last /\ SaveFreq > 0 => tracker.step = global_step

(* The tracker names a step before the one being made. *)
TrackerInv ==
  /\ phase \notin Gone \cup {"write_tracker"} => tracker.readable
  /\ phase \notin Gone =>
       tracker.step < global_step \/ (phase = "step_end" /\ tracker.step = global_step)
  /\ tracker.step > 0 => life >= 1

(* The tracked files, and those of the checkpoint being written. *)
AfterActor == {"rotate_critic", "write_critic", "write_data", "open_tracker", "write_tracker"}
AfterCritic == {"write_data", "open_tracker", "write_tracker"}
AfterData == {"open_tracker", "write_tracker"}

FilesInv ==
  /\ TrackedCheckpointComplete
  /\ tracker.step > 0 => \A i \in DOMAIN ckCritic[tracker.step] : ckCritic[tracker.step][i].batch = i
  /\ phase \in AfterActor => global_step \in DOMAIN ckActor /\ ckActor[global_step] = actor
  /\ phase \in AfterCritic => global_step \in DOMAIN ckCritic /\ ckCritic[global_step] = critic
  /\ phase \in AfterData => global_step \in DOMAIN ckData /\ ckData[global_step] = loader

(* previous_saved_paths are distinct, and the last of them is the tracked   *)
(* one until its successor is written.                                      *)
Newest(prev, step) ==
  /\ \A i, j \in DOMAIN prev : i < j => prev[i] < prev[j]
  /\ prev # <<>> => prev[Len(prev)] = step

PrevInv ==
  /\ Newest(prevActor, IF phase \in AfterActor THEN global_step ELSE tracker.step) \/ phase \in Gone
  /\ Newest(prevCritic, IF phase \in AfterCritic THEN global_step ELSE tracker.step) \/ phase \in Gone

IInv == TypeOK /\ MemoryInv /\ LastInv /\ TrackerInv /\ FilesInv /\ PrevInv

USE ConstantsAssumption DEF ConstantsAssumption
-----------------------------------------------------------------------------
(* Arithmetic of passes and positions.                                     *)

LEMMA StepsAreNat == MaxStep \in Nat
BY DEF MaxStep

LEMMA StepBound ==
  ASSUME NEW pass \in Nat, NEW pos \in 0..EpochLen, pass < TotalEpochs
  PROVE  pass * EpochLen + pos <= MaxStep
<1>1. (pass + 1) * EpochLen <= TotalEpochs * EpochLen
  <2>1. PICK d \in Nat : TotalEpochs = pass + 1 + d
    <3>1. TotalEpochs - (pass + 1) \in Nat
      OBVIOUS
    <3> QED BY <3>1
  <2>2. TotalEpochs * EpochLen = (pass + 1) * EpochLen + d * EpochLen
    BY <2>1
  <2>3. d * EpochLen >= 0
    OBVIOUS
  <2> QED BY <2>2, <2>3
<1>2. (pass + 1) * EpochLen = pass * EpochLen + EpochLen
  OBVIOUS
<1>3. TotalEpochs * EpochLen = MaxStep
  BY DEF MaxStep
<1> QED BY <1>1, <1>2, <1>3

LEMMA Multiples ==
  ASSUME NEW a \in Int, NEW b \in Int, a < b
  PROVE  a * EpochLen + EpochLen <= b * EpochLen
<1>1. PICK d \in Nat : b = a + 1 + d
  <2>1. b - (a + 1) \in Nat
    OBVIOUS
  <2> QED BY <2>1
<1>2. b * EpochLen = a * EpochLen + EpochLen + d * EpochLen
  BY <1>1
<1>3. d * EpochLen >= 0
  OBVIOUS
<1> QED BY <1>2, <1>3

(* The epoch computed from a step, against the position saved with it.     *)
LEMMA EpochOfStep ==
  ASSUME NEW pass \in Nat, NEW pos \in 0..EpochLen, NEW k \in 0..MaxStep,
         k = pass * EpochLen + pos
  PROVE  /\ ResumedEpoch(k) = IF pos < EpochLen THEN pass ELSE pass + 1
         /\ ResumedEpoch(k) \in 0..TotalEpochs
<1> DEFINE q == k \div EpochLen
<1>1. q \in Int /\ q * EpochLen <= k /\ k < q * EpochLen + EpochLen
  <2>1. k = q * EpochLen + (k % EpochLen) /\ k % EpochLen \in 0..EpochLen - 1 /\ q \in Int
    OBVIOUS
  <2> QED BY <2>1
<1>2. (pass + 1) * EpochLen = pass * EpochLen + EpochLen
  OBVIOUS
<1>3. q = IF pos < EpochLen THEN pass ELSE pass + 1
  <2>1. CASE pos < EpochLen
    <3>1. ~(q < pass)
      BY <1>1, <2>1, Multiples
    <3>2. ~(pass < q)
      BY <1>1, <2>1, Multiples
    <3> QED BY <1>1, <2>1, <3>1, <3>2
  <2>2. CASE pos = EpochLen
    <3>1. k = (pass + 1) * EpochLen /\ pass + 1 \in Int
      BY <1>2, <2>2
    <3>2. ~(q < pass + 1)
      BY <1>1, <3>1, Multiples
    <3>3. ~(pass + 1 < q)
      BY <1>1, <3>1, Multiples
    <3> QED BY <1>1, <2>2, <3>2, <3>3
  <2> QED BY <2>1, <2>2
<1>4. q <= TotalEpochs
  <2>1. k <= TotalEpochs * EpochLen
    BY DEF MaxStep
  <2>2. ~(TotalEpochs < q)
    BY <1>1, <2>1, Multiples
  <2> QED BY <1>1, <2>2
<1> QED BY <1>3, <1>4 DEF ResumedEpoch
-----------------------------------------------------------------------------
(* The actor's weights are the critic's without the updates of the warm-up. *)

LEMMA ActorOfEmpty == ActorOf(<<>>) = <<>>
<1>1. IF CriticWarmup = 0 THEN 1 \in Int /\ 1 > 0 ELSE CriticWarmup \in Int /\ CriticWarmup > 0
  OBVIOUS
<1> QED BY <1>1, SubSeqEmpty DEF ActorOf

LEMMA ActorOfAppend ==
  ASSUME NEW S, NEW w \in Seq(S), NEW u \in S
  PROVE  /\ ActorOf(w) \in Seq(S)
         /\ ActorOf(Append(w, u)) = IF CriticWarmup <= Len(w) + 1 THEN Append(ActorOf(w), u)
                                   ELSE ActorOf(w)
<1> DEFINE m == IF CriticWarmup = 0 THEN 1 ELSE CriticWarmup
           n == Len(w)
           v == Append(w, u)
<1>0. /\ m \in Nat \ {0} /\ n \in Nat /\ v \in Seq(S) /\ Len(v) = n + 1
      /\ \A i \in 1..n : w[i] \in S /\ v[i] = w[i]
      /\ v[n + 1] = u
  BY AppendProperties
<1>1. /\ ActorOf(w) \in Seq(S)
      /\ Len(ActorOf(w)) = IF m <= n THEN n - m + 1 ELSE 0
      /\ \A i \in 1..n - m + 1 : ActorOf(w)[i] = w[m + i - 1]
  <2>1. \A i \in m..n : w[i] \in S
    BY <1>0
  <2>2. ActorOf(w) = SubSeq(w, m, n) /\ m \in Int /\ n \in Int
    BY <1>0 DEF ActorOf
  <2> HIDE DEF m, n
  <2> QED BY <2>1, <2>2, SubSeqProperties
<1>2. /\ ActorOf(v) \in Seq(S)
      /\ Len(ActorOf(v)) = IF m <= n + 1 THEN n + 1 - m + 1 ELSE 0
      /\ \A i \in 1..n + 1 - m + 1 : ActorOf(v)[i] = v[m + i - 1]
  <2>1. \A i \in m..n + 1 : v[i] \in S
    BY <1>0
  <2> DEFINE l == n + 1
  <2>2. ActorOf(v) = SubSeq(v, m, l) /\ m \in Int /\ l \in Int
    BY <1>0 DEF ActorOf
  <2>3. l = n + 1
    OBVIOUS
  <2> HIDE DEF m, n, v, l
  <2>4. /\ ActorOf(v) \in Seq(S)
        /\ Len(ActorOf(v)) = IF m <= l THEN l - m + 1 ELSE 0
        /\ \A i \in 1..l - m + 1 : ActorOf(v)[i] = v[m + i - 1]
    BY <2>1, <2>2, <2>3, SubSeqProperties
  <2> QED BY <1>0, <2>3, <2>4
<1>3. CriticWarmup <= n + 1 <=> m <= n + 1
  BY <1>0
<1> HIDE DEF m, n, v
<1>4. CASE m <= n + 1
  <2> DEFINE x == ActorOf(w)
             y == ActorOf(v)
             z == Append(x, u)
             k == n - m + 1
  <2>1. k \in Nat /\ Len(x) = k /\ Len(y) = k + 1
    BY <1>0, <1>1, <1>2, <1>4
  <2>2. z \in Seq(S) /\ Len(z) = k + 1 /\ z[k + 1] = u /\ \A i \in 1..k : z[i] = x[i]
    BY <1>1, <2>1, AppendProperties
  <2>3. ASSUME NEW i \in 1..k + 1 PROVE y[i] = z[i]
    <3>1. CASE i \in 1..k
      <4>1. x[i] = w[m + i - 1] /\ y[i] = v[m + i - 1] /\ m + i - 1 \in 1..n
        BY <1>0, <1>1, <1>2, <3>1
      <4> QED BY <4>1, <1>0, <2>2, <3>1
    <3>2. CASE i = k + 1
      <4>1. y[i] = v[n + 1]
        <5>1. m + i - 1 = n + 1 /\ i \in 1..n + 1 - m + 1
          BY <1>0, <1>4, <3>2
        <5> QED BY <5>1, <1>2
      <4>2. v[n + 1] = u
        BY <1>0
      <4>3. z[i] = u
        BY <2>2, <3>2
      <4> HIDE DEF y, z
      <4> QED BY <4>1, <4>2, <4>3
    <3> QED BY <2>1, <3>1, <3>2
  <2>4. y = z
    <3> HIDE DEF x, y, z, k
    <3>1. y \in Seq(S)
      BY <1>2 DEF y
    <3> QED BY <2>1, <2>2, <2>3, <3>1, SeqEqual
  <2> QED BY <1>1, <1>3, <1>4, <2>4 DEF v, n
<1>5. CASE ~(m <= n + 1)
  <2>1. Len(ActorOf(w)) = 0 /\ Len(ActorOf(v)) = 0
    BY <1>0, <1>1, <1>2, <1>5
  <2>2. ActorOf(w) = <<>> /\ ActorOf(v) = <<>>
    BY <1>1, <1>2, <2>1, EmptySeq
  <2> QED BY <1>1, <1>3, <1>5, <2>2 DEF v, n
<1> QED BY <1>4, <1>5
-----------------------------------------------------------------------------
(* previous_saved_paths, and the directories.                              *)

LEMMA PrefixOfAppend ==
  ASSUME NEW S, NEW w \in Seq(S), NEW u \in S
  PROVE  Len(Append(w, u)) = Len(w) + 1 /\ SubSeq(Append(w, u), 1, Len(w)) = w
<1> DEFINE n == Len(w)
           v == Append(w, u)
           t == SubSeq(v, 1, n)
<1>1. /\ v \in Seq(S) /\ n \in Nat /\ Len(v) = n + 1
      /\ \A i \in 1..n : v[i] = w[i] /\ w[i] \in S
  BY AppendProperties
<1>2. /\ t \in Seq(S)
      /\ Len(t) = IF 1 <= n THEN n - 1 + 1 ELSE 0
      /\ \A i \in 1..n - 1 + 1 : t[i] = v[1 + i - 1]
  <2>1. \A i \in 1..n : v[i] \in S
    BY <1>1
  <2> HIDE DEF n, v
  <2> QED BY <1>1, <2>1, SubSeqProperties
<1>3. Len(t) = n /\ \A i \in 1..n : t[i] = w[i]
  <2> HIDE DEF n, v, t
  <2> QED BY <1>1, <1>2
<1>4. t = w
  <2>1. n = Len(w)
    OBVIOUS
  <2> HIDE DEF v, t, n
  <2> QED BY <1>2, <1>3, <2>1, SeqEqual
<1> QED BY <1>1, <1>4 DEF t, v, n

LEMMA Rotated ==
  ASSUME MaxKeep # 1, NEW S, NEW prev \in Seq(S), S \subseteq Nat,
         NEW step, Newest(prev, step)
  PROVE  /\ Kept(prev) \in Seq(S)
         /\ Newest(Kept(prev), step)
         /\ step \notin Removed(prev)
<1> DEFINE n == Len(prev)
           ks == KeepStart(prev)
           kept == Kept(prev)
<1>0. n \in Nat /\ DOMAIN prev = 1..n /\ (\A i \in 1..n : prev[i] \in S)
  OBVIOUS
<1>1. /\ n \in Nat /\ ks \in 0..n
      /\ n > 0 => ks < n
      /\ DOMAIN prev = 1..n
      /\ \A i \in 1..n : prev[i] \in S /\ prev[i] \in Nat
      /\ prev # <<>> => n > 0
  <2>1. \A i \in 1..n : prev[i] \in S /\ prev[i] \in Nat
    BY <1>0
  <2>2. prev # <<>> => n > 0
    BY <1>0, EmptySeq
  <2>3. ks = IF MaxKeep > 0 /\ n >= MaxKeep THEN n - MaxKeep + 1 ELSE 0
    BY DEF KeepStart
  <2>4. ks \in 0..n /\ (n > 0 => ks < n)
    <3> HIDE DEF n, ks
    <3> QED BY <1>0, <2>3
  <2> QED BY <1>0, <2>1, <2>2, <2>4
<1>2. /\ \A i, j \in 1..n : i < j => prev[i] < prev[j]
      /\ n > 0 => prev[n] = step
  BY <1>1 DEF Newest
<1>3. /\ kept \in Seq(S) /\ Len(kept) = n - ks
      /\ \A i \in 1..n - ks : kept[i] = prev[ks + i]
  <2> DEFINE l == ks + 1
  <2>1. \A i \in l..n : prev[i] \in S
    BY <1>1
  <2>2. kept = SubSeq(prev, l, n) /\ l \in Int /\ n \in Int
    BY <1>1 DEF Kept
  <2>3. l = ks + 1
    OBVIOUS
  <2> HIDE DEF l, n, ks, kept
  <2>4. /\ kept \in Seq(S)
        /\ Len(kept) = IF l <= n THEN n - l + 1 ELSE 0
        /\ \A i \in 1..n - l + 1 : kept[i] = prev[l + i - 1]
    BY <2>1, <2>2, SubSeqProperties
  <2>5. n - l + 1 = n - ks /\ \A i \in 1..n - ks : l + i - 1 = ks + i
    BY <1>1, <2>3
  <2>6. l <= n \/ n - ks = 0
    BY <1>1, <2>3
  <2>7. Len(kept) = n - ks
    BY <1>1, <2>3, <2>4, <2>6
  <2>8. \A i \in 1..n - ks : kept[i] = prev[ks + i]
    BY <2>4, <2>5
  <2> QED BY <2>4, <2>7, <2>8
<1> HIDE DEF n, ks, kept
<1>4. Newest(kept, step)
  <2>1. DOMAIN kept = 1..n - ks /\ n - ks \in Nat
    BY <1>1, <1>3
  <2>2. ASSUME NEW i \in DOMAIN kept, NEW j \in DOMAIN kept, i < j
        PROVE  kept[i] < kept[j]
    <3>1. ks + i \in 1..n /\ ks + j \in 1..n /\ ks + i < ks + j
      BY <1>1, <2>1, <2>2
    <3>2. kept[i] = prev[ks + i] /\ kept[j] = prev[ks + j]
      BY <1>3, <2>1, <2>2
    <3> QED BY <3>1, <3>2, <1>2
  <2>3. ASSUME kept # <<>> PROVE kept[Len(kept)] = step
    <3>1. n - ks # 0
      BY <1>3, <2>3, EmptySeq
    <3>2. n - ks \in 1..n - ks /\ ks + (n - ks) = n /\ n > 0
      BY <3>1, <2>1, <1>1
    <3> QED BY <3>2, <1>2, <1>3
  <2> QED BY <2>2, <2>3 DEF Newest
<1>5. ASSUME NEW i \in 1..ks PROVE prev[i] # step
  <2>1. i \in 1..n /\ n \in 1..n /\ i < n /\ n > 0
    BY <1>1
  <2>2. prev[i] < prev[n] /\ prev[n] = step /\ prev[i] \in Nat /\ prev[n] \in Nat
    BY <2>1, <1>1, <1>2
  <2> QED BY <2>2
<1> QED BY <1>3, <1>4, <1>5 DEF kept, ks, Removed

LEMMA SavedAnother ==
  ASSUME NEW prev \in Seq(1..MaxStep), NEW step \in Nat, Newest(prev, step),
         NEW g \in 1..MaxStep, step < g
  PROVE  Append(prev, g) \in Seq(1..MaxStep) /\ Newest(Append(prev, g), g)
<1> DEFINE n == Len(prev)
           q == Append(prev, g)
<1>1. /\ q \in Seq(1..MaxStep) /\ n \in Nat /\ Len(q) = n + 1 /\ q[n + 1] = g
      /\ \A i \in 1..n : q[i] = prev[i]
  BY AppendProperties
<1>2. DOMAIN q = 1..n + 1 /\ DOMAIN prev = 1..n /\ MaxStep \in Nat
  BY <1>1 DEF MaxStep
<1>3. \A i \in 1..n : prev[i] < g
  <2>1. ASSUME NEW i \in 1..n PROVE prev[i] <= prev[n]
    <3>1. prev[i] \in Nat /\ prev[n] \in Nat /\ n \in 1..n
      BY <1>1, <1>2
    <3>2. i < n \/ i = n
      BY <1>1
    <3>3. i < n => prev[i] < prev[n]
      BY <3>1, <1>2 DEF Newest
    <3> HIDE DEF n
    <3> QED BY <3>1, <3>2, <3>3
  <2>2. ASSUME n > 0 PROVE prev[n] = step
    <3>1. prev # <<>>
      BY <2>2
    <3> QED BY <3>1 DEF Newest
  <2>3. \A i \in 1..n : n > 0 /\ prev[i] \in Nat
    BY <1>1, <1>2
  <2> QED BY <2>1, <2>2, <2>3, <1>2
<1>4. ASSUME NEW i \in DOMAIN q, NEW j \in DOMAIN q, i < j PROVE q[i] < q[j]
  <2>1. i \in 1..n /\ (j \in 1..n \/ j = n + 1)
    BY <1>1, <1>2, <1>4
  <2>2. CASE j \in 1..n
    BY <2>1, <2>2, <1>1, <1>2, <1>4 DEF Newest
  <2>3. CASE j = n + 1
    BY <2>1, <2>3, <1>1, <1>3
  <2> QED BY <2>1, <2>2, <2>3
<1> QED BY <1>1, <1>4 DEF Newest
-----------------------------------------------------------------------------
(* The invariant.                                                          *)

LEMMA Initially == Init => IInv
<1> SUFFICES ASSUME Init PROVE IInv
  OBVIOUS
<1>1. DOMAIN <<>> = {} /\ Range(<<>>) = {} /\ <<>> \in Weights /\ <<>> \in Seq(1..MaxStep)
  BY DEF Range, Weights
<1>2. StartOfData \in Positions /\ [step |-> 0, readable |-> TRUE] \in Trackers
  BY DEF StartOfData, Positions, Trackers, MaxStep
<1>3. TypeOK
  <2>0. last \in BOOLEAN
    BY Zenon DEF Init
  <2>1. /\ phase = "down" /\ life \in 0..MaxLives
        /\ global_step \in 0..(MaxStep + 1) /\ epoch \in 0..TotalEpochs
    BY StepsAreNat DEF Init
  <2>2. /\ loader \in Positions /\ tracker \in Trackers
        /\ actor \in Weights /\ critic \in Weights
        /\ prevActor \in Seq(1..MaxStep) /\ prevCritic \in Seq(1..MaxStep)
    BY <1>1, <1>2 DEF Init
  <2>3. /\ DOMAIN ckActor = {} /\ Range(ckActor) = {} /\ DOMAIN ckCritic = {}
        /\ Range(ckCritic) = {} /\ DOMAIN ckData = {} /\ Range(ckData) = {}
    BY <1>1 DEF Init
  <2> QED BY <2>0, <2>1, <2>2, <2>3 DEF TypeOK
<1>4. FilesInv
  BY DEF Init, FilesInv, TrackedCheckpointComplete, AfterActor, AfterCritic, AfterData
<1>5. MemoryInv /\ LastInv /\ TrackerInv /\ PrevInv
  BY DEF Init, MemoryInv, LastInv, TrackerInv, PrevInv, Gone, Between
<1> QED BY <1>3, <1>4, <1>5 DEF IInv

(* What the types say of the values at hand.                               *)
LEMMA Typed ==
  ASSUME TypeOK
  PROVE  /\ loader.pass \in 0..TotalEpochs /\ loader.pos \in 0..EpochLen
         /\ loader = [pass |-> loader.pass, pos |-> loader.pos]
         /\ tracker = [step |-> tracker.step, readable |-> tracker.readable]
         /\ tracker.step \in 0..MaxStep /\ tracker.readable \in BOOLEAN
         /\ MaxStep \in Nat /\ Served \in Nat
         /\ \A k \in DOMAIN ckActor : k \in 1..MaxStep /\ ckActor[k] \in Weights
         /\ \A k \in DOMAIN ckCritic : k \in 1..MaxStep /\ ckCritic[k] \in Weights
         /\ \A k \in DOMAIN ckData : k \in 1..MaxStep /\ ckData[k] \in Positions
<1>1. loader.pass \in 0..TotalEpochs /\ loader.pos \in 0..EpochLen
      /\ loader = [pass |-> loader.pass, pos |-> loader.pos]
  BY DEF TypeOK, Positions
<1>2. MaxStep \in Nat /\ Served \in Nat
  BY <1>1 DEF MaxStep, Served
<1> QED BY <1>1, <1>2 DEF TypeOK, Trackers, Range

(* The tracked checkpoint exists, unless there is none.                    *)
LEMMA TrackedFolder ==
  ASSUME IInv
  PROVE  /\ tracker.step > 0 => LatestCheckpoint \in DOMAIN ckActor \cap DOMAIN ckCritic \cap DOMAIN ckData
         /\ tracker.step = 0 => ~HasFolder(LatestCheckpoint)
<1>1. 0 \notin DOMAIN ckActor /\ 0 \notin DOMAIN ckCritic /\ 0 \notin DOMAIN ckData
  BY DEF IInv, TypeOK
<1> QED BY <1>1 DEF IInv, FilesInv, TrackedCheckpointComplete, LatestCheckpoint, HasFolder

LEMMA SameFiles ==
  ASSUME FilesInv, UNCHANGED <<models, global_step, loader, files>>,
         phase' \in AfterActor => phase \in AfterActor,
         phase' \in AfterCritic => phase \in AfterCritic,
         phase' \in AfterData => phase \in AfterData
  PROVE  FilesInv'
<1>1. TrackedCheckpointComplete'
  BY DEF FilesInv, TrackedCheckpointComplete, files
<1>2. tracker' = tracker /\ ckCritic' = ckCritic /\ ckActor' = ckActor /\ ckData' = ckData
      /\ actor' = actor /\ critic' = critic
  BY DEF files, models
<1> QED BY <1>1, <1>2 DEF FilesInv

LEMMA NoneBeingSaved ==
  ASSUME FilesInv, UNCHANGED files, phase' \notin AfterActor
  PROVE  FilesInv'
<1>1. TrackedCheckpointComplete'
  BY DEF FilesInv, TrackedCheckpointComplete, files
<1> QED BY <1>1 DEF FilesInv, files, AfterActor, AfterCritic, AfterData

LEMMA StartsKeep ==
  ASSUME MaxKeep # 1, IInv, StartFresh \/ StartResumed \/ StartFails
  PROVE  IInv'
<1> USE DEF IInv
<1>0. /\ life \in 0..MaxLives /\ phase = "down" /\ life < MaxLives
      /\ global_step = 0 /\ epoch = 0 /\ loader = StartOfData /\ last = FALSE
      /\ actor = <<>> /\ critic = <<>> /\ prevActor = <<>> /\ prevCritic = <<>>
  BY DEF StartFresh, StartResumed, StartFails, MemoryInv, Gone, TypeOK
<1>a. files' = files
  BY DEF StartFresh, StartResumed, StartFails
<1>b. life' \in 0..MaxLives /\ life' = life + 1 /\ life' >= 1 /\ EpochsLost' \in {0, 1}
  BY <1>0 DEF StartFresh, StartResumed, StartFails, EpochsLost
<1>c. FilesInv'
  BY <1>a, NoneBeingSaved DEF StartFresh, StartResumed, StartFails, AfterActor
<1>1. CASE StartFresh
  <2>1. tracker.step = 0
    BY <1>1, TrackedFolder, Typed DEF StartFresh, HasFolder
  <2>2. /\ phase' = "loop" /\ global_step' = 1 /\ tracker' = tracker /\ tracker.readable
        /\ UNCHANGED <<epoch, loader, last, actor, critic, prevActor, prevCritic>>
    BY <1>1 DEF StartFresh, models, rotation, files
  <2>3. TypeOK'
    BY <1>a, <1>b, <2>2, StepsAreNat DEF TypeOK, files
  <2>4. MemoryInv'
    <3>1. Served' = 0
      BY <1>0, <2>2 DEF Served, StartOfData
    <3>2. loader'.pass = 0 /\ MaxStep \in Nat
      BY <1>0, <2>2, Typed DEF StartOfData
    <3>3. Len(critic') = 0 /\ DOMAIN critic' = {} /\ actor' = ActorOf(critic')
      BY <1>0, <2>2, ActorOfEmpty
    <3>4. loader'.pass <= epoch' /\ epoch' <= loader'.pass + EpochsLost'
      <4>1. epoch' = 0 /\ EpochsLost' \in {0, 1}
        BY <1>0, <1>b, <2>2
      <4>2. \A a, b, c : a = 0 /\ b = 0 /\ c \in {0, 1} => a <= b /\ b <= a + c
        OBVIOUS
      <4>3. loader'.pass = 0
        BY <3>2
      <4> QED BY <4>1, <4>2, <4>3, Zenon
    <3>5. global_step' - 1 = 0 /\ global_step' >= 1 /\ life' >= 1 /\ 0 <= MaxStep
      BY <1>b, <2>2, <3>2
    <3> QED BY <2>2, <3>1, <3>3, <3>4, <3>5 DEF MemoryInv, Gone, Between
  <2>5. LastInv' /\ TrackerInv' /\ PrevInv'
    BY <1>0, <1>b, <2>1, <2>2
       DEF LastInv, TrackerInv, PrevInv, Newest, Gone, Between, AfterActor, AfterCritic
  <2> QED BY <1>c, <2>3, <2>4, <2>5
<1>2. CASE StartResumed
  <2> DEFINE k == tracker.step
  <2>1. /\ k \in DOMAIN ckActor /\ k \in DOMAIN ckCritic /\ k \in DOMAIN ckData
        /\ k \in 1..MaxStep /\ LatestCheckpoint = k
    <3>1. k \in DOMAIN ckActor
      BY <1>2 DEF StartResumed, LatestCheckpoint
    <3>2. k > 0
      BY <3>1, Typed
    <3> QED BY <3>2, TrackedFolder, Typed DEF LatestCheckpoint
  <2>2. /\ phase' = "loop" /\ global_step' = k + 1 /\ tracker' = tracker /\ tracker.readable
        /\ actor' = ckActor[k] /\ critic' = ckCritic[k]
        /\ loader' \in RestoredPositions(k) /\ epoch' = ResumedEpoch(k)
        /\ UNCHANGED <<last, prevActor, prevCritic>>
    BY <1>2, <2>1 DEF StartResumed, rotation, files
  <2>3. /\ Len(ckCritic[k]) = k /\ ckActor[k] = ActorOf(ckCritic[k])
        /\ \A i \in DOMAIN ckCritic[k] : ckCritic[k][i].batch = i
        /\ ckData[k].pass * EpochLen + ckData[k].pos = k
    BY <2>1 DEF FilesInv, TrackedCheckpointComplete
  <2>4. ckData[k].pass \in 0..TotalEpochs /\ ckData[k].pos \in 0..EpochLen
    BY <2>1, Typed DEF Positions
  <2>5. /\ epoch' = IF ckData[k].pos < EpochLen THEN ckData[k].pass ELSE ckData[k].pass + 1
        /\ epoch' \in 0..TotalEpochs
    <3>1. ckData[k].pass \in Nat /\ k \in 0..MaxStep
      BY <2>1, <2>4, StepsAreNat
    <3> HIDE DEF k
    <3> QED BY <2>2, <2>3, <2>4, <3>1, EpochOfStep
  <2>6. \/ loader' = ckData[k] /\ (ckData[k].pos < EpochLen \/ "empty" \in EpochEndResume)
        \/ loader' = NextPass(ckData[k]) /\ ckData[k].pos = EpochLen
    BY <2>1, <2>2, <2>4 DEF RestoredPositions
  <2>7. /\ loader'.pass \in 0..TotalEpochs /\ loader'.pos \in 0..EpochLen
        /\ loader' \in Positions
        /\ loader'.pass * EpochLen + loader'.pos = k
        /\ loader'.pass = epoch' \/ (loader'.pass + 1 = epoch' /\ "empty" \in EpochEndResume)
    <3>1. CASE loader' = ckData[k] /\ (ckData[k].pos < EpochLen \/ "empty" \in EpochEndResume)
      BY <2>1, <2>3, <2>4, <2>5, <3>1, Typed
    <3>2. CASE loader' = NextPass(ckData[k]) /\ ckData[k].pos = EpochLen
      <4>1. loader' = [pass |-> ckData[k].pass + 1, pos |-> 0] /\ epoch' = ckData[k].pass + 1
        BY <2>4, <2>5, <3>2 DEF NextPass
      <4>2. (ckData[k].pass + 1) * EpochLen = ckData[k].pass * EpochLen + EpochLen
        BY <2>4
      <4>3. loader'.pass = epoch' /\ loader'.pos = 0 /\ loader' \in Positions
        BY <2>5, <4>1 DEF Positions
      <4> QED BY <2>3, <2>4, <2>5, <3>2, <4>1, <4>2, <4>3
    <3> QED BY <2>6, <3>1, <3>2
  <2>8. TypeOK'
    <3>1. actor' \in Weights /\ critic' \in Weights
      BY <2>1, <2>2, Typed
    <3>2. global_step' \in 0..(MaxStep + 1)
      BY <2>1, <2>2, Typed
    <3> QED BY <1>a, <1>b, <2>2, <2>5, <2>7, <3>1, <3>2 DEF TypeOK, files
  <2>9. MemoryInv'
    <3>1. Served' = k /\ MaxStep' = MaxStep
      BY <2>7 DEF Served
    <3>2. life > 0
      BY <2>1, <1>0 DEF TrackerInv
    <3>3. EpochsLost' = IF "empty" \in EpochEndResume THEN 1 ELSE 0
      BY <1>0, <1>b, <3>2 DEF EpochsLost
    <3>4. k + 1 - 1 = k /\ k + 1 >= 1 /\ k <= MaxStep
      BY <2>1, Typed
    <3>5. loader'.pass <= epoch' /\ epoch' <= loader'.pass + EpochsLost'
      BY <2>5, <2>7, <3>3
    <3> HIDE DEF k
    <3> QED BY <1>b, <2>2, <2>3, <3>1, <3>4, <3>5 DEF MemoryInv, Gone, Between
  <2>10. LastInv' /\ TrackerInv' /\ PrevInv'
    <3>1. k \in Nat /\ k + 1 - 1 = k /\ k < k + 1
      BY <2>1
    <3>2. tracker'.step = k /\ phase' = "loop" /\ global_step' = k + 1 /\ ~last'
      BY <1>0, <2>2
    <3>3. LastInv'
      <4> HIDE DEF k
      <4> QED BY <3>1, <3>2 DEF LastInv, Gone, Between
    <3>4. TrackerInv'
      <4>1. tracker'.readable
        BY <2>2
      <4> HIDE DEF k
      <4> QED BY <1>b, <3>1, <3>2, <4>1 DEF TrackerInv, Gone
    <3>5. PrevInv'
      BY <1>0, <2>2, <3>2 DEF PrevInv, Newest, Gone, AfterActor, AfterCritic
    <3> QED BY <3>3, <3>4, <3>5
  <2> QED BY <1>c, <2>8, <2>9, <2>10
<1>3. CASE StartFails
  <2>1. /\ phase' = "failed"
        /\ UNCHANGED <<global_step, epoch, loader, last, actor, critic, prevActor, prevCritic, tracker>>
    BY <1>3, <1>a DEF StartFails, progress, models, rotation, files
  <2>2. TypeOK'
    BY <1>a, <1>b, <2>1 DEF TypeOK, files
  <2>3. MemoryInv' /\ LastInv' /\ TrackerInv' /\ PrevInv'
    BY <1>0, <1>b, <2>1 DEF MemoryInv, LastInv, TrackerInv, PrevInv, Gone, Between
  <2> QED BY <1>c, <2>2, <2>3
<1> QED BY <1>1, <1>2, <1>3
-----------------------------------------------------------------------------
(* The steps of the loop write no file.                                    *)

LEMMA TakeBatchKeeps == ASSUME IInv, TakeBatch PROVE IInv'
<1> USE DEF IInv
<1>1. /\ phase = "loop" /\ phase' = "batch" /\ epoch < TotalEpochs /\ loader.pos < EpochLen
      /\ loader' = [loader EXCEPT !.pos = loader.pos + 1]
      /\ last' = (global_step >= TotalSteps)
      /\ UNCHANGED <<life, global_step, epoch, actor, critic, prevActor, prevCritic,
                     ckActor, ckCritic, ckData, tracker>>
  BY DEF TakeBatch, models, rotation, files
<1>2. /\ loader.pass \in 0..TotalEpochs /\ loader.pos \in 0..EpochLen /\ MaxStep \in Nat
      /\ loader = [pass |-> loader.pass, pos |-> loader.pos]
      /\ epoch \in 0..TotalEpochs /\ global_step \in 0..(MaxStep + 1)
  BY Typed DEF TypeOK
<1>3. /\ loader' = [pass |-> loader.pass, pos |-> loader.pos + 1]
      /\ loader' \in Positions
  BY <1>1, <1>2 DEF Positions
<1>4. loader'.pass = loader.pass /\ loader'.pos = loader.pos + 1
  BY <1>3
<1>5. Served' = global_step /\ Served' <= MaxStep
  <2>1. Served = global_step - 1 /\ loader.pass <= epoch
    BY <1>1 DEF MemoryInv, Gone, Between
  <2>2. Served' = loader.pass * EpochLen + (loader.pos + 1)
    BY <1>4 DEF Served
  <2>3. Served' = Served + 1
    BY <1>2, <2>2 DEF Served
  <2>4. loader.pass \in Nat /\ loader.pass < TotalEpochs /\ loader.pos + 1 \in 0..EpochLen
    BY <1>1, <1>2, <2>1
  <2> QED BY <1>2, <2>1, <2>2, <2>3, <2>4, StepBound
<1>6. TypeOK'
  <2>1. last' \in BOOLEAN
    BY <1>1
  <2> QED BY <1>1, <1>3, <2>1 DEF TypeOK
<1>7. MemoryInv'
  <2>1. /\ global_step >= 1 /\ life >= 1 /\ Len(critic) = global_step - 1
        /\ actor = ActorOf(critic) /\ (\A i \in DOMAIN critic : critic[i].batch = i)
        /\ loader.pass <= epoch /\ epoch <= loader.pass + EpochsLost
    BY <1>1 DEF MemoryInv, Gone, Between
  <2>2. EpochsLost' = EpochsLost
    BY <1>1 DEF EpochsLost
  <2> QED BY <1>1, <1>4, <1>5, <2>1, <2>2 DEF MemoryInv, Gone, Between
<1>8. LastInv'
  BY <1>1 DEF LastInv, Gone, Between
<1>9. TrackerInv' /\ PrevInv'
  BY <1>1 DEF TrackerInv, PrevInv, Newest, Gone, AfterActor, AfterCritic
<1>10. FilesInv'
  BY <1>1, NoneBeingSaved DEF files, AfterActor
<1> QED BY <1>6, <1>7, <1>8, <1>9, <1>10

LEMMA NextEpochKeeps == ASSUME IInv, NextEpoch PROVE IInv'
<1> USE DEF IInv
<1>1. /\ phase = "loop" /\ epoch < TotalEpochs /\ loader.pos = EpochLen
      /\ loader' = NextPass(loader) /\ epoch' = epoch + 1
      /\ UNCHANGED <<phase, life, global_step, last, actor, critic, prevActor, prevCritic,
                     ckActor, ckCritic, ckData, tracker>>
  BY DEF NextEpoch, models, rotation, files
<1>2. /\ loader.pass \in 0..TotalEpochs /\ MaxStep \in Nat /\ epoch \in 0..TotalEpochs
  BY Typed DEF TypeOK
<1>3. /\ global_step >= 1 /\ life >= 1 /\ Len(critic) = global_step - 1
      /\ Served = global_step - 1 /\ Served <= MaxStep
      /\ actor = ActorOf(critic) /\ (\A i \in DOMAIN critic : critic[i].batch = i)
      /\ loader.pass <= epoch /\ epoch <= loader.pass + EpochsLost
  BY <1>1 DEF MemoryInv, Gone, Between
<1>4. /\ loader' = [pass |-> loader.pass + 1, pos |-> 0]
      /\ loader' \in Positions
  BY <1>1, <1>2, <1>3 DEF NextPass, Positions
<1>5. loader'.pass = loader.pass + 1 /\ loader'.pos = 0
  BY <1>4
<1>6. Served' = Served
  <2>1. (loader.pass + 1) * EpochLen + 0 = loader.pass * EpochLen + EpochLen
    BY <1>2
  <2> QED BY <1>1, <1>5, <2>1 DEF Served
<1>7. TypeOK'
  BY <1>1, <1>2, <1>4 DEF TypeOK
<1>8. MemoryInv'
  <2>1. EpochsLost' = EpochsLost /\ EpochsLost \in {0, 1}
    BY <1>1 DEF EpochsLost
  <2>2. loader'.pass <= epoch' /\ epoch' <= loader'.pass + EpochsLost'
    BY <1>1, <1>2, <1>3, <1>5, <2>1
  <2> QED BY <1>1, <1>3, <1>6, <2>2 DEF MemoryInv, Gone, Between
<1>9. LastInv' /\ TrackerInv' /\ PrevInv'
  BY <1>1 DEF LastInv, TrackerInv, PrevInv, Newest, Gone, Between, AfterActor, AfterCritic
<1>10. FilesInv'
  BY <1>1, NoneBeingSaved DEF files, AfterActor
<1> QED BY <1>7, <1>8, <1>9, <1>10

LEMMA UpdateKeeps == ASSUME IInv, Update PROVE IInv'
<1> USE DEF IInv
<1>1. /\ phase = "batch" /\ phase' = "updated"
      /\ critic' = Append(critic, ThisUpdate)
      /\ actor' = IF CriticWarmup <= global_step THEN Append(actor, ThisUpdate) ELSE actor
      /\ UNCHANGED <<life, global_step, epoch, loader, last, prevActor, prevCritic,
                     ckActor, ckCritic, ckData, tracker>>
  BY DEF Update, progress, rotation, files
<1>2. /\ global_step >= 1 /\ life >= 1 /\ Len(critic) = global_step - 1
      /\ Served = global_step /\ Served <= MaxStep
      /\ actor = ActorOf(critic) /\ (\A i \in DOMAIN critic : critic[i].batch = i)
      /\ loader.pass <= epoch /\ epoch <= loader.pass + EpochsLost /\ epoch < TotalEpochs
  BY <1>1 DEF MemoryInv, Gone, Between
<1> DEFINE Records == [life : 1..MaxLives, batch : Batches]
<1>3. critic \in Seq(Records) /\ ThisUpdate \in Records /\ ThisUpdate.batch = global_step
  <2>1. life \in 1..MaxLives
    BY <1>2 DEF TypeOK
  <2>2. Served \in Batches
    BY <1>2, Typed DEF Batches
  <2> QED BY <1>2, <2>1, <2>2 DEF ThisUpdate, TypeOK, Weights
<1>4. /\ critic' \in Seq(Records) /\ Len(critic') = global_step
      /\ actor' \in Seq(Records) /\ actor' = ActorOf(critic')
      /\ \A i \in DOMAIN critic' : critic'[i].batch = i
  <2>0. global_step \in Nat /\ Len(critic) + 1 = global_step
    BY <1>2 DEF TypeOK
  <2> HIDE DEF Records
  <2>1. /\ critic' \in Seq(Records) /\ Len(critic') = global_step
        /\ critic'[global_step] = ThisUpdate
        /\ \A i \in 1..Len(critic) : critic'[i] = critic[i]
    BY <1>1, <1>3, <2>0, AppendProperties
  <2>2. actor' = ActorOf(critic') /\ actor \in Seq(Records)
    BY <1>1, <1>2, <1>3, <2>0, ActorOfAppend
  <2>3. actor' \in Seq(Records)
    BY <1>1, <1>3, <2>2, AppendProperties
  <2>4. ASSUME NEW i \in DOMAIN critic' PROVE critic'[i].batch = i
    <3>1. i \in 1..global_step
      BY <2>1, <2>4
    <3>2. CASE i = global_step
      BY <1>3, <2>1, <3>2
    <3>3. CASE i # global_step
      <4>1. i \in 1..Len(critic) /\ i \in DOMAIN critic
        BY <1>3, <2>0, <3>1, <3>3
      <4> QED BY <1>2, <2>1, <4>1
    <3> QED BY <3>2, <3>3
  <2> QED BY <2>1, <2>2, <2>3, <2>4
<1>5. TypeOK'
  BY <1>1, <1>4 DEF TypeOK, Weights
<1>6. MemoryInv'
  <2>1. Served' = Served /\ EpochsLost' = EpochsLost
    BY <1>1 DEF Served, EpochsLost
  <2> QED BY <1>1, <1>2, <1>4, <2>1 DEF MemoryInv, Gone, Between
<1>7. LastInv' /\ TrackerInv' /\ PrevInv'
  BY <1>1 DEF LastInv, TrackerInv, PrevInv, Newest, Gone, Between, AfterActor, AfterCritic
<1>8. FilesInv'
  BY <1>1, NoneBeingSaved DEF files, AfterActor
<1> QED BY <1>5, <1>6, <1>7, <1>8

(* LoopEnds, SkipSave and BeginSave move phase only.                       *)
LEMMA MovesKeep == ASSUME IInv, LoopEnds \/ SkipSave \/ BeginSave PROVE IInv'
<1> USE DEF IInv
<1>1. /\ \/ phase = "loop" /\ phase' = "finished"
         \/ phase = "updated" /\ phase' = "step_end" /\ ~SaveDue
         \/ phase = "updated" /\ phase' = "rotate_actor"
      /\ UNCHANGED <<life, global_step, epoch, loader, last, actor, critic, prevActor,
                     prevCritic, ckActor, ckCritic, ckData, tracker>>
  BY DEF LoopEnds, SkipSave, BeginSave, progress, models, rotation, files
<1>2. TypeOK'
  BY <1>1 DEF TypeOK, Saving
<1>3. MemoryInv'
  <2>1. Served' = Served /\ EpochsLost' = EpochsLost
    BY <1>1 DEF Served, EpochsLost
  <2> QED BY <1>1, <2>1 DEF MemoryInv, Gone, Between
<1>4. LastInv'
  BY <1>1 DEF LastInv, Gone, Between, SaveDue
<1>5. TrackerInv' /\ PrevInv'
  BY <1>1 DEF TrackerInv, PrevInv, Newest, Gone, AfterActor, AfterCritic
<1>6. FilesInv'
  BY <1>1, NoneBeingSaved DEF files, AfterActor
<1> QED BY <1>2, <1>3, <1>4, <1>5, <1>6

LEMMA EndStepKeeps == ASSUME IInv, EndStep PROVE IInv'
<1> USE DEF IInv
<1>1. /\ phase = "step_end" /\ phase' = IF last THEN "finished" ELSE "loop"
      /\ global_step' = global_step + 1
      /\ UNCHANGED <<life, epoch, loader, last, actor, critic, prevActor,
                     prevCritic, ckActor, ckCritic, ckData, tracker>>
  BY DEF EndStep, models, rotation, files
<1>2. /\ global_step >= 1 /\ life >= 1 /\ Len(critic) = global_step
      /\ Served = global_step /\ Served <= MaxStep
      /\ actor = ActorOf(critic) /\ (\A i \in DOMAIN critic : critic[i].batch = i)
      /\ loader.pass <= epoch /\ epoch <= loader.pass + EpochsLost
      /\ global_step \in Nat
  BY <1>1 DEF MemoryInv, Gone, Between, TypeOK
<1>3. phase' \in Between /\ (phase' = "loop" <=> ~last)
  BY <1>1 DEF Between
<1>4. TypeOK'
  <2>1. global_step' \in 0..(MaxStep + 1)
    BY <1>1, <1>2, StepsAreNat
  <2> QED BY <1>1, <2>1 DEF TypeOK
<1>5. MemoryInv'
  <2>1. Served' = Served /\ EpochsLost' = EpochsLost
    BY <1>1 DEF Served, EpochsLost
  <2>2. global_step' - 1 = global_step /\ global_step' >= 1
    BY <1>1, <1>2
  <2> QED BY <1>1, <1>2, <1>3, <2>1, <2>2 DEF MemoryInv, Gone, Between
<1>6. LastInv'
  <2>1. last = (global_step >= TotalSteps)
    BY <1>1 DEF LastInv, Gone, Between
  <2>2. ~last => global_step + 1 <= TotalSteps
    <3>1. ~last => ~(global_step >= TotalSteps)
      BY <2>1, Zenon
    <3>2. ~(global_step >= TotalSteps) => global_step + 1 <= TotalSteps
      BY <1>2
    <3> QED BY <3>1, <3>2, Zenon
  <2> QED BY <1>1, <1>3, <2>2 DEF LastInv, Gone, Between
<1>7. TrackerInv'
  <2>1. tracker.step <= global_step /\ tracker.step \in Nat /\ tracker.readable
    BY <1>1, <1>2, Typed DEF TrackerInv, Gone
  <2>2. tracker'.step < global_step'
    BY <1>1, <1>2, <2>1
  <2> QED BY <1>1, <1>2, <2>1, <2>2 DEF TrackerInv
<1>8. PrevInv'
  BY <1>1 DEF PrevInv, Newest, Gone, AfterActor, AfterCritic
<1>9. FilesInv'
  BY <1>1, NoneBeingSaved DEF files, AfterActor
<1> QED BY <1>4, <1>5, <1>6, <1>7, <1>8, <1>9

LEMMA StopsKeep == ASSUME IInv, Crash \/ Rerun PROVE IInv'
<1> USE DEF IInv
<1>1. phase' = "down" /\ phase \notin Gone /\ Lost /\ UNCHANGED <<life, ckActor, ckCritic, ckData, tracker>>
  BY DEF Crash, Rerun, files, Gone
<1>2. TypeOK'
  <2>1. last' \in BOOLEAN
    BY <1>1, Zenon DEF Lost
  <2>2. loader' \in Positions /\ actor' \in Weights /\ critic' \in Weights
        /\ prevActor' \in Seq(1..MaxStep) /\ prevCritic' \in Seq(1..MaxStep)
    BY <1>1 DEF Lost, StartOfData, Positions, Weights
  <2>3. global_step' \in 0..(MaxStep + 1) /\ epoch' \in 0..TotalEpochs
    BY <1>1, StepsAreNat DEF Lost
  <2> QED BY <1>1, <2>1, <2>2, <2>3 DEF TypeOK
<1>3. MemoryInv'
  BY <1>1 DEF Lost, MemoryInv, Gone
<1>4. LastInv' /\ PrevInv'
  BY <1>1 DEF LastInv, PrevInv, Gone
<1>5. TrackerInv'
  BY <1>1 DEF TrackerInv, Gone
<1>6. FilesInv'
  BY <1>1, NoneBeingSaved DEF files, AfterActor
<1> QED BY <1>2, <1>3, <1>4, <1>5, <1>6
-----------------------------------------------------------------------------
(* _save_checkpoint leaves the process as it is.                           *)

LEMMA SavingFacts ==
  ASSUME IInv, phase \in Saving
  PROVE  /\ global_step \in 1..MaxStep /\ tracker.step \in 0..MaxStep
         /\ tracker.step < global_step
         /\ phase # "write_tracker" => tracker.readable
<1>1. phase \notin Gone \cup Between \cup {"batch", "step_end"}
  BY DEF Saving, Gone, Between
<1>2. global_step >= 1 /\ Served = global_step /\ Served <= MaxStep
  BY <1>1 DEF IInv, MemoryInv
<1>3. global_step \in 0..(MaxStep + 1) /\ MaxStep \in Nat /\ tracker.step \in 0..MaxStep
  BY Typed DEF IInv, TypeOK
<1> QED BY <1>1, <1>2, <1>3 DEF IInv, TrackerInv

LEMMA SavingMemory ==
  ASSUME IInv, phase \in Saving, phase' \in Saving \cup {"step_end"},
         UNCHANGED <<life, progress, models>>,
         phase' = "step_end" => tracker'.step = global_step
  PROVE  MemoryInv' /\ LastInv'
<1>1. UNCHANGED <<life, global_step, epoch, loader, last, actor, critic>>
  BY DEF progress, models
<1>2. /\ phase \notin Gone \cup Between \cup {"batch"}
      /\ phase' \notin Gone \cup Between \cup {"batch"}
  BY DEF Saving, Gone, Between
<1>3. Served' = Served /\ EpochsLost' = EpochsLost
  BY <1>1 DEF Served, EpochsLost
<1>4. MemoryInv'
  BY <1>1, <1>2, <1>3 DEF IInv, MemoryInv
<1>5. LastInv'
  BY <1>1, <1>2 DEF IInv, LastInv, Between
<1> QED BY <1>4, <1>5

LEMMA DirectoryTypes ==
  ASSUME NEW W, NEW f, DOMAIN f \subseteq 1..MaxStep, Range(f) \subseteq W
  PROVE  /\ \A S : DOMAIN Without(f, S) \subseteq 1..MaxStep /\ Range(Without(f, S)) \subseteq W
         /\ \A k \in 1..MaxStep, v \in W :
              DOMAIN With(f, k, v) \subseteq 1..MaxStep /\ Range(With(f, k, v)) \subseteq W
<1>1. \A k \in DOMAIN f : f[k] \in W
  BY DEF Range
<1>2. ASSUME NEW S
      PROVE  DOMAIN Without(f, S) \subseteq 1..MaxStep /\ Range(Without(f, S)) \subseteq W
  BY <1>1 DEF Range, Without, Restrict
<1>3. ASSUME NEW k \in 1..MaxStep, NEW v \in W
      PROVE  DOMAIN With(f, k, v) \subseteq 1..MaxStep /\ Range(With(f, k, v)) \subseteq W
  BY <1>1 DEF Range, With
<1> QED BY <1>2, <1>3

LEMMA RotateActorKeeps == ASSUME MaxKeep # 1, IInv, RotateActor PROVE IInv'
<1> USE DEF IInv
<1> DEFINE gone == Removed(prevActor) \cup {global_step}
           k == tracker.step
<1>1. /\ phase = "rotate_actor" /\ phase' = "write_actor"
      /\ ckActor' = Without(ckActor, gone) /\ prevActor' = Kept(prevActor)
      /\ UNCHANGED <<life, progress, models, global_step, actor, critic, loader, prevCritic,
                     ckCritic, ckData, tracker>>
  BY DEF RotateActor, progress, models
<1>2. /\ prevActor \in Seq(1..MaxStep)
      /\ Newest(prevActor, k) /\ Newest(prevCritic, k)
  BY <1>1 DEF TypeOK, PrevInv, Gone, AfterActor, AfterCritic
<1>3. /\ Kept(prevActor) \in Seq(1..MaxStep) /\ Newest(Kept(prevActor), k)
      /\ k \notin Removed(prevActor)
  <2>1. 1..MaxStep \subseteq Nat
    OBVIOUS
  <2> HIDE DEF k
  <2> QED BY <1>2, <2>1, Rotated
<1>4. global_step \in 1..MaxStep /\ k < global_step /\ k \in 0..MaxStep /\ tracker.readable
  BY <1>1, SavingFacts DEF Saving
<1>5. TypeOK'
  <2>1. DOMAIN ckActor' \subseteq 1..MaxStep /\ Range(ckActor') \subseteq Weights
    BY <1>1, DirectoryTypes DEF TypeOK
  <2> QED BY <1>1, <1>3, <2>1 DEF TypeOK, Saving, progress, models
<1>6. MemoryInv' /\ LastInv'
  BY <1>1, SavingMemory DEF Saving
<1>7. TrackerInv'
  BY <1>1, <1>4 DEF TrackerInv, Gone
<1>8. FilesInv'
  <2>1. k \notin gone
    BY <1>3, <1>4
  <2>2. k > 0 => k \in DOMAIN ckActor' /\ ckActor'[k] = ckActor[k]
    BY <1>1, <2>1 DEF FilesInv, TrackedCheckpointComplete, Without, Restrict
  <2>3. TrackedCheckpointComplete'
    BY <1>1, <2>2 DEF FilesInv, TrackedCheckpointComplete
  <2> QED BY <1>1, <2>3 DEF FilesInv, AfterActor, AfterCritic, AfterData
<1>9. PrevInv'
  BY <1>1, <1>2, <1>3 DEF PrevInv, AfterActor, AfterCritic
<1> QED BY <1>5, <1>6, <1>7, <1>8, <1>9

LEMMA WriteActorKeeps == ASSUME IInv, WriteActor PROVE IInv'
<1> USE DEF IInv
<1> DEFINE k == tracker.step
<1>1. /\ phase = "write_actor" /\ phase' = "rotate_critic"
      /\ ckActor' = With(ckActor, global_step, actor)
      /\ prevActor' = Append(prevActor, global_step)
      /\ UNCHANGED <<life, progress, models, global_step, actor, critic, loader, prevCritic,
                     ckCritic, ckData, tracker>>
  BY DEF WriteActor, progress, models
<1>2. /\ prevActor \in Seq(1..MaxStep)
      /\ Newest(prevActor, k) /\ Newest(prevCritic, k)
  BY <1>1 DEF TypeOK, PrevInv, Gone, AfterActor, AfterCritic
<1>3. global_step \in 1..MaxStep /\ k < global_step /\ k \in 0..MaxStep /\ tracker.readable
  BY <1>1, SavingFacts DEF Saving
<1>4. prevActor' \in Seq(1..MaxStep) /\ Newest(prevActor', global_step)
  <2>1. k \in Nat
    BY <1>3
  <2> HIDE DEF k
  <2> QED BY <1>1, <1>2, <1>3, <2>1, SavedAnother
<1>5. TypeOK'
  <2>1. DOMAIN ckActor' \subseteq 1..MaxStep /\ Range(ckActor') \subseteq Weights
    BY <1>1, <1>3, DirectoryTypes DEF TypeOK
  <2> QED BY <1>1, <1>4, <2>1 DEF TypeOK, Saving, progress, models
<1>6. MemoryInv' /\ LastInv'
  BY <1>1, SavingMemory DEF Saving
<1>7. TrackerInv'
  BY <1>1, <1>3 DEF TrackerInv, Gone
<1>8. FilesInv'
  <2>1. global_step \in DOMAIN ckActor' /\ ckActor'[global_step] = actor
    BY <1>1 DEF With
  <2>2. k > 0 => k \in DOMAIN ckActor' /\ ckActor'[k] = ckActor[k]
    BY <1>1, <1>3 DEF FilesInv, TrackedCheckpointComplete, With
  <2>3. TrackedCheckpointComplete'
    BY <1>1, <2>2 DEF FilesInv, TrackedCheckpointComplete
  <2> QED BY <1>1, <2>1, <2>3 DEF FilesInv, AfterActor, AfterCritic, AfterData
<1>9. PrevInv'
  BY <1>1, <1>2, <1>4 DEF PrevInv, AfterActor, AfterCritic
<1> QED BY <1>5, <1>6, <1>7, <1>8, <1>9

LEMMA RotateCriticKeeps == ASSUME MaxKeep # 1, IInv, RotateCritic PROVE IInv'
<1> USE DEF IInv
<1> DEFINE gone == Removed(prevCritic) \cup {global_step}
           k == tracker.step
<1>1. /\ phase = "rotate_critic" /\ phase' = "write_critic"
      /\ ckCritic' = Without(ckCritic, gone) /\ prevCritic' = Kept(prevCritic)
      /\ UNCHANGED <<life, progress, models, global_step, actor, critic, loader, prevActor,
                     ckActor, ckData, tracker>>
  BY DEF RotateCritic, progress, models
<1>2. /\ prevCritic \in Seq(1..MaxStep)
      /\ Newest(prevActor, global_step) /\ Newest(prevCritic, k)
  BY <1>1 DEF TypeOK, PrevInv, Gone, AfterActor, AfterCritic
<1>3. /\ Kept(prevCritic) \in Seq(1..MaxStep) /\ Newest(Kept(prevCritic), k)
      /\ k \notin Removed(prevCritic)
  <2>1. 1..MaxStep \subseteq Nat
    OBVIOUS
  <2> HIDE DEF k
  <2> QED BY <1>2, <2>1, Rotated
<1>4. global_step \in 1..MaxStep /\ k < global_step /\ k \in 0..MaxStep /\ tracker.readable
  BY <1>1, SavingFacts DEF Saving
<1>5. TypeOK'
  <2>1. DOMAIN ckCritic' \subseteq 1..MaxStep /\ Range(ckCritic') \subseteq Weights
    BY <1>1, DirectoryTypes DEF TypeOK
  <2> QED BY <1>1, <1>3, <2>1 DEF TypeOK, Saving, progress, models
<1>6. MemoryInv' /\ LastInv'
  BY <1>1, SavingMemory DEF Saving
<1>7. TrackerInv'
  BY <1>1, <1>4 DEF TrackerInv, Gone
<1>8. FilesInv'
  <2>1. k \notin gone
    BY <1>3, <1>4
  <2>2. k > 0 => k \in DOMAIN ckCritic' /\ ckCritic'[k] = ckCritic[k]
    BY <1>1, <2>1 DEF FilesInv, TrackedCheckpointComplete, Without, Restrict
  <2>3. TrackedCheckpointComplete'
    BY <1>1, <2>2 DEF FilesInv, TrackedCheckpointComplete
  <2>4. global_step \in DOMAIN ckActor /\ ckActor[global_step] = actor
    BY <1>1 DEF FilesInv, AfterActor
  <2>5. k > 0 => \A i \in DOMAIN ckCritic'[k] : ckCritic'[k][i].batch = i
    BY <2>2 DEF FilesInv
  <2> QED BY <1>1, <2>3, <2>4, <2>5 DEF FilesInv, AfterActor, AfterCritic, AfterData
<1>9. PrevInv'
  BY <1>1, <1>2, <1>3 DEF PrevInv, AfterActor, AfterCritic
<1> QED BY <1>5, <1>6, <1>7, <1>8, <1>9

LEMMA WriteCriticKeeps == ASSUME IInv, WriteCritic PROVE IInv'
<1> USE DEF IInv
<1> DEFINE k == tracker.step
<1>1. /\ phase = "write_critic" /\ phase' = "write_data"
      /\ ckCritic' = With(ckCritic, global_step, critic)
      /\ prevCritic' = Append(prevCritic, global_step)
      /\ UNCHANGED <<life, progress, models, global_step, actor, critic, loader, prevActor,
                     ckActor, ckData, tracker>>
  BY DEF WriteCritic, progress, models
<1>2. /\ prevCritic \in Seq(1..MaxStep)
      /\ Newest(prevActor, global_step) /\ Newest(prevCritic, k)
  BY <1>1 DEF TypeOK, PrevInv, Gone, AfterActor, AfterCritic
<1>3. global_step \in 1..MaxStep /\ k < global_step /\ k \in 0..MaxStep /\ tracker.readable
  BY <1>1, SavingFacts DEF Saving
<1>4. prevCritic' \in Seq(1..MaxStep) /\ Newest(prevCritic', global_step)
  <2>1. k \in Nat
    BY <1>3
  <2> HIDE DEF k
  <2> QED BY <1>1, <1>2, <1>3, <2>1, SavedAnother
<1>5. TypeOK'
  <2>1. DOMAIN ckCritic' \subseteq 1..MaxStep /\ Range(ckCritic') \subseteq Weights
    BY <1>1, <1>3, DirectoryTypes DEF TypeOK
  <2> QED BY <1>1, <1>4, <2>1 DEF TypeOK, Saving, progress, models
<1>6. MemoryInv' /\ LastInv'
  BY <1>1, SavingMemory DEF Saving
<1>7. TrackerInv'
  BY <1>1, <1>3 DEF TrackerInv, Gone
<1>8. FilesInv'
  <2>1. global_step \in DOMAIN ckCritic' /\ ckCritic'[global_step] = critic
    BY <1>1 DEF With
  <2>2. k > 0 => k \in DOMAIN ckCritic' /\ ckCritic'[k] = ckCritic[k]
    BY <1>1, <1>3 DEF FilesInv, TrackedCheckpointComplete, With
  <2>3. TrackedCheckpointComplete'
    BY <1>1, <2>2 DEF FilesInv, TrackedCheckpointComplete
  <2>4. global_step \in DOMAIN ckActor /\ ckActor[global_step] = actor
    BY <1>1 DEF FilesInv, AfterActor
  <2>5. k > 0 => \A i \in DOMAIN ckCritic'[k] : ckCritic'[k][i].batch = i
    BY <2>2 DEF FilesInv
  <2> QED BY <1>1, <2>1, <2>3, <2>4, <2>5 DEF FilesInv, AfterActor, AfterCritic, AfterData
<1>9. PrevInv'
  BY <1>1, <1>2, <1>4 DEF PrevInv, AfterActor, AfterCritic
<1> QED BY <1>5, <1>6, <1>7, <1>8, <1>9

LEMMA WriteDataKeeps == ASSUME IInv, WriteData PROVE IInv'
<1> USE DEF IInv
<1> DEFINE k == tracker.step
<1>1. /\ phase = "write_data" /\ phase' = "open_tracker"
      /\ ckData' = With(ckData, global_step, loader)
      /\ UNCHANGED <<life, progress, models, global_step, actor, critic, loader, prevActor,
                     prevCritic, ckActor, ckCritic, tracker>>
  BY DEF WriteData, progress, models, rotation
<1>2. global_step \in 1..MaxStep /\ k < global_step /\ k \in 0..MaxStep /\ tracker.readable
  BY <1>1, SavingFacts DEF Saving
<1>3. TypeOK'
  <2>1. DOMAIN ckData' \subseteq 1..MaxStep /\ Range(ckData') \subseteq Positions
    BY <1>1, <1>2, DirectoryTypes DEF TypeOK
  <2> QED BY <1>1, <2>1 DEF TypeOK, Saving, progress, models
<1>4. MemoryInv' /\ LastInv'
  BY <1>1, SavingMemory DEF Saving
<1>5. TrackerInv'
  BY <1>1, <1>2 DEF TrackerInv, Gone
<1>6. FilesInv'
  <2>1. global_step \in DOMAIN ckData' /\ ckData'[global_step] = loader
    BY <1>1 DEF With
  <2>2. k > 0 => k \in DOMAIN ckData' /\ ckData'[k] = ckData[k]
    BY <1>1, <1>2 DEF FilesInv, TrackedCheckpointComplete, With
  <2>3. TrackedCheckpointComplete'
    BY <1>1, <2>2 DEF FilesInv, TrackedCheckpointComplete
  <2>4. /\ global_step \in DOMAIN ckActor /\ ckActor[global_step] = actor
        /\ global_step \in DOMAIN ckCritic /\ ckCritic[global_step] = critic
    BY <1>1 DEF FilesInv, AfterActor, AfterCritic
  <2> QED BY <1>1, <2>1, <2>3, <2>4 DEF FilesInv, AfterActor, AfterCritic, AfterData
<1>7. PrevInv'
  BY <1>1 DEF PrevInv, Newest, Gone, AfterActor, AfterCritic
<1> QED BY <1>3, <1>4, <1>5, <1>6, <1>7

LEMMA OpenTrackerKeeps == ASSUME IInv, OpenTracker PROVE IInv'
<1> USE DEF IInv
<1>1. /\ phase = "open_tracker" /\ phase' = "write_tracker"
      /\ tracker' = [tracker EXCEPT !.readable = FALSE]
      /\ UNCHANGED <<life, progress, models, global_step, actor, critic, loader, prevActor,
                     prevCritic, ckActor, ckCritic, ckData>>
  BY DEF OpenTracker, progress, models, rotation
<1>2. tracker' = [step |-> tracker.step, readable |-> FALSE] /\ tracker.step \in 0..MaxStep
  BY <1>1, Typed
<1>3. TypeOK'
  <2>1. tracker' \in Trackers
    BY <1>2 DEF Trackers
  <2> QED BY <1>1, <2>1 DEF TypeOK, Saving, progress, models
<1>4. MemoryInv' /\ LastInv'
  BY <1>1, SavingMemory DEF Saving
<1>5. TrackerInv'
  BY <1>1, <1>2, SavingFacts DEF TrackerInv, Gone, Saving
<1>6. FilesInv'
  <2>1. TrackedCheckpointComplete'
    BY <1>1, <1>2 DEF FilesInv, TrackedCheckpointComplete
  <2> QED BY <1>1, <1>2, <2>1 DEF FilesInv, AfterActor, AfterCritic, AfterData
<1>7. PrevInv'
  BY <1>1, <1>2 DEF PrevInv, Newest, Gone, AfterActor, AfterCritic
<1> QED BY <1>3, <1>4, <1>5, <1>6, <1>7

(* The checkpoint just written becomes the tracked one.                    *)
LEMMA WriteTrackerKeeps == ASSUME IInv, WriteTracker PROVE IInv'
<1> USE DEF IInv
<1>1. /\ phase = "write_tracker" /\ phase' = "step_end"
      /\ tracker' = [step |-> global_step, readable |-> TRUE]
      /\ UNCHANGED <<life, progress, models, global_step, actor, critic, loader, prevActor,
                     prevCritic, ckActor, ckCritic, ckData>>
  BY DEF WriteTracker, progress, models, rotation
<1>2. global_step \in 1..MaxStep /\ MaxStep \in Nat /\ life >= 1
  BY <1>1, SavingFacts, Typed DEF Saving, MemoryInv, Gone
<1>3. tracker'.step = global_step /\ tracker'.readable
  BY <1>1
<1>4. TypeOK'
  <2>1. tracker' \in Trackers
    BY <1>1, <1>2 DEF Trackers
  <2> QED BY <1>1, <2>1 DEF TypeOK, Saving, progress, models
<1>5. MemoryInv' /\ LastInv'
  BY <1>1, <1>3, SavingMemory DEF Saving
<1>6. TrackerInv'
  BY <1>1, <1>2, <1>3 DEF TrackerInv
<1>7. FilesInv'
  <2>1. /\ global_step \in DOMAIN ckActor /\ ckActor[global_step] = actor
        /\ global_step \in DOMAIN ckCritic /\ ckCritic[global_step] = critic
        /\ global_step \in DOMAIN ckData /\ ckData[global_step] = loader
    BY <1>1 DEF FilesInv, AfterActor, AfterCritic, AfterData
  <2>2. /\ Len(critic) = global_step /\ actor = ActorOf(critic)
        /\ loader.pass * EpochLen + loader.pos = global_step
        /\ \A i \in DOMAIN critic : critic[i].batch = i
    BY <1>1 DEF MemoryInv, Gone, Between, Served
  <2>3. TrackedCheckpointComplete'
    BY <1>1, <1>3, <2>1, <2>2 DEF TrackedCheckpointComplete
  <2> QED BY <1>1, <1>3, <2>1, <2>2, <2>3 DEF FilesInv, AfterActor, AfterCritic, AfterData
<1>8. PrevInv'
  BY <1>1, <1>3 DEF PrevInv, Newest, Gone, AfterActor, AfterCritic
<1> QED BY <1>4, <1>5, <1>6, <1>7, <1>8

LEMMA NothingKeeps == ASSUME IInv, UNCHANGED vars PROVE IInv'
<1>1. UNCHANGED <<phase, life, global_step, epoch, loader, last, actor, critic, prevActor,
                  prevCritic, ckActor, ckCritic, ckData, tracker>>
  BY DEF vars, progress, models, rotation, files
<1>2. TypeOK'
  BY <1>1 DEF IInv, TypeOK
<1>3. Served' = Served /\ EpochsLost' = EpochsLost
  BY <1>1 DEF Served, EpochsLost
<1>4. MemoryInv'
  BY <1>1, <1>3 DEF IInv, MemoryInv
<1>5. LastInv' /\ TrackerInv'
  BY <1>1, Zenon DEF IInv, LastInv, TrackerInv
<1>6. FilesInv'
  BY <1>1, SameFiles DEF IInv, models, files
<1>7. PrevInv'
  BY <1>1 DEF IInv, PrevInv
<1> QED BY <1>2, <1>4, <1>5, <1>6, <1>7 DEF IInv

LEMMA Inductive == ASSUME MaxKeep # 1, IInv, [Next]_vars PROVE IInv'
<1>1. CASE StartFresh \/ StartResumed \/ StartFails
  BY <1>1, StartsKeep
<1>2. CASE TakeBatch
  BY <1>2, TakeBatchKeeps
<1>3. CASE NextEpoch
  BY <1>3, NextEpochKeeps
<1>4. CASE Update
  BY <1>4, UpdateKeeps
<1>5. CASE LoopEnds \/ SkipSave \/ BeginSave
  BY <1>5, MovesKeep
<1>6. CASE EndStep
  BY <1>6, EndStepKeeps
<1>7. CASE RotateActor
  BY <1>7, RotateActorKeeps
<1>8. CASE WriteActor
  BY <1>8, WriteActorKeeps
<1>9. CASE RotateCritic
  BY <1>9, RotateCriticKeeps
<1>10. CASE WriteCritic
  BY <1>10, WriteCriticKeeps
<1>11. CASE WriteData
  BY <1>11, WriteDataKeeps
<1>12. CASE OpenTracker
  BY <1>12, OpenTrackerKeeps
<1>13. CASE WriteTracker
  BY <1>13, WriteTrackerKeeps
<1>14. CASE Crash \/ Rerun
  BY <1>14, StopsKeep
<1>15. CASE UNCHANGED vars
  BY <1>15, NothingKeeps
<1> QED BY <1>1, <1>2, <1>3, <1>4, <1>5, <1>6, <1>7, <1>8, <1>9, <1>10, <1>11, <1>12, <1>13,
           <1>14, <1>15 DEF Next, Running
-----------------------------------------------------------------------------
(* The theorems.                                                           *)

(* The counters, weights, positions and files stay in their ranges, and     *)
(* what a process remembers agrees with the files, across any number of     *)
(* restarts.                                                                *)
THEOREM TrainerInvariant == ASSUME MaxKeep # 1 PROVE Spec => []IInv
<1>1. Init => IInv
  BY Initially
<1>2. IInv /\ [Next]_vars => IInv'
  BY Inductive
<1> QED BY <1>1, <1>2, PTL DEF Spec

(* However training was killed, the checkpoint _load_checkpoint would take  *)
(* has its actor, its critic and its dataloader position, of one step.      *)
THEOREM CheckpointComplete == ASSUME MaxKeep # 1 PROVE Spec => []TrackedCheckpointComplete
<1>1. IInv => TrackedCheckpointComplete
  BY DEF IInv, FilesInv
<1> QED BY <1>1, TrainerInvariant, PTL

(* Each batch is trained on once, whatever fit() was resumed from.          *)
THEOREM BatchesOnce == ASSUME MaxKeep # 1 PROVE Spec => []NoBatchTwice
<1>1. IInv => NoBatchTwice
  BY DEF IInv, MemoryInv, NoBatchTwice, Gone, Between
<1> QED BY <1>1, TrainerInvariant, PTL

(* A restart fails on a tracker torn by the previous one's death, and on    *)
(* nothing else.                                                            *)
THEOREM TornTrackerOnly == ASSUME MaxKeep # 1 PROVE Spec => []FailsOnTornTrackerOnly
<1>1. Init => FailsOnTornTrackerOnly
  BY DEF Init, FailsOnTornTrackerOnly
<1>2. IInv /\ FailsOnTornTrackerOnly /\ [Next]_vars => FailsOnTornTrackerOnly'
  <2> SUFFICES ASSUME IInv, FailsOnTornTrackerOnly, [Next]_vars, phase' = "failed"
               PROVE  ~tracker'.readable
    BY DEF FailsOnTornTrackerOnly
  <2>1. CASE StartFails
    <3>1. ~tracker.readable
      <4>1. tracker.step > 0 \/ tracker.step = 0
        BY Typed DEF IInv
      <4> QED BY <2>1, <4>1, TrackedFolder DEF StartFails
    <3> QED BY <2>1, <3>1 DEF StartFails, files
  <2>2. CASE phase = "failed" /\ UNCHANGED vars
    BY <2>2 DEF FailsOnTornTrackerOnly, vars, files
  <2> QED BY <2>1, <2>2
       DEF Next, Running, StartFresh, StartResumed, TakeBatch, NextEpoch, LoopEnds, Update,
           SkipSave, BeginSave, EndStep, RotateActor, WriteActor, RotateCritic, WriteCritic,
           WriteData, OpenTracker, WriteTracker, Crash, Rerun, vars
<1> QED BY <1>1, <1>2, TrainerInvariant, PTL DEF Spec

LEMMA LoopEndsComplete ==
  ASSUME IInv, TotalSteps <= MaxStep, LoopEnds
  PROVE  TrainingComplete'
<1>1. /\ phase = "loop" /\ epoch = TotalEpochs
      /\ UNCHANGED <<life, global_step, loader, last, critic, tracker>>
  BY DEF LoopEnds, progress, models, files
<1>2. /\ Len(critic) = global_step - 1 /\ Served = global_step - 1 /\ Served <= MaxStep
      /\ epoch <= loader.pass + EpochsLost
  BY <1>1 DEF IInv, MemoryInv, Gone, Between
<1>3. /\ loader.pass \in 0..TotalEpochs /\ loader.pos \in 0..EpochLen
      /\ MaxStep \in Nat /\ global_step \in Nat
  BY Typed DEF IInv, TypeOK
<1>4. EpochsLost \in {0, 1} /\ EpochsLost' = EpochsLost
      /\ ("empty" \notin EpochEndResume => EpochsLost = 0)
  BY <1>1 DEF EpochsLost
<1>5. Served + EpochLen * EpochsLost >= MaxStep
  <2>1. loader.pass >= TotalEpochs - EpochsLost
    BY <1>1, <1>2, <1>3, <1>4
  <2>2. MaxStep = TotalEpochs * EpochLen
    BY DEF MaxStep
  <2>3. Served >= loader.pass * EpochLen
    BY <1>3 DEF Served
  <2> DEFINE lost == EpochLen * EpochsLost
             passed == loader.pass * EpochLen
  <2>4. lost = IF EpochsLost = 1 THEN EpochLen ELSE 0
    BY <1>4
  <2>5. passed + lost >= MaxStep
    <3>1. CASE loader.pass = TotalEpochs
      <4>1. passed = MaxStep
        BY <2>2, <3>1
      <4> HIDE DEF lost, passed
      <4> QED BY <1>3, <2>4, <4>1
    <3>2. CASE EpochsLost = 1 /\ loader.pass = TotalEpochs - 1
      <4>1. (TotalEpochs - 1) * EpochLen + EpochLen = TotalEpochs * EpochLen
        OBVIOUS
      <4>2. passed = (TotalEpochs - 1) * EpochLen
        BY <3>2
      <4> QED BY <2>2, <2>4, <3>2, <4>1, <4>2
    <3> QED BY <1>3, <1>4, <2>1, <3>1, <3>2
  <2>6. passed \in Nat /\ lost \in Nat /\ Served \in Nat
    <3>1. passed \in Nat /\ lost \in Nat
      BY <1>3, <2>4
    <3> QED BY <3>1, Typed DEF IInv
  <2>7. Served >= passed
    BY <2>3
  <2>8. Served + lost >= MaxStep
    <3> HIDE DEF lost, passed
    <3> QED BY <1>3, <2>5, <2>6, <2>7
  <2> QED BY <2>8
<1>6. AllStepsTrained'
  BY <1>1, <1>2, <1>3, <1>4, <1>5 DEF AllStepsTrained
<1>7. ASSUME SaveFreq > 0, last' \/ "empty" \notin EpochEndResume
      PROVE  tracker' = [step |-> Len(critic'), readable |-> TRUE]
  <2>1. ~last /\ (global_step <= TotalSteps \/ tracker.step = global_step - 1)
    BY <1>1 DEF IInv, LastInv
  <2>2. EpochsLost = 0
    BY <1>1, <1>4, <1>7, <2>1
  <2>3. Served = MaxStep
    BY <1>2, <1>3, <1>5, <2>2
  <2>4. tracker.step = Len(critic)
    BY <1>2, <1>3, <2>1, <2>3
  <2>5. tracker.readable
    BY <1>1 DEF IInv, TrackerInv, Gone
  <2> QED BY <1>1, <2>4, <2>5, Typed DEF IInv
<1> QED BY <1>6, <1>7 DEF TrainingComplete

LEMMA EndStepComplete ==
  ASSUME IInv, EndStep
  PROVE  TrainingComplete'
<1> SUFFICES ASSUME phase' = "finished" PROVE TrainingComplete'
  BY DEF TrainingComplete
<1>1. /\ phase = "step_end" /\ last
      /\ UNCHANGED <<life, last, critic, tracker>>
  BY DEF EndStep, models, files
<1>2. Len(critic) = global_step /\ global_step \in Nat /\ MaxStep \in Nat
  BY <1>1, Typed DEF IInv, TypeOK, MemoryInv, Gone, Between
<1>3. global_step >= TotalSteps
  BY <1>1 DEF IInv, LastInv, Gone, Between
<1>4. EpochLen * EpochsLost \in Nat /\ EpochsLost' = EpochsLost
  BY <1>1 DEF EpochsLost
<1>5. AllStepsTrained'
  BY <1>1, <1>2, <1>3, <1>4 DEF AllStepsTrained
<1>6. ASSUME SaveFreq > 0 PROVE tracker' = [step |-> Len(critic'), readable |-> TRUE]
  <2>1. tracker.step = global_step
    BY <1>1, <1>6 DEF IInv, LastInv
  <2>2. tracker.readable
    BY <1>1 DEF IInv, TrackerInv, Gone
  <2> QED BY <1>1, <1>2, <2>1, <2>2, Typed DEF IInv
<1> QED BY <1>5, <1>6 DEF TrainingComplete

(* When fit() returns, every step the loop was asked for was trained, but   *)
(* for the one epoch a dataloader restored at its end may lose, and the     *)
(* last one is saved.  total_training_steps must be within the data: a      *)
(* larger one never makes is_last_step true.                                *)
THEOREM TrainingEndsComplete ==
  ASSUME MaxKeep # 1, TotalSteps <= MaxStep
  PROVE  Spec => []TrainingComplete
<1>1. Init => TrainingComplete
  BY DEF Init, TrainingComplete
<1>2. IInv /\ TrainingComplete /\ [Next]_vars => TrainingComplete'
  <2> SUFFICES ASSUME IInv, TrainingComplete, [Next]_vars, phase' = "finished"
               PROVE  TrainingComplete'
    BY DEF TrainingComplete
  <2>1. CASE LoopEnds
    BY <2>1, LoopEndsComplete
  <2>2. CASE EndStep
    BY <2>2, EndStepComplete
  <2>3. CASE UNCHANGED vars
    <3>1. UNCHANGED <<phase, life, last, critic, tracker>>
      BY <2>3 DEF vars, progress, models, files
    <3>2. AllStepsTrained' = AllStepsTrained
      BY <3>1 DEF AllStepsTrained, EpochsLost
    <3> QED BY <3>1, <3>2, Zenon DEF TrainingComplete
  <2> QED BY <2>1, <2>2, <2>3
       DEF Next, Running, StartFresh, StartResumed, StartFails, TakeBatch, NextEpoch, Update,
           SkipSave, BeginSave, RotateActor, WriteActor, RotateCritic, WriteCritic,
           WriteData, OpenTracker, WriteTracker, Crash, Rerun
<1> QED BY <1>1, <1>2, TrainerInvariant, PTL DEF Spec
-----------------------------------------------------------------------------
(* Refinement of DurableTraining.                                          *)

Held == IF phase \in Gone THEN Saved ELSE critic

(* Rotation and the writing of another checkpoint leave the tracked one.   *)
LEMMA SavedStays ==
  ASSUME MaxKeep # 1, IInv, [Next]_vars, ~WriteTracker
  PROVE  Saved' = Saved
<1>1. CASE RotateCritic
  <2> DEFINE k == tracker.step
             gone == Removed(prevCritic) \cup {global_step}
  <2>1. /\ phase = "rotate_critic" /\ ckCritic' = Without(ckCritic, gone) /\ tracker' = tracker
    BY <1>1 DEF RotateCritic
  <2>2. prevCritic \in Seq(1..MaxStep) /\ Newest(prevCritic, k)
    BY <2>1 DEF IInv, TypeOK, PrevInv, Gone, AfterCritic
  <2>3. k \notin Removed(prevCritic) /\ k # global_step
    <3>1. 1..MaxStep \subseteq Nat
      OBVIOUS
    <3>2. k < global_step /\ k \in Nat /\ global_step \in Nat
      BY <2>1, SavingFacts DEF Saving
    <3>3. k \notin Removed(prevCritic)
      <4> HIDE DEF k
      <4> QED BY <2>2, <3>1, Rotated
    <3> QED BY <3>2, <3>3
  <2>4. k > 0 => k \in DOMAIN ckCritic'
                /\ ckCritic'[k] = ckCritic[k]
    BY <2>1, <2>3 DEF IInv, FilesInv, TrackedCheckpointComplete, Without, Restrict
  <2> QED BY <2>1, <2>4, Typed DEF IInv, Saved
<1>2. CASE WriteCritic
  <2> DEFINE k == tracker.step
  <2>1. /\ phase = "write_critic" /\ ckCritic' = With(ckCritic, global_step, critic)
        /\ tracker' = tracker
    BY <1>2 DEF WriteCritic
  <2>2. k < global_step /\ k \in Nat /\ global_step \in Nat
    BY <2>1, SavingFacts DEF Saving
  <2>3. k > 0 => ckCritic'[k] = ckCritic[k]
    BY <2>1, <2>2 DEF IInv, FilesInv, TrackedCheckpointComplete, With
  <2> QED BY <2>1, <2>2, <2>3 DEF Saved
<1>3. CASE OpenTracker
  <2>1. tracker'.step = tracker.step /\ ckCritic' = ckCritic
    BY <1>3, Typed DEF OpenTracker, IInv
  <2> QED BY <2>1 DEF Saved
<1>4. CASE UNCHANGED <<ckCritic, tracker>>
  BY <1>4 DEF Saved
<1> QED BY <1>1, <1>2, <1>3, <1>4
     DEF Next, Running, StartFresh, StartResumed, StartFails, TakeBatch, NextEpoch, LoopEnds, Update,
         SkipSave, BeginSave, EndStep, RotateActor, WriteActor, WriteData, WriteTracker,
         Crash, Rerun, vars, files

(* Outside updates, starts and stops, what a process holds stays.          *)
LEMMA HeldStays ==
  ASSUME MaxKeep # 1, IInv, [Next]_vars, ~Update, ~Crash, ~Rerun
  PROVE  Held' = Held
<1>1. CASE StartFresh
  <2>1. phase = "down" /\ phase' = "loop" /\ critic' = critic /\ ~HasFolder(LatestCheckpoint)
    BY <1>1 DEF StartFresh, models
  <2>3. TypeOK
    BY DEF IInv
  <2>4. tracker.step = 0
    BY <2>1, <2>3, TrackedFolder, Typed DEF HasFolder
  <2>2. critic = <<>>
    BY <2>1 DEF IInv, MemoryInv, Gone
  <2> QED BY <2>1, <2>2, <2>4 DEF Held, Saved, Gone
<1>2. CASE StartResumed
  <2>1. tracker.step > 0
    BY <1>2, Typed DEF StartResumed, LatestCheckpoint, IInv
  <2>2. phase = "down" /\ phase' = "loop" /\ critic' = ckCritic[tracker.step]
    BY <1>2 DEF StartResumed, LatestCheckpoint
  <2> QED BY <2>1, <2>2 DEF Held, Saved, Gone
<1>3. CASE StartFails
  <2>1. phase = "down" /\ phase' = "failed" /\ Saved' = Saved
    BY <1>3, SavedStays DEF StartFails, WriteTracker
  <2> QED BY <2>1 DEF Held, Gone
<1>4. CASE phase \notin Gone /\ phase' \notin Gone /\ critic' = critic
  BY <1>4 DEF Held
<1>5. CASE UNCHANGED vars
  <2>1. phase' = phase /\ critic' = critic /\ Saved' = Saved
    BY <1>5 DEF vars, models, Saved, files
  <2> QED BY <2>1 DEF Held
<1> QED BY <1>1, <1>2, <1>3, <1>4, <1>5
     DEF Next, Running, TakeBatch, NextEpoch, LoopEnds, SkipSave, BeginSave, EndStep,
         RotateActor, WriteActor, RotateCritic, WriteCritic, WriteData, OpenTracker,
         WriteTracker, Gone, models

(* Whatever is killed and wherever, training is a sequence of single        *)
(* updates that a restart takes back to the last checkpoint, exactly.       *)
THEOREM DurableRefined == ASSUME MaxKeep # 1 PROVE Spec => DurableSpec
<1>1. Init => Durable!DInit
  BY DEF Init, Durable!DInit, Saved
<1>2. IInv /\ [Next]_vars => [Durable!Train \/ Durable!Commit \/ Durable!Recover]_<<Held, Saved>>
  <2> SUFFICES ASSUME IInv, [Next]_vars
               PROVE  [Durable!Train \/ Durable!Commit \/ Durable!Recover]_<<Held, Saved>>
    OBVIOUS
  <2>1. CASE Update
    <3>1. Saved' = Saved
      BY <2>1, SavedStays DEF Update, WriteTracker
    <3>2. phase = "batch" /\ phase' = "updated" /\ critic' = Append(critic, ThisUpdate)
      BY <2>1 DEF Update
    <3>3. Held = critic /\ Held' = critic'
      BY <3>2 DEF Held, Gone
    <3> DEFINE S == [life : 1..MaxLives, batch : Batches]
               n == Len(critic)
    <3>4. critic \in Seq(S) /\ ThisUpdate \in S /\ n \in Nat
      <4>1. life \in 1..MaxLives /\ Served = global_step /\ global_step >= 1 /\ Served <= MaxStep
        BY <3>2 DEF IInv, TypeOK, MemoryInv, Gone, Between
      <4>2. Served \in Batches
        BY <4>1, Typed DEF IInv, Batches
      <4> QED BY <4>1, <4>2 DEF IInv, TypeOK, Weights, ThisUpdate
    <3>5. Len(critic') = n + 1 /\ SubSeq(critic', 1, n) = critic
      <4> HIDE DEF S
      <4> QED BY <3>2, <3>4, PrefixOfAppend
    <3>7. Len(Held') = Len(Held) + 1 /\ SubSeq(Held', 1, Len(Held)) = Held
      BY <3>3, <3>5
    <3> QED BY <3>1, <3>7 DEF Durable!Train, Held, Gone
  <2>2. CASE Crash \/ Rerun
    <3>1. Saved' = Saved
      BY <2>2, SavedStays DEF Crash, Rerun, WriteTracker
    <3>2. phase' = "down"
      BY <2>2 DEF Crash, Rerun
    <3> QED BY <3>1, <3>2 DEF Durable!Recover, Held, Gone
  <2>3. CASE WriteTracker
    <3>1. /\ phase = "write_tracker" /\ phase' = "step_end" /\ critic' = critic
          /\ tracker'.step = global_step /\ ckCritic' = ckCritic
      BY <2>3 DEF WriteTracker, models
    <3>2. global_step > 0 /\ ckCritic[global_step] = critic
      <4>1. global_step >= 1 /\ global_step \in Nat
        BY <3>1 DEF IInv, MemoryInv, TypeOK, Gone
      <4> QED BY <3>1, <4>1 DEF IInv, FilesInv, AfterCritic
    <3>3. Saved' = critic /\ Held' = critic /\ Held = critic
      BY <3>1, <3>2 DEF Saved, Held, Gone
    <3> QED BY <3>3 DEF Durable!Commit, Held, Gone
  <2>4. CASE ~Update /\ ~Crash /\ ~Rerun /\ ~WriteTracker
    <3>1. Saved' = Saved /\ Held' = Held
      BY <2>4, SavedStays, HeldStays
    <3> QED BY <3>1
  <2> QED BY <2>1, <2>2, <2>3, <2>4
<1>3. IInv /\ [Next]_vars
        => [Durable!Train \/ Durable!Commit \/ Durable!Recover]_(Durable!dvars)
  BY <1>2 DEF Durable!dvars, Held, Gone
<1> QED BY <1>1, <1>3, TrainerInvariant, PTL DEF Spec, DurableSpec, Durable!DSpec

================================================================================
