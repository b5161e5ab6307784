------------------------ MODULE AsyncRollout_proofs ------------------------
(***************************************************************************)
(* Proofs about AsyncRollout, for every set of configurations and any      *)
(* number of samples.                                                      *)
(***************************************************************************)
EXTENDS AsyncRollout, FiniteSetTheorems, SequenceTheorems, TLAPS

LEMMA ConfFacts ==
    ASSUME conf \in Configs
    PROVE  /\ MaxRequired \in Nat /\ MaxRequired >= 1
           /\ conf.partial \in BOOLEAN
           /\ conf.required \in Nat \ {0} /\ conf.trigger \in Nat \ {0}
<1>1. conf.required \in Nat \ {0} /\ conf.trigger \in Nat \ {0}
  BY SizesAssumption
<1>2. conf.maxRequired >= conf.required * conf.trigger /\ conf.maxRequired \in Nat
  BY SizesAssumption
<1>3. \A a, b \in Nat \ {0} : a * b >= 1 /\ a * b \in Nat
  OBVIOUS
<1>4. conf.required * conf.trigger >= 1 /\ conf.required * conf.trigger \in Nat
  BY <1>1, <1>3
<1> QED
  BY <1>1, <1>2, <1>4, SizesAssumption DEF MaxRequired

LEMMA ActiveTasksNat == ASSUME TypeOK PROVE ActiveTasks \in Nat
<1>1. IsFiniteSet(Samples)
  BY FS_Interval, SizesAssumption DEF Samples
<1>2. IsFiniteSet(Unfinished)
  BY <1>1, FS_Subset DEF Unfinished
<1> QED
  BY <1>2, FS_CardinalityType DEF ActiveTasks, TypeOK

LEMMA SeqFacts ==
    ASSUME NEW S, NEW q \in Seq(S)
    PROVE  /\ q # <<>> => Head(q) \in S /\ Tail(q) \in Seq(S)
           /\ Len(q) \in Nat
           /\ Len(q) >= 1 => q # <<>>
           /\ \A x \in S : Append(q, x) \in Seq(S)
  BY HeadTailProperties, LenProperties, AppendProperties, EmptySeq

LEMMA PutType ==
    ASSUME TypeOK, NEW x \in 0 .. Total, PutSample(x)
    PROVE  mq' \in Seq(0 .. Total) /\ dropped' \subseteq 0 .. Total
<1> DEFINE S == 0 .. Total
<1>1. MaxRequired \in Nat /\ MaxRequired >= 1
  BY ConfFacts DEF TypeOK
<1>2. mq \in Seq(S) /\ dropped \subseteq S /\ x \in S
  BY DEF TypeOK
<1>3. mq' = Append(IF Full THEN Tail(mq) ELSE mq, x)
      /\ dropped' = dropped \union (IF Full THEN {Head(mq)} ELSE {})
  BY DEF PutSample
<1> HIDE DEF S
<1>4. Full => mq # <<>>
  BY <1>1, <1>2, SeqFacts DEF Full
<1>5. Full => Head(mq) \in S /\ Tail(mq) \in Seq(S)
  BY <1>2, <1>4, SeqFacts
<1>6. mq' \in Seq(S)
  BY <1>2, <1>3, <1>5, SeqFacts
<1>7. dropped' \subseteq S
  BY <1>2, <1>3, <1>5
<1> QED
  BY <1>6, <1>7 DEF S

LockUsers == {"proc", "mon", "sync", "main"}
Turns == {"loop"} \union LockUsers

LEMMA LockType ==
    ASSUME TypeOK, NEW c \in LockUsers
    PROVE  /\ Ask(c) => lockq' \in Seq(LockUsers) /\ turn' \in Turns
           /\ Holds(c) => Tail(lockq) \in Seq(LockUsers)
<1>1. lockq \in Seq(LockUsers)
  BY DEF TypeOK, LockUsers
<1>2. Append(lockq, c) \in Seq(LockUsers)
  BY <1>1, SeqFacts
<1>3. lockq # <<>> => Tail(lockq) \in Seq(LockUsers)
  BY <1>1, SeqFacts
<1> QED
  BY <1>2, <1>3 DEF Ask, Holds, Turns, LockUsers

LEMMA FillType ==
    ASSUME NEW n \in 0 .. Total, NEW room \in Nat
    PROVE  /\ FedAfter(n, room) \in 0 .. Total + 1
           /\ FedAfter(n, room) >= n
           /\ Fill(n, FedAfter(n, room)) \in Seq(0 .. Total)
<1>1. Total \in Nat
  BY SizesAssumption
<1>2. FedAfter(n, room) \in 0 .. Total + 1 /\ FedAfter(n, room) >= n
  BY <1>1 DEF FedAfter
<1> DEFINE m == FedAfter(n, room) - n
<1>3. m \in Nat
  BY <1>2
<1>4. \A i \in 1 .. m : Item(n + i) \in 0 .. Total
  BY <1>1, <1>3 DEF Item, DONE
<1>5. Fill(n, FedAfter(n, room)) = [i \in 1 .. m |-> Item(n + i)]
  BY DEF Fill
<1>6. [i \in 1 .. m |-> Item(n + i)] \in [1 .. m -> 0 .. Total]
  BY <1>4
<1>7. [i \in 1 .. m |-> Item(n + i)] \in Seq(0 .. Total)
  BY <1>3, <1>6, SeqDef
<1> QED
  BY <1>2, <1>5, <1>7

LEMMA InitType == Init => TypeOK
<1> SUFFICES ASSUME Init PROVE TypeOK
  OBVIOUS
<1>1. PendingMax \in Nat /\ Total \in Nat
  BY SizesAssumption
<1>2. fed \in 0 .. Total + 1 /\ pending \in Seq(0 .. Total)
  BY <1>1, FillType DEF Init
<1>3. NOBODY \in 0 .. Total + 1 /\ NOBODY \in Nat
  BY <1>1 DEF NOBODY
<1>4. \A S : <<>> \in Seq(S)
  BY EmptySeq
<1>5. /\ lockq \in Seq(LockUsers) /\ cancelq \in Seq(Samples)
      /\ mq \in Seq(0 .. Total)
  BY <1>4 DEF Init
<1>6. /\ done \in [Samples -> Nat]
      /\ hand \in 0 .. Total + 1
  BY <1>3 DEF Init
<1> QED
  BY <1>2, <1>5, <1>6 DEF Init, TypeOK, LockUsers

LEMMA FeedType == TypeOK /\ Feed => TypeOK'
<1> SUFFICES ASSUME TypeOK, Feed PROVE TypeOK'
  OBVIOUS
<1>1. PendingMax - Len(pending) \in Nat /\ fed \in 0 .. Total
  BY SizesAssumption, SeqFacts DEF TypeOK, Feed
<1>2. fed' \in 0 .. Total + 1 /\ Fill(fed, fed') \in Seq(0 .. Total)
  BY <1>1, FillType DEF Feed
<1>3. pending' \in Seq(0 .. Total)
  BY <1>2, ConcatProperties DEF TypeOK, Feed
<1> QED
  BY <1>2, <1>3 DEF TypeOK, Feed, procVars, taskVars, roVars, syncVars, trainVars

LEMMA ProcTopType == TypeOK /\ ProcTop => TypeOK'
<1> SUFFICES ASSUME TypeOK, ProcTop PROVE TypeOK'
  OBVIOUS
<1>1. lockq' \in Seq(LockUsers) /\ turn' \in Turns
  BY LockType DEF TypeOK, ProcTop, KeepOn, LockUsers, Turns
<1>2. cancelq # <<>> => Head(cancelq) \in Samples /\ Tail(cancelq) \in Seq(Samples)
  BY SeqFacts DEF TypeOK
<1>3. Samples \subseteq 0 .. Total + 1
  BY SizesAssumption DEF Samples
<1>4. hand' \in 0 .. Total + 1 /\ cancelq' \in Seq(Samples)
  BY <1>2, <1>3 DEF TypeOK, ProcTop, CancelledTaken
<1> QED
  BY SMTT(60), <1>1, <1>4 DEF TypeOK, ProcTop, procFrame, syncVars, trainVars, taskVars, LockUsers, Turns

LEMMA ProcGetType == TypeOK /\ ProcGet => TypeOK'
<1> SUFFICES ASSUME TypeOK, ProcGet PROVE TypeOK'
  OBVIOUS
<1>1. Head(pending) \in 0 .. Total /\ Tail(pending) \in Seq(0 .. Total)
  BY SeqFacts DEF TypeOK, ProcGet
<1>2. hand' \in 0 .. Total + 1 /\ pending' \in Seq(0 .. Total)
  BY <1>1, SizesAssumption DEF ProcGet, Counted
<1> QED
  BY <1>2 DEF TypeOK, ProcGet, Counted, KeepOn, procFrame, syncVars, trainVars, taskVars

LEMMA ProcPauseType == TypeOK /\ ProcPause => TypeOK'
  BY LockType DEF TypeOK, ProcPause, procFrame, syncVars, trainVars, taskVars, Release, KeepOn, Yield, NotifyAll, LockUsers, Turns

LEMMA ProcWhileType == TypeOK /\ ProcWhile => TypeOK'
  BY LockType DEF TypeOK, ProcWhile, procFrame, syncVars, trainVars, taskVars, Release, KeepOn, Yield, NotifyAll, LockUsers, Turns

LEMMA ProcCollectType == TypeOK /\ ProcCollect => TypeOK'
  BY LockType DEF TypeOK, ProcCollect, procFrame, syncVars, trainVars, taskVars, Release, KeepOn, Yield, NotifyAll, LockUsers, Turns

LEMMA ProcWaitedType == TypeOK /\ ProcWaited => TypeOK'
  BY LockType DEF TypeOK, ProcWaited, procFrame, syncVars, trainVars, taskVars, Release, KeepOn, Yield, NotifyAll, LockUsers, Turns

LEMMA ProcIdleType == TypeOK /\ ProcIdle => TypeOK'
  BY LockType DEF TypeOK, ProcIdle, procFrame, syncVars, trainVars, taskVars, Release, KeepOn, Yield, NotifyAll, LockUsers, Turns

LEMMA ProcSubmitType == TypeOK /\ ProcSubmit => TypeOK'
<1> SUFFICES ASSUME TypeOK, ProcSubmit PROVE TypeOK'
  OBVIOUS
<1>1. lockq' \in Seq(LockUsers) /\ turn' \in Turns
  BY LockType DEF ProcSubmit, Release, KeepOn, Yield, LockUsers, Turns
<1>2. hand' \in 0 .. Total + 1
  BY SizesAssumption DEF TypeOK, ProcSubmit, NOBODY
<1>3. task' \in [Samples -> {"none", "created", "gen", "refused", "put", "sent"}]
  BY DEF TypeOK, ProcSubmit
<1> QED
  BY <1>1, <1>2, <1>3 DEF TypeOK, ProcSubmit, Yield, KeepOn, procFrame, syncVars,
     trainVars, LockUsers, Turns

LEMMA ProcWokenType == TypeOK /\ ProcWoken => TypeOK'
  BY LockType DEF TypeOK, ProcWoken, procFrame, syncVars, trainVars, taskVars, Release, KeepOn, Yield, NotifyAll, LockUsers, Turns

LEMMA MainEndMarkerType == TypeOK /\ MainEndMarker => TypeOK'
<1> SUFFICES ASSUME TypeOK, MainEndMarker PROVE TypeOK'
  OBVIOUS
<1>1. DONE \in 0 .. Total
  BY SizesAssumption DEF DONE
<1>2. mq' \in Seq(0 .. Total) /\ dropped' \subseteq 0 .. Total
  BY <1>1, PutType DEF MainEndMarker, PutEndMarker
<1> QED
  BY <1>2 DEF TypeOK, MainEndMarker, mainFrame, taskVars, syncVars, trainVars

LEMMA MainAskType == TypeOK /\ MainAsk => TypeOK'
  BY LockType DEF TypeOK, MainAsk, mainFrame, taskVars, syncVars, trainVars, Release, KeepOn, Yield, NotifyAll, LockUsers, Turns

LEMMA MainStopType == TypeOK /\ MainStop => TypeOK'
  BY LockType DEF TypeOK, MainStop, mainFrame, taskVars, syncVars, trainVars, Release, KeepOn, Yield, NotifyAll, LockUsers, Turns

LEMMA MonitorAskType == TypeOK /\ MonitorAsk => TypeOK'
  BY LockType DEF TypeOK, MonitorAsk, mainFrame, taskVars, syncVars, trainVars, Release, KeepOn, Yield, NotifyAll, LockUsers, Turns

LEMMA MonitorCheckType == TypeOK /\ MonitorCheck => TypeOK'
  BY LockType DEF TypeOK, MonitorCheck, mainFrame, taskVars, syncVars, trainVars, Release, KeepOn, Yield, NotifyAll, LockUsers, Turns

LEMMA MonitorLookType == TypeOK /\ MonitorLook => TypeOK'
  BY LockType DEF TypeOK, MonitorLook, mainFrame, taskVars, syncVars, trainVars, Release, KeepOn, Yield, NotifyAll, LockUsers, Turns

LEMMA MonitorRecoverType == TypeOK /\ MonitorRecover => TypeOK'
<1> SUFFICES ASSUME TypeOK, MonitorRecover PROVE TypeOK'
  OBVIOUS
<1>1. Tail(lockq) \in Seq(LockUsers)
  BY LockType DEF MonitorRecover, LockUsers
<1>2. lockq' \in Seq(LockUsers)
  BY <1>1, SeqFacts DEF MonitorRecover, LockUsers
<1>5. paused' \in BOOLEAN
  BY Zenon DEF TypeOK, MonitorRecover
<1> QED
  BY <1>5, <1>2 DEF TypeOK, MonitorRecover, NotifyAll, mainFrame, taskVars, syncVars,
     trainVars, LockUsers

LEMMA SyncAskType == TypeOK /\ SyncAsk => TypeOK'
<1> SUFFICES ASSUME TypeOK, SyncAsk PROVE TypeOK'
  OBVIOUS
<1>1. lockq' \in Seq(LockUsers) /\ turn' \in Turns
  BY LockType DEF TypeOK, SyncAsk, Release, Yield, LockUsers, Turns
<1> QED
  BY <1>1 DEF TypeOK, SyncAsk, syncFrame, trainVars, LockUsers, Turns

LEMMA PauseType == TypeOK /\ Pause => TypeOK'
<1> SUFFICES ASSUME TypeOK, Pause PROVE TypeOK'
  OBVIOUS
<1>1. lockq' \in Seq(LockUsers) /\ turn' \in Turns
  BY LockType DEF TypeOK, Pause, Release, Yield, LockUsers, Turns
<1> QED
  BY <1>1 DEF TypeOK, Pause, syncFrame, trainVars, AfterPause, LockUsers, Turns

LEMMA PauseServersType == TypeOK /\ PauseServers => TypeOK'
  BY LockType DEF TypeOK, PauseServers, syncFrame, trainVars, Release, KeepOn, Yield, NotifyAll, LockUsers, Turns

LEMMA PauseGatheredType == TypeOK /\ PauseGathered => TypeOK'
  BY LockType DEF TypeOK, PauseGathered, syncFrame, trainVars, Release, KeepOn, Yield, NotifyAll, LockUsers, Turns

LEMMA PauseReturnsType == TypeOK /\ PauseReturns => TypeOK'
<1> SUFFICES ASSUME TypeOK, PauseReturns PROVE TypeOK'
  OBVIOUS
<1>1. lockq' \in Seq(LockUsers) /\ turn' \in Turns
  BY LockType DEF TypeOK, PauseReturns, Release, Yield, LockUsers, Turns
<1>5. trigger' \in BOOLEAN
  BY Zenon DEF TypeOK, PauseReturns
<1> QED
  BY <1>5, <1>1 DEF TypeOK, PauseReturns, syncFrame, trainVars, LockUsers, Turns

LEMMA WeightsSyncedType == TypeOK /\ WeightsSynced => TypeOK'
  BY LockType DEF TypeOK, WeightsSynced, syncFrame, trainVars, Release, KeepOn, Yield, NotifyAll, LockUsers, Turns

LEMMA UpdateReadType == TypeOK /\ UpdateRead => TypeOK'
<1> SUFFICES ASSUME TypeOK, UpdateRead PROVE TypeOK'
  OBVIOUS
<1>1. lockq' \in Seq(LockUsers) /\ turn' \in Turns
  BY LockType DEF TypeOK, UpdateRead, Release, Yield, LockUsers, Turns
<1>2. count' \in Nat
  BY ActiveTasksNat, SeqFacts DEF TypeOK, UpdateRead
<1> QED
  BY <1>1, <1>2 DEF TypeOK, UpdateRead, syncFrame, trainVars, LockUsers, Turns

LEMMA UpdateReturnsType == TypeOK /\ UpdateReturns => TypeOK'
<1> SUFFICES ASSUME TypeOK, UpdateReturns PROVE TypeOK'
  OBVIOUS
<1>1. lockq' \in Seq(LockUsers) /\ turn' \in Turns
  BY LockType DEF TypeOK, UpdateReturns, Release, Yield, LockUsers, Turns
<1>2. staleness' \in Nat
  BY SeqFacts DEF TypeOK, UpdateReturns, Queued
<1> QED
  BY <1>1, <1>2 DEF TypeOK, UpdateReturns, syncFrame, trainVars, LockUsers, Turns

LEMMA ResumeServersType == TypeOK /\ ResumeServers => TypeOK'
<1> SUFFICES ASSUME TypeOK, ResumeServers PROVE TypeOK'
  OBVIOUS
<1>1. lockq' \in Seq(LockUsers) /\ turn' \in Turns
  BY LockType DEF TypeOK, ResumeServers, Release, Yield, LockUsers, Turns
<1>5. srvPaused' \in BOOLEAN
  BY Zenon DEF TypeOK, ResumeServers
<1> QED
  BY <1>5, <1>1 DEF TypeOK, ResumeServers, syncFrame, trainVars, LockUsers, Turns

LEMMA ResumeType == TypeOK /\ Resume => TypeOK'
<1> SUFFICES ASSUME TypeOK, Resume PROVE TypeOK'
  OBVIOUS
<1>1. lockq' \in Seq(LockUsers) /\ turn' \in Turns
  BY LockType DEF TypeOK, Resume, Release, Yield, LockUsers, Turns
<1>5. paused' \in BOOLEAN /\ trigger' \in BOOLEAN
  BY Zenon DEF TypeOK, Resume
<1> QED
  BY <1>5, <1>1 DEF TypeOK, Resume, syncFrame, trainVars, NotifyAll, LockUsers, Turns

LEMMA CollectType == TypeOK /\ Collect => TypeOK'
<1> SUFFICES ASSUME TypeOK, Collect PROVE TypeOK'
  OBVIOUS
<1>1. Head(mq) \in 0 .. Total /\ Tail(mq) \in Seq(0 .. Total)
  BY SeqFacts DEF TypeOK, Collect
<1>2. Head(mq) # DONE => Head(mq) \in Samples
  BY <1>1, SizesAssumption DEF DONE, Samples
<1>3. batch' \subseteq Samples
  BY <1>2 DEF TypeOK, Collect, IsMarker
<1>5. closing' \in BOOLEAN
  BY Zenon DEF TypeOK, Collect
<1> QED
  BY <1>5, <1>1, <1>3 DEF TypeOK, Collect, trainFrame, procVars, taskVars, roVars

LEMMA TrainType == TypeOK /\ Train => TypeOK'
<1> SUFFICES ASSUME TypeOK, Train PROVE TypeOK'
  OBVIOUS
<1>1. NOBODY \in Nat
  BY SizesAssumption DEF NOBODY
<1>2. done' \in [Samples -> Nat]
  BY <1>1 DEF TypeOK, Train
<1> QED
  BY <1>2 DEF TypeOK, Train, trainFrame, procVars, roVars

LEMMA StartSyncType == TypeOK /\ StartSync => TypeOK'
  BY LockType DEF TypeOK, StartSync, trainFrame, procVars, taskVars, roVars, Release, KeepOn, Yield, NotifyAll, LockUsers, Turns

LEMMA CloseType == TypeOK /\ Close => TypeOK'
  BY LockType DEF TypeOK, Close, trainFrame, procVars, taskVars, roVars, Release, KeepOn, Yield, NotifyAll, LockUsers, Turns

LEMMA LastType == TypeOK /\ Last => TypeOK'
  BY LockType DEF TypeOK, Last, trainFrame, procVars, taskVars, roVars, Release, KeepOn, Yield, NotifyAll, LockUsers, Turns

LEMMA TaskStartType == ASSUME TypeOK, NEW s \in Samples, TaskStart(s) PROVE TypeOK'
  BY DEF TypeOK, TaskStart, taskFrame, procVars, syncVars, trainVars

LEMMA TaskGeneratedType == ASSUME TypeOK, NEW s \in Samples, TaskGenerated(s) PROVE TypeOK'
  BY DEF TypeOK, TaskGenerated, taskFrame, procVars, syncVars, trainVars

LEMMA TaskCancelledType == ASSUME TypeOK, NEW s \in Samples, TaskCancelled(s) PROVE TypeOK'
  BY DEF TypeOK, TaskCancelled, taskFrame, procVars, syncVars, trainVars

LEMMA TaskRaisesType == ASSUME TypeOK, NEW s \in Samples, TaskRaises(s) PROVE TypeOK'
  BY DEF TypeOK, TaskRaises, taskFrame, procVars, syncVars, trainVars

LEMMA QueuePutType == ASSUME TypeOK, NEW s \in Samples, QueuePut(s) PROVE TypeOK'
<1>1. s \in 0 .. Total
  BY SizesAssumption DEF Samples
<1>2. mq' \in Seq(0 .. Total) /\ dropped' \subseteq 0 .. Total
  BY <1>1, PutType DEF QueuePut
<1> QED
  BY <1>2 DEF TypeOK, QueuePut, taskFrame, procVars, syncVars, trainVars

LEMMA TaskEndsType == ASSUME TypeOK, NEW s \in Samples, TaskEnds(s) PROVE TypeOK'
  BY DEF TypeOK, TaskEnds, taskFrame, procVars, syncVars, trainVars

LEMMA StepType == TypeOK /\ [Next]_vars => TypeOK'
<1> SUFFICES ASSUME TypeOK, [Next]_vars PROVE TypeOK'
  OBVIOUS
<1>1. CASE Feed
  BY <1>1, FeedType
<1>2. CASE Processor
  BY <1>2, ProcTopType, ProcGetType, ProcPauseType, ProcWhileType,
     ProcCollectType, ProcWaitedType, ProcIdleType, ProcSubmitType,
     ProcWokenType DEF Processor
<1>3. CASE Main
  BY <1>3, MainEndMarkerType, MainAskType, MainStopType DEF Main
<1>4. CASE Monitor
  BY <1>4, MonitorAskType, MonitorCheckType, MonitorLookType,
     MonitorRecoverType DEF Monitor
<1>5. CASE Sync
  BY <1>5, SyncAskType, PauseType, PauseServersType, PauseGatheredType,
     PauseReturnsType, WeightsSyncedType, UpdateReadType, UpdateReturnsType,
     ResumeServersType, ResumeType DEF Sync
<1>6. CASE Trainer
  BY <1>6, CollectType, TrainType, StartSyncType, CloseType, LastType
     DEF Trainer
<1>7. ASSUME NEW s \in Samples, Task(s) \/ TaskRaises(s) PROVE TypeOK'
  BY <1>7, TaskStartType, TaskGeneratedType, TaskCancelledType, TaskRaisesType,
     QueuePutType, TaskEndsType DEF Task
<1>8. CASE UNCHANGED vars
  BY <1>8 DEF TypeOK, vars, procVars, taskVars, roVars, syncVars, trainVars
<1> QED
  BY <1>1, <1>2, <1>3, <1>4, <1>5, <1>6, <1>7, <1>8 DEF Next, Finished

(* Every variable has its type, whatever the configurations are.           *)
THEOREM AsyncTypes == Spec => []TypeOK
<1>1. Init => TypeOK
  BY InitType
<1>2. TypeOK /\ [Next]_vars => TypeOK'
  BY StepType
<1> QED
  BY <1>1, <1>2, PTL DEF Spec
-----------------------------------------------------------------------------
(* With partial rollout the servers stay paused from cancel() to resume(), and
   what they were generating has been gathered.                             *)
ServersQuiet ==
    conf.partial =>
        /\ spc = "gather" => srvPaused
        /\ spc \in {"kv", "weights", "callUpdate", "update", "updating",
                   "callResume"} =>
              srvPaused /\ \A s \in Samples : task[s] # "gen"

LEMMA ServersQuietStep == TypeOK /\ ServersQuiet /\ [Next]_vars => ServersQuiet'
<1> SUFFICES ASSUME TypeOK, ServersQuiet, [Next]_vars PROVE ServersQuiet'
  OBVIOUS
<1> USE DEF ServersQuiet
<1>1. CASE Feed
  BY <1>1 DEF Feed, taskVars, syncVars
<1>2. CASE Processor
  <2>1. conf' = conf /\ spc' = spc /\ srvPaused' = srvPaused
    BY <1>2 DEF Processor, ProcTop, ProcGet, ProcPause, ProcWhile, ProcCollect,
       ProcWaited, ProcIdle, ProcSubmit, ProcWoken, procFrame, syncVars
  <2>2. \A s \in Samples : task'[s] = "gen" => task[s] = "gen"
    BY <1>2 DEF TypeOK, Processor, ProcTop, ProcGet, ProcPause, ProcWhile,
       ProcCollect, ProcWaited, ProcIdle, ProcSubmit, ProcWoken, taskVars
  <2> QED
    BY <2>1, <2>2
<1>3. CASE Main \/ Monitor
  BY <1>3 DEF Main, MainEndMarker, MainAsk, MainStop, Monitor, MonitorAsk,
     MonitorCheck, MonitorLook, MonitorRecover, mainFrame, taskVars, syncVars
<1>4. CASE Sync
  <2>1. CASE SyncAsk
    BY <1>4, <2>1 DEF SyncAsk, syncFrame
  <2>2. CASE Pause
    BY <2>2 DEF Pause, AfterPause, syncFrame
  <2>3. CASE PauseServers
    BY <2>3 DEF PauseServers, syncFrame
  <2>4. CASE PauseGathered
    BY <2>4 DEF PauseGathered, Unfinished, syncFrame
  <2>5. CASE PauseReturns \/ WeightsSynced \/ UpdateRead \/ UpdateReturns
    BY <2>5 DEF PauseReturns, WeightsSynced, UpdateRead, UpdateReturns,
       syncFrame, trainVars
  <2>6. CASE ResumeServers \/ Resume
    BY <2>6 DEF ResumeServers, Resume, syncFrame
  <2> QED
    BY <1>4, <2>1, <2>2, <2>3, <2>4, <2>5, <2>6 DEF Sync
<1>5. CASE Trainer
  BY <1>5 DEF Trainer, Collect, Train, StartSync, Close, Last, trainFrame,
     taskVars
<1>6. ASSUME NEW s \in Samples, Task(s) \/ TaskRaises(s)
      PROVE  ServersQuiet'
  BY <1>6 DEF TypeOK, Task, TaskStart, TaskGenerated, TaskCancelled, TaskRaises,
     QueuePut, TaskEnds, taskFrame, syncVars
<1>7. CASE UNCHANGED vars
  BY <1>7 DEF vars, taskVars, syncVars
<1> QED
  BY <1>1, <1>2, <1>3, <1>4, <1>5, <1>6, <1>7 DEF Next, Finished

(* While weights are replaced no server generates, in every run of every
   configuration with partial rollout: the monitor loop may lift the pause
   too early, but what is resubmitted is sent back by the paused servers.   *)
THEOREM QuietDuringSync == Spec => []NoGenerationDuringSync
<1>1. Init => ServersQuiet
  BY DEF Init, ServersQuiet
<1>2. TypeOK /\ ServersQuiet /\ [Next]_vars => ServersQuiet'
  BY ServersQuietStep
<1>3. ServersQuiet => NoGenerationDuringSync
  BY DEF ServersQuiet, NoGenerationDuringSync
<1> QED
  BY <1>1, <1>2, <1>3, AsyncTypes, PTL DEF Spec
-----------------------------------------------------------------------------
(* The freshness bound.                                                    *)

LEMMA SamplesFinite ==
    /\ IsFiniteSet(Samples)
    /\ \A S \in SUBSET Samples :
          IsFiniteSet(S) /\ Cardinality(S) \in Nat
    /\ \A S, T \in SUBSET Samples :
          /\ S \subseteq T => Cardinality(S) <= Cardinality(T)
          /\ Cardinality(S \union T) <= Cardinality(S) + Cardinality(T)
    /\ \A S \in SUBSET Samples : \A x :
          Cardinality(S \union {x}) <= Cardinality(S) + 1
<1>1. IsFiniteSet(Samples)
  BY FS_Interval, SizesAssumption DEF Samples
<1>2. \A S \in SUBSET Samples : IsFiniteSet(S) /\ Cardinality(S) \in Nat
  BY <1>1, FS_Subset, FS_CardinalityType
<1>3. ASSUME NEW S \in SUBSET Samples, NEW T \in SUBSET Samples
      PROVE  /\ S \subseteq T => Cardinality(S) <= Cardinality(T)
             /\ Cardinality(S \union T) <= Cardinality(S) + Cardinality(T)
  <2>1. S \subseteq T => Cardinality(S) <= Cardinality(T)
    BY <1>2, FS_Subset
  <2>2. Cardinality(S \union T)
          = Cardinality(S) + Cardinality(T) - Cardinality(S \intersect T)
    BY <1>2, FS_Union
  <2>3. Cardinality(S \intersect T) \in Nat
    BY <1>2
  <2> QED
    BY <1>2, <2>1, <2>2, <2>3
<1>4. ASSUME NEW S \in SUBSET Samples, NEW x
      PROVE  Cardinality(S \union {x}) <= Cardinality(S) + 1
  <2>1. IsFiniteSet(S) /\ Cardinality(S) \in Nat
    BY <1>2
  <2>2. CASE x \in S
    <3>1. S \union {x} = S
      BY <2>2
    <3> QED
      BY <2>1, <3>1
  <2>3. CASE x \notin S
    <3>1. Cardinality(S \union {x}) = Cardinality(S) + 1
      BY <2>1, <2>3, FS_AddElement
    <3> QED
      BY <2>1, <3>1
  <2> QED
    BY <2>2, <2>3
<1> QED
  BY <1>1, <1>2, <1>3, <1>4

LEMMA InSeqFacts ==
    ASSUME NEW S, NEW q \in Seq(S)
    PROVE  /\ InSeq(q) \subseteq S
           /\ IsFiniteSet(InSeq(q)) /\ Cardinality(InSeq(q)) <= Len(q)
           /\ q # <<>> => /\ Head(q) \in InSeq(q)
                          /\ InSeq(Tail(q)) \subseteq InSeq(q)
           /\ \A x \in S : InSeq(Append(q, x)) = InSeq(q) \union {x}
<1>1. Len(q) \in Nat /\ q \in [1 .. Len(q) -> S] /\ DOMAIN q = 1 .. Len(q)
  BY LenProperties
<1>2. InSeq(q) \subseteq S
  BY <1>1 DEF InSeq
<1>3. q \in Surjection(1 .. Len(q), InSeq(q))
  BY <1>1 DEF InSeq, Surjection
<1>4. IsFiniteSet(InSeq(q)) /\ Cardinality(InSeq(q)) <= Len(q)
  BY <1>1, <1>3, FS_SurjCardinalityBound, FS_NatSurjection
     DEF ExistsSurjection
<1>5. ASSUME q # <<>>
      PROVE  Head(q) \in InSeq(q) /\ InSeq(Tail(q)) \subseteq InSeq(q)
  <2>1. Len(q) >= 1 /\ Head(q) = q[1]
    BY <1>1, <1>5, EmptySeq, HeadTailProperties
  <2>2. /\ Tail(q) \in Seq(S) /\ Len(Tail(q)) = Len(q) - 1
        /\ \A i \in 1 .. Len(Tail(q)) : Tail(q)[i] = q[i + 1]
    BY <1>5, HeadTailProperties
  <2>3. DOMAIN Tail(q) = 1 .. Len(q) - 1
    BY <2>2, LenProperties
  <2> QED
    BY <1>1, <2>1, <2>2, <2>3 DEF InSeq
<1>6. ASSUME NEW x \in S
      PROVE  InSeq(Append(q, x)) = InSeq(q) \union {x}
  <2>1. /\ Len(Append(q, x)) = Len(q) + 1 /\ Append(q, x)[Len(q) + 1] = x
        /\ \A i \in 1 .. Len(q) : Append(q, x)[i] = q[i]
        /\ Append(q, x) \in Seq(S)
    BY AppendProperties
  <2>2. DOMAIN Append(q, x) = 1 .. Len(q) + 1
    BY <2>1, LenProperties
  <2> QED
    BY <1>1, <2>1, <2>2 DEF InSeq
<1> QED
  BY <1>2, <1>4, <1>5, <1>6

LEMMA InFlightSamples ==
    ASSUME TypeOK
    PROVE  InFlight \subseteq Samples /\ Generating \subseteq Samples
           /\ InSeq(cancelq) \subseteq Samples
  BY InSeqFacts DEF TypeOK, InFlight, Generating

(* Started, and neither in the processor's hands nor in the message queue. *)
OnTheWay == Generating \union InSeq(cancelq)

LEMMA PutMoves ==
    ASSUME TypeOK, NEW x \in 0 .. Total, PutSample(x)
    PROVE  InSeq(mq') \subseteq InSeq(mq) \union {x}
<1> DEFINE S == 0 .. Total
           kept == IF Full THEN Tail(mq) ELSE mq
<1>1. MaxRequired \in Nat /\ MaxRequired >= 1
  BY ConfFacts DEF TypeOK
<1>2. mq \in Seq(S) /\ x \in S
  BY DEF TypeOK
<1>3. mq' = Append(kept, x)
  BY DEF PutSample
<1> HIDE DEF S
<1>4. Full => mq # <<>>
  BY <1>1, <1>2, SeqFacts DEF Full
<1>5. kept \in Seq(S)
  BY <1>2, <1>4, SeqFacts
<1>6. InSeq(kept) \subseteq InSeq(mq)
  BY <1>2, <1>4, InSeqFacts
<1> HIDE DEF kept
<1> QED
  BY <1>2, <1>3, <1>5, <1>6, InSeqFacts

LEMMA CollectMoves ==
    ASSUME TypeOK, Collect PROVE InSeq(mq') \subseteq InSeq(mq)
<1> DEFINE S == 0 .. Total
<1>1. mq \in Seq(S) /\ mq # <<>> /\ mq' = Tail(mq)
  BY DEF TypeOK, Collect
<1> HIDE DEF S
<1> QED
  BY <1>1, InSeqFacts

LEMMA TakeMoves ==
    ASSUME TypeOK, cancelq # <<>>
    PROVE  Head(cancelq) \in InSeq(cancelq)
           /\ InSeq(Tail(cancelq)) \subseteq InSeq(cancelq)
  BY InSeqFacts DEF TypeOK

\* The processor alone brings a sample in, and hands one to a task.
LEMMA FlightMoves ==
    ASSUME TypeOK, [Next]_vars
    PROVE  /\ ~ProcGet => InFlight' \subseteq InFlight
           /\ ProcGet => InFlight' \subseteq InFlight \union {Head(pending)}
           /\ OnTheWay' \subseteq OnTheWay \/ Holds("proc")
<1> USE DEF InFlight, OnTheWay
<1>1. CASE Feed
  BY <1>1 DEF Feed, taskVars, procVars, roVars, Generating, InSeq
<1>2. CASE ProcTop
  <2>1. Generating' = Generating /\ InSeq(mq') = InSeq(mq)
    BY <1>2 DEF ProcTop, procFrame, taskVars, Generating, InSeq
  <2>2. CASE hand' = hand /\ cancelq' = cancelq
    BY <2>1, <2>2
  <2>3. CASE cancelq # <<>> /\ hand' = Head(cancelq) /\ cancelq' = Tail(cancelq)
    BY <2>1, <2>3, TakeMoves
  <2>4. ~ProcGet
    BY <1>2 DEF ProcTop, ProcGet
  <2> QED
    BY <1>2, <2>1, <2>2, <2>3, <2>4 DEF ProcTop, CancelledTaken
<1>3. CASE ProcGet
  BY <1>3 DEF ProcGet, procFrame, taskVars, Generating, InSeq
<1>4. CASE ProcPause \/ ProcWhile \/ ProcCollect \/ ProcWaited \/ ProcIdle
           \/ ProcWoken
  BY <1>4 DEF ProcPause, ProcWhile, ProcCollect, ProcWaited, ProcIdle,
     ProcWoken, procFrame, taskVars, Generating, InSeq
<1>5. CASE ProcSubmit
  <2>1. /\ Holds("proc") /\ cancelq' = cancelq /\ mq' = mq
        /\ \/ hand' = hand /\ task' = task
           \/ /\ hand' = NOBODY
              /\ \A s \in Samples : s # hand => task'[s] = task[s]
    BY <1>5 DEF ProcSubmit, procFrame, TypeOK
  <2>2. Generating' \subseteq Generating \union ({hand} \intersect Samples)
    BY <2>1 DEF Generating
  <2>3. {hand'} \intersect Samples \subseteq {hand} \intersect Samples
    BY <2>1, SizesAssumption DEF NOBODY, Samples
  <2>4. InSeq(cancelq') = InSeq(cancelq) /\ InSeq(mq') = InSeq(mq)
    BY <2>1 DEF InSeq
  <2>5. InFlight' \subseteq InFlight
    BY <2>2, <2>3, <2>4
  <2>6. ~ProcGet
    BY <1>5 DEF ProcSubmit, ProcGet
  <2> QED
    BY <2>1, <2>5, <2>6
<1>6. CASE MainEndMarker
  <2>1. DONE \in 0 .. Total /\ DONE \notin Samples
    BY SizesAssumption DEF DONE, Samples
  <2>2. InSeq(mq') \subseteq InSeq(mq) \union {DONE}
    BY <1>6, <2>1, PutMoves DEF MainEndMarker, PutEndMarker
  <2>3. /\ Generating' = Generating /\ InSeq(cancelq') = InSeq(cancelq)
        /\ hand' = hand
    BY <1>6 DEF MainEndMarker, mainFrame, taskVars, Generating, InSeq
  <2> QED
    BY <1>6, <2>1, <2>2, <2>3
<1>7. CASE MainAsk \/ MainStop \/ Monitor
  BY <1>7 DEF MainAsk, MainStop, Monitor, MonitorAsk, MonitorCheck,
     MonitorLook, MonitorRecover, mainFrame, taskVars, Generating, InSeq
<1>8. CASE Sync
  BY <1>8 DEF Sync, SyncAsk, Pause, PauseServers, PauseGathered, PauseReturns,
     WeightsSynced, UpdateRead, UpdateReturns, ResumeServers, Resume, syncFrame,
     Generating, InSeq
<1>9. CASE Trainer
  <2>1. /\ Generating' = Generating /\ InSeq(cancelq') = InSeq(cancelq)
        /\ hand' = hand
    BY <1>9 DEF Trainer, Collect, Train, StartSync, Close, Last, trainFrame,
       procVars, taskVars, roVars, Generating, InSeq
  <2>2. InSeq(mq') \subseteq InSeq(mq)
    BY <1>9, CollectMoves
       DEF Trainer, Train, StartSync, Close, Last, InSeq
  <2> QED
    BY <2>1, <2>2
<1>10. ASSUME NEW s \in Samples, Task(s) \/ TaskRaises(s)
       PROVE  InFlight' \subseteq InFlight /\ OnTheWay' \subseteq OnTheWay
  <2> USE DEF TypeOK, taskFrame, procVars
  <2>1. CASE TaskStart(s)
    BY <2>1 DEF TaskStart, Generating, InSeq
  <2>2. CASE TaskGenerated(s)
    BY <2>2 DEF TaskGenerated, Generating, InSeq
  <2>3. CASE TaskCancelled(s)
    <3>1. s \in Generating /\ Generating' \subseteq Generating
      BY <2>3 DEF TaskCancelled, Generating
    <3>2. InSeq(cancelq') = InSeq(cancelq) \union {s}
      BY <2>3, InSeqFacts DEF TaskCancelled
    <3>3. hand' = hand /\ InSeq(mq') = InSeq(mq)
      BY <2>3 DEF TaskCancelled, InSeq
    <3> QED
      BY <3>1, <3>2, <3>3
  <2>4. CASE TaskRaises(s)
    BY <2>4 DEF TaskRaises, Generating, InSeq
  <2>5. CASE QueuePut(s)
    <3>1. s \in 0 .. Total
      BY SizesAssumption DEF Samples
    <3>2. InSeq(mq') \subseteq InSeq(mq) \union {s}
      BY <2>5, <3>1, PutMoves DEF QueuePut
    <3>3. s \in Generating /\ Generating' \subseteq Generating
      BY <2>5 DEF QueuePut, Generating
    <3>4. hand' = hand /\ InSeq(cancelq') = InSeq(cancelq)
      BY <2>5 DEF QueuePut, InSeq
    <3> QED
      BY <3>2, <3>3, <3>4
  <2>6. CASE TaskEnds(s)
    BY <2>6 DEF TaskEnds, Generating, InSeq
  <2> QED
    BY <1>10, <2>1, <2>2, <2>3, <2>4, <2>5, <2>6 DEF Task
<1>11. CASE UNCHANGED vars
  BY <1>11 DEF vars, procVars, taskVars, roVars, Generating, InSeq
<1> QED
  BY <1>1, <1>2, <1>3, <1>4, <1>5, <1>6, <1>7, <1>8, <1>9, <1>10, <1>11
     DEF Next, Finished, Processor, Main

(* FreshnessBound is not inductive: the budget is looked at one step before the
   processor takes a sample, and the count it is looked at against is reset
   from a number read before the queue was asked.  While that answer is awaited
   the lock is the synchroniser's, so nothing is started.                    *)
FreshInv ==
    /\ Cardinality(InFlight) <= MaxRequired + 1
    /\ Cardinality(InFlight) <= staleness + 1
    /\ ppc = "get" => Cardinality(InFlight) <= MaxRequired
    /\ spc = "updating" => /\ lockq # <<>> /\ Head(lockq) = "sync"
                           /\ Cardinality(OnTheWay) <= count

LEMMA FlightSizes ==
    ASSUME TypeOK
    PROVE  /\ Cardinality(InFlight) \in Nat /\ Cardinality(OnTheWay) \in Nat
           /\ Cardinality(OnTheWay) <= ActiveTasks + Len(cancelq)
           /\ Cardinality(InFlight) <= Cardinality(OnTheWay) + Len(mq) + 1
<1> DEFINE Q == InSeq(mq) \intersect Samples
           H == {hand} \intersect Samples
           U == Unfinished
           C == InSeq(cancelq)
<1>1. /\ Generating \subseteq U /\ U \subseteq Samples
      /\ C \subseteq Samples /\ OnTheWay = Generating \union C
      /\ InFlight = (OnTheWay \union Q) \union H
      /\ OnTheWay \subseteq Samples /\ InFlight \subseteq Samples
  BY InFlightSamples DEF Generating, Unfinished, OnTheWay, InFlight
<1>2. Cardinality(InFlight) \in Nat /\ Cardinality(OnTheWay) \in Nat
  BY <1>1, SamplesFinite
<1>3. Cardinality(C) \in Nat /\ Cardinality(C) <= Len(cancelq)
  BY <1>1, SamplesFinite, InSeqFacts DEF TypeOK
<1>4. Cardinality(Q) \in Nat /\ Cardinality(Q) <= Len(mq)
  <2> DEFINE S == 0 .. Total
  <2>1. mq \in Seq(S) /\ Q \subseteq InSeq(mq)
    BY DEF TypeOK
  <2> HIDE DEF S, Q
  <2>2. IsFiniteSet(InSeq(mq)) /\ Cardinality(InSeq(mq)) <= Len(mq)
    BY <2>1, InSeqFacts
  <2>3. Cardinality(Q) <= Cardinality(InSeq(mq)) /\ Cardinality(Q) \in Nat
    BY <2>1, <2>2, FS_Subset, FS_CardinalityType
  <2>4. Cardinality(InSeq(mq)) \in Nat /\ Len(mq) \in Nat
    BY <2>1, <2>2, FS_CardinalityType, LenProperties
  <2> QED
    BY <2>2, <2>3, <2>4
<1>5. Cardinality(U) \in Nat /\ Cardinality(OnTheWay) <= Cardinality(U) + Cardinality(C)
  <2>1. OnTheWay \subseteq U \union C /\ U \union C \subseteq Samples
    BY <1>1
  <2>2. /\ Cardinality(OnTheWay) <= Cardinality(U \union C)
        /\ Cardinality(U \union C) <= Cardinality(U) + Cardinality(C)
        /\ Cardinality(U) \in Nat /\ Cardinality(U \union C) \in Nat
    BY <1>1, <2>1, SamplesFinite
  <2> HIDE DEF U, C
  <2> QED
    BY <1>2, <1>3, <2>2
<1>6. Cardinality(OnTheWay) <= ActiveTasks + Len(cancelq)
  <2>1. ended \in Nat /\ failed \in Nat /\ Len(cancelq) \in Nat
    BY SeqFacts DEF TypeOK
  <2>2. ActiveTasks = Cardinality(U) + ended + failed
    BY DEF ActiveTasks
  <2> HIDE DEF U, C
  <2> QED
    BY <1>2, <1>3, <1>5, <2>1, <2>2
<1>7. Cardinality(InFlight) <= Cardinality(OnTheWay) + Len(mq) + 1
  <2>1. InFlight \subseteq (OnTheWay \union Q) \union {hand}
    BY <1>1
  <2>2. /\ OnTheWay \union Q \in SUBSET Samples /\ Q \in SUBSET Samples
    BY <1>1
  <2>3. /\ Cardinality(OnTheWay \union Q) <= Cardinality(OnTheWay) + Cardinality(Q)
        /\ Cardinality(OnTheWay \union Q) \in Nat
    BY <1>1, <2>2, SamplesFinite
  <2>4. Cardinality(OnTheWay \union Q) <= Cardinality(OnTheWay) + Len(mq)
    <3> DEFINE A == Cardinality(OnTheWay)  B == Cardinality(Q)
               D == Cardinality(OnTheWay \union Q)  E == Len(mq)
    <3>1. /\ A \in Nat /\ B \in Nat /\ D \in Nat /\ E \in Nat
          /\ D <= A + B /\ B <= E
      BY <1>2, <1>4, <2>3, SeqFacts DEF TypeOK
    <3> HIDE DEF A, B, D, E
    <3>2. D <= A + E
      BY <3>1
    <3> QED
      BY <3>2 DEF A, D, E
  <2>5. Cardinality(InFlight) <= Cardinality(OnTheWay \union Q) + 1
    <3>1. CASE hand \in Samples
      <4>1. InFlight = (OnTheWay \union Q) \union {hand}
        BY <1>1, <3>1
      <4> QED
        BY <2>2, <4>1, SamplesFinite
    <3>2. CASE hand \notin Samples
      <4>1. InFlight = OnTheWay \union Q
        BY <1>1, <3>2
      <4> QED
        BY <2>3, <4>1
    <3> QED
      BY <3>1, <3>2
  <2>6. \A i, d, a, e \in Nat : i <= d + 1 /\ d <= a + e => i <= a + e + 1
    OBVIOUS
  <2>7. Len(mq) \in Nat
    BY SeqFacts DEF TypeOK
  <2> QED
    BY <1>2, <2>3, <2>4, <2>5, <2>6, <2>7
<1> QED
  BY <1>2, <1>6, <1>7

\* A lock that is held stays with its holder while others ask for it.
LEMMA LockKept ==
    ASSUME TypeOK, NEW c \in LockUsers, Ask(c),
           lockq # <<>>, Head(lockq) = "sync"
    PROVE  lockq' # <<>> /\ Head(lockq') = "sync"
<1>1. lockq \in Seq(LockUsers)
  BY DEF TypeOK, LockUsers
<1>2. /\ lockq' = Append(lockq, c) /\ Len(lockq) \in Nat /\ Len(lockq) # 0
      /\ Head(lockq) = lockq[1]
  BY <1>1, HeadTailProperties, EmptySeq, LenProperties DEF Ask
<1>3. /\ lockq' \in Seq(LockUsers) /\ Len(lockq') = Len(lockq) + 1
      /\ lockq'[1] = lockq[1]
  BY <1>1, <1>2, AppendProperties
<1>4. lockq' # <<>>
  BY <1>1, <1>2, AppendProperties
<1> QED
  BY <1>2, <1>3, <1>4, HeadTailProperties

\* While the answer of the queue is awaited the synchroniser keeps the lock.
LEMMA SyncKeepsLock ==
    ASSUME TypeOK, [Next]_vars, spc = "updating", spc' = "updating",
           lockq # <<>>, Head(lockq) = "sync"
    PROVE  lockq' # <<>> /\ Head(lockq') = "sync"
<1> USE DEF Holds
<1>1. \/ lockq' = lockq \/ Ask("proc") \/ Ask("mon") \/ Ask("main")
      \/ Ask("sync")
  <2>1. CASE Feed \/ Processor
    BY <2>1 DEF Feed, Processor, ProcTop, ProcGet, ProcPause, ProcWhile,
       ProcCollect, ProcWaited, ProcIdle, ProcSubmit, ProcWoken
  <2>2. CASE Main \/ Monitor
    BY <2>2 DEF Main, MainEndMarker, MainAsk, MainStop, Monitor, MonitorAsk,
       MonitorCheck, MonitorLook, MonitorRecover
  <2>3. CASE Sync
    BY <2>3 DEF Sync, SyncAsk, Pause, PauseServers, PauseGathered,
       PauseReturns, WeightsSynced, UpdateRead, UpdateReturns, ResumeServers,
       Resume
  <2>4. CASE Trainer \/ \E s \in Samples : Task(s) \/ TaskRaises(s)
    BY <2>4 DEF Trainer, Collect, Train, StartSync, Close, Last, trainFrame,
       Task, TaskStart, TaskGenerated, TaskCancelled, TaskRaises, QueuePut,
       TaskEnds, taskFrame
  <2>5. CASE UNCHANGED vars
    BY <2>5 DEF vars
  <2> QED
    BY <2>1, <2>2, <2>3, <2>4, <2>5 DEF Next, Finished
<1> QED
  BY <1>1, LockKept DEF LockUsers

\* What changes the numbers the bound is about.
LEMMA Counts ==
    ASSUME TypeOK, [Next]_vars
    PROVE  /\ conf' = conf
           /\ \/ ~ProcGet /\ ~UpdateReturns /\ staleness' = staleness
              \/ ProcGet /\ staleness' = staleness + 1
              \/ ~ProcGet /\ UpdateReturns
           /\ ppc' = "get" => ~ProcGet /\ (ppc = "get" \/ ~ShouldPause)
           /\ spc' = "updating" => UpdateRead \/ (spc = "updating" /\ count' = count)
           /\ UpdateReturns => spc = "updating"
<1>1. CASE Feed
  BY <1>1 DEF Feed, roVars, procVars, syncVars, ProcGet, UpdateReturns, Holds
<1>2. CASE Processor
  BY <1>2 DEF Processor, ProcTop, ProcGet, Counted, ProcPause, ProcWhile,
     ProcCollect, ProcWaited, ProcIdle, ProcSubmit, ProcWoken, procFrame,
     syncVars, UpdateReturns
<1>3. CASE Main \/ Monitor
  BY <1>3 DEF Main, MainEndMarker, MainAsk, MainStop, Monitor, MonitorAsk,
     MonitorCheck, MonitorLook, MonitorRecover, NotifyAll, mainFrame, syncVars,
     ProcGet, UpdateReturns
<1>4. CASE Sync
  BY <1>4 DEF Sync, SyncAsk, Pause, AfterPause, PauseServers, PauseGathered,
     PauseReturns, WeightsSynced, UpdateRead, UpdateReturns, ResumeServers,
     Resume, NotifyAll, syncFrame, ProcGet
<1>5. CASE Trainer
  BY <1>5 DEF Trainer, Collect, Train, StartSync, Close, Last, trainFrame,
     roVars, procVars, syncVars, ProcGet, UpdateReturns
<1>6. ASSUME NEW s \in Samples, Task(s) \/ TaskRaises(s)
      PROVE  /\ conf' = conf /\ staleness' = staleness /\ ppc' = ppc
             /\ spc' = spc /\ count' = count /\ hand' = hand /\ turn' = turn
             /\ ~ProcGet /\ ~UpdateReturns
  BY <1>6 DEF TypeOK, Task, TaskStart, TaskGenerated, TaskCancelled, TaskRaises,
     QueuePut, TaskEnds, taskFrame, procVars, syncVars, ProcGet, UpdateReturns
<1>7. CASE UNCHANGED vars
  BY <1>7 DEF TypeOK, vars, roVars, procVars, syncVars, ProcGet, UpdateReturns
<1>8. CASE \E s \in Samples : Task(s) \/ TaskRaises(s)
  BY <1>6, <1>8
<1> QED
  BY <1>1, <1>2, <1>3, <1>4, <1>5, <1>7, <1>8 DEF Next, Finished

LEMMA FreshStep == TypeOK /\ FreshInv /\ [Next]_vars => FreshInv'
<1> SUFFICES ASSUME TypeOK, FreshInv, [Next]_vars PROVE FreshInv'
  OBVIOUS
<1> DEFINE N == Cardinality(InFlight)
           W == Cardinality(OnTheWay)
           L == Len(mq)
<1>1. /\ MaxRequired \in Nat /\ MaxRequired' = MaxRequired
      /\ staleness \in Nat /\ count \in Nat /\ L \in Nat
      /\ N \in Nat /\ W \in Nat
  BY ConfFacts, Counts, FlightSizes, SeqFacts DEF TypeOK, MaxRequired
<1>2. InFlight \subseteq Samples /\ IsFiniteSet(InFlight)
      /\ OnTheWay \subseteq Samples /\ IsFiniteSet(OnTheWay)
  BY InFlightSamples, SamplesFinite DEF OnTheWay
<1>3. ~ProcGet => /\ Cardinality(InFlight') \in Nat
                  /\ Cardinality(InFlight') <= N
  BY <1>2, FlightMoves, FS_Subset, FS_CardinalityType
<1>4. ProcGet => /\ Cardinality(InFlight') \in Nat
                 /\ Cardinality(InFlight') <= N + 1
  <2>1. SUFFICES ASSUME ProcGet
                 PROVE  /\ Cardinality(InFlight') \in Nat
                        /\ Cardinality(InFlight') <= N + 1
    OBVIOUS
  <2> DEFINE T == InFlight \union {Head(pending)}
  <2>2. IsFiniteSet(T) /\ Cardinality(T) \in Nat
    BY <1>2, FS_AddElement, FS_CardinalityType
  <2>3. Cardinality(T) <= N + 1
    <3>1. CASE Head(pending) \in InFlight
      <4>1. T = InFlight
        BY <3>1
      <4>2. Cardinality(T) = N
        BY <4>1
      <4> HIDE DEF T, N
      <4> QED
        BY <1>1, <4>2
    <3>2. CASE Head(pending) \notin InFlight
      <4>1. Cardinality(T) = N + 1
        BY <1>2, <3>2, FS_AddElement
      <4> QED
        BY <1>1, <4>1
    <3> QED
      BY <3>1, <3>2
  <2>4. InFlight' \subseteq T
    BY <2>1, FlightMoves
  <2>5. Cardinality(InFlight') \in Nat /\ Cardinality(InFlight') <= Cardinality(T)
    BY <2>2, <2>4, FS_Subset, FS_CardinalityType
  <2> HIDE DEF T, N
  <2> QED
    BY <1>1, <2>2, <2>3, <2>5
<1>5. /\ N <= MaxRequired + 1 /\ N <= staleness + 1
      /\ ppc = "get" => N <= MaxRequired
      /\ spc = "updating" => W <= count
  BY DEF FreshInv
<1>6. W <= ActiveTasks + Len(cancelq) /\ N <= W + L + 1
  BY FlightSizes
<1>7. UpdateReturns => spc = "updating" /\ staleness' = count + L
  BY Counts DEF UpdateReturns, Queued
<1>8. ~ShouldPause => N <= MaxRequired
  <2>1. ~ShouldPause => ~(staleness >= MaxRequired)
    BY DEF ShouldPause
  <2> HIDE DEF N
  <2> QED
    BY <1>1, <1>5, <2>1
<1>9. ProcGet => ppc = "get"
  BY DEF ProcGet, Counted
<1>10. /\ Cardinality(InFlight') <= MaxRequired' + 1
       /\ Cardinality(InFlight') <= staleness' + 1
  <2> DEFINE M == Cardinality(InFlight')
  <2>1. (~ProcGet => M \in Nat /\ M <= N) /\ (ProcGet => M \in Nat /\ M <= N + 1)
    BY <1>3, <1>4
  <2>2. \/ ~ProcGet /\ ~UpdateReturns /\ staleness' = staleness
        \/ ProcGet /\ staleness' = staleness + 1
        \/ ~ProcGet /\ UpdateReturns
    BY Counts
  <2> HIDE DEF M, N, W, L
  <2>3. M <= MaxRequired + 1
    BY <1>1, <1>5, <1>9, <2>1
  <2>4. M <= staleness' + 1
    BY <1>1, <1>5, <1>6, <1>7, <2>1, <2>2
  <2> QED
    BY <1>1, <2>3, <2>4 DEF M
<1>11. ppc' = "get" => Cardinality(InFlight') <= MaxRequired'
  <2> DEFINE M == Cardinality(InFlight')
  <2>1. ppc' = "get" => ~ProcGet /\ (ppc = "get" \/ ~ShouldPause)
    BY Counts
  <2>2. ~ProcGet => M \in Nat /\ M <= N
    BY <1>3
  <2> HIDE DEF M, N
  <2> QED
    BY <1>1, <1>5, <1>8, <2>1, <2>2 DEF M
<1>12. ASSUME spc' = "updating"
       PROVE  /\ lockq' # <<>> /\ Head(lockq') = "sync"
              /\ Cardinality(OnTheWay') <= count'
  <2>1. lockq # <<>> /\ Head(lockq) = "sync" /\ W <= count'
    <3>1. CASE UpdateRead
      BY <1>6, <3>1 DEF UpdateRead, Holds
    <3>2. CASE spc = "updating" /\ count' = count
      BY <1>5, <3>2 DEF FreshInv
    <3> QED
      BY <1>12, <3>1, <3>2, Counts
  <2>2. OnTheWay' \subseteq OnTheWay
    BY <2>1, FlightMoves DEF Holds
  <2>3. Cardinality(OnTheWay') <= W /\ Cardinality(OnTheWay') \in Nat
    BY <1>2, <2>2, FS_Subset, FS_CardinalityType
  <2>4. count' \in Nat
    BY StepType DEF TypeOK
  <2>5. Cardinality(OnTheWay') <= count'
    <3> HIDE DEF W
    <3> QED
      BY <1>1, <2>1, <2>3, <2>4
  <2>6. lockq' # <<>> /\ Head(lockq') = "sync"
    <3>1. CASE UpdateRead
      BY <2>1, <3>1 DEF UpdateRead
    <3>2. CASE spc = "updating"
      BY <1>12, <2>1, <3>2, SyncKeepsLock
    <3> QED
      BY <1>12, <3>1, <3>2, Counts
  <2> QED
    BY <2>5, <2>6
<1> QED
  BY <1>10, <1>11, <1>12 DEF FreshInv

(* Whatever the configuration, and wherever pauses, cancellations and the
   monitor loop fall: at most one sample more than the staleness budget is on
   its way between the processor and the trainer.                           *)
THEOREM Freshness == Spec => []FreshnessBound
<1>1. Init => FreshInv
  <2> SUFFICES ASSUME Init PROVE FreshInv
    OBVIOUS
  <2>1. InFlight = {}
    BY SizesAssumption, EmptySeq
       DEF Init, InFlight, Generating, InSeq, NOBODY, Samples
  <2>2. Cardinality(InFlight) = 0
    BY <2>1, FS_EmptySet
  <2>3. MaxRequired \in Nat /\ staleness = 0 /\ ppc = "top" /\ spc = "idle"
    BY ConfFacts DEF Init
  <2> QED
    BY <2>2, <2>3 DEF FreshInv
<1>2. TypeOK /\ FreshInv /\ [Next]_vars => FreshInv'
  BY FreshStep
<1>3. FreshInv => FreshnessBound
  BY DEF FreshInv, FreshnessBound
<1> QED
  BY <1>1, <1>2, <1>3, AsyncTypes, PTL DEF Spec
-----------------------------------------------------------------------------
(* Where a sample is.                                                      *)

Single(s) ==
    \E p \in PlaceNames : \A q \in PlaceNames : IsAt(s, q) <=> q = p

(* The processor's hands are empty where it takes a sample; the end marker is
   queued once, by the main coroutine; the feeder has handed on what it counts. *)
PlaceInv ==
    /\ NoRepeats(mq) /\ NoRepeats(cancelq) /\ NoRepeats(pending)
    /\ \A s \in Samples : Single(s)
    /\ mainpc = "run" => DONE \notin InSeq(mq)
    /\ \A x \in InSeq(pending) : x <= fed
    /\ DONE \in InSeq(pending) => fed = Total + 1
    /\ ppc \in {"top", "get", "pausing", "drain", "idle"} => hand = NOBODY

LEMMA SampleFacts ==
    /\ Total \in Nat \ {0}
    /\ \A s \in Samples : s \in Nat /\ s \in 0 .. Total /\ s # DONE /\ s # NOBODY
    /\ \A x \in 0 .. Total : x # DONE => x \in Samples
    /\ DONE \in 0 .. Total /\ DONE # NOBODY
  BY SizesAssumption DEF Samples, DONE, NOBODY

LEMMA TailOfSet ==
    ASSUME NEW S, NEW q \in Seq(S), q # <<>>, NoRepeats(q)
    PROVE  /\ NoRepeats(Tail(q)) /\ Tail(q) \in Seq(S)
           /\ InSeq(Tail(q)) = InSeq(q) \ {Head(q)}
           /\ Head(q) \in InSeq(q) /\ Head(q) \in S
<1>1. /\ Len(q) \in Nat /\ Len(q) >= 1 /\ DOMAIN q = 1 .. Len(q)
      /\ Head(q) = q[1] /\ Head(q) \in S
  BY LenProperties, EmptySeq, HeadTailProperties
<1>2. /\ Tail(q) \in Seq(S) /\ Len(Tail(q)) = Len(q) - 1
      /\ DOMAIN Tail(q) = 1 .. Len(q) - 1
      /\ \A i \in 1 .. Len(q) - 1 : Tail(q)[i] = q[i + 1]
  BY HeadTailProperties, LenProperties
<1>3. NoRepeats(Tail(q))
  <2>1. ASSUME NEW i \in 1 .. Len(q) - 1, NEW j \in 1 .. Len(q) - 1,
               Tail(q)[i] = Tail(q)[j]
        PROVE  i = j
    <3>1. q[i + 1] = q[j + 1] /\ i + 1 \in DOMAIN q /\ j + 1 \in DOMAIN q
      BY <1>1, <1>2, <2>1
    <3>2. i + 1 = j + 1
      BY <3>1 DEF NoRepeats
    <3> QED BY <3>2
  <2> QED BY <1>2, <2>1 DEF NoRepeats
<1>4. ASSUME NEW x \in InSeq(Tail(q)) PROVE x \in InSeq(q) /\ x # Head(q)
  <2>1. PICK i \in 1 .. Len(q) - 1 : x = Tail(q)[i]
    BY <1>2 DEF InSeq
  <2>2. x = q[i + 1] /\ i + 1 \in DOMAIN q /\ 1 \in DOMAIN q /\ i + 1 # 1
    BY <1>1, <1>2, <2>1
  <2>3. q[i + 1] # q[1]
    BY <2>2 DEF NoRepeats
  <2> QED BY <1>1, <2>2, <2>3 DEF InSeq
<1>5. ASSUME NEW x \in InSeq(q), x # Head(q) PROVE x \in InSeq(Tail(q))
  <2>1. PICK i \in 1 .. Len(q) : x = q[i]
    BY <1>1 DEF InSeq
  <2>2. i # 1
    BY <1>1, <1>5, <2>1
  <2>3. i - 1 \in 1 .. Len(q) - 1 /\ (i - 1) + 1 = i
    BY <1>1, <2>2
  <2>4. x = Tail(q)[i - 1]
    BY <1>2, <2>1, <2>3
  <2> QED BY <1>2, <2>3, <2>4 DEF InSeq
<1>6. Head(q) \in InSeq(q)
  BY <1>1 DEF InSeq
<1> QED BY <1>1, <1>2, <1>3, <1>4, <1>5, <1>6

LEMMA AppendToSet ==
    ASSUME NEW S, NEW q \in Seq(S), NEW x \in S, x \notin InSeq(q),
           NoRepeats(q)
    PROVE  NoRepeats(Append(q, x)) /\ InSeq(Append(q, x)) = InSeq(q) \union {x}
<1>1. /\ Len(q) \in Nat /\ DOMAIN q = 1 .. Len(q)
      /\ DOMAIN Append(q, x) = 1 .. Len(q) + 1
      /\ \A i \in 1 .. Len(q) : Append(q, x)[i] = q[i]
      /\ Append(q, x)[Len(q) + 1] = x
  BY AppendProperties, LenProperties
<1>2. ASSUME NEW i \in 1 .. Len(q) + 1, NEW j \in 1 .. Len(q) + 1,
             Append(q, x)[i] = Append(q, x)[j]
      PROVE  i = j
  <2>1. \A k \in 1 .. Len(q) : q[k] # x
    BY <1>1 DEF InSeq
  <2>2. CASE i = Len(q) + 1 \/ j = Len(q) + 1
    BY <1>1, <1>2, <2>1, <2>2
  <2>3. CASE i \in 1 .. Len(q) /\ j \in 1 .. Len(q)
    <3>1. q[i] = q[j] /\ i \in DOMAIN q /\ j \in DOMAIN q
      BY <1>1, <1>2, <2>3
    <3> QED BY <3>1 DEF NoRepeats
  <2> QED BY <1>1, <2>2, <2>3
<1>3. NoRepeats(Append(q, x))
  BY <1>1, <1>2 DEF NoRepeats
<1> QED BY <1>3, InSeqFacts

(* What the feeder puts: the items after n, each once.                     *)
LEMMA FillFacts ==
    ASSUME NEW n \in 0 .. Total, NEW room \in Nat,
           NEW m, m = FedAfter(n, room)
    PROVE  /\ m \in n .. Total + 1
           /\ NoRepeats(Fill(n, m))
           /\ \A x \in InSeq(Fill(n, m)) :
                 \/ x \in Samples /\ n < x /\ x <= m
                 \/ x = DONE /\ m = Total + 1
           /\ \A s \in Samples : n < s /\ s <= m => s \in InSeq(Fill(n, m))
           /\ DOMAIN Fill(n, m) = 1 .. m - n
           /\ Fill(n, m) \in Seq(0 .. Total)
<1>1. Total \in Nat /\ n \in Nat /\ n <= Total
  BY SampleFacts
<1>2. m \in n .. Total + 1 /\ Fill(n, m) \in Seq(0 .. Total)
  <2>1. m \in 0 .. Total + 1 /\ m >= n /\ Fill(n, m) \in Seq(0 .. Total)
    BY FillType
  <2> QED BY <1>1, <2>1
<1>3. Fill(n, m) = [i \in 1 .. m - n |-> IF n + i <= Total THEN n + i ELSE 0]
  BY DEF Fill, Item, DONE
<1>4. ASSUME NEW i \in 1 .. m - n
      PROVE  /\ n + i \in Nat /\ n < n + i /\ n + i <= m /\ m - n \in Nat
             /\ n + i > Total => n + i = Total + 1 /\ m = Total + 1
  BY <1>1, <1>2
<1>5. NoRepeats(Fill(n, m))
  <2>1. ASSUME NEW i \in 1 .. m - n, NEW j \in 1 .. m - n,
               Fill(n, m)[i] = Fill(n, m)[j]
        PROVE  i = j
    <3>1. (IF n + i <= Total THEN n + i ELSE 0)
             = (IF n + j <= Total THEN n + j ELSE 0)
      BY <1>3, <2>1
    <3> QED BY <3>1, <1>1, <1>2, <1>4
  <2> QED BY <1>3, <2>1 DEF NoRepeats
<1>6. ASSUME NEW x \in InSeq(Fill(n, m))
      PROVE  \/ x \in Samples /\ n < x /\ x <= m
             \/ x = DONE /\ m = Total + 1
  <2>1. PICK i \in 1 .. m - n : x = IF n + i <= Total THEN n + i ELSE 0
    BY <1>3 DEF InSeq
  <2> QED BY <1>1, <1>2, <1>4, <2>1 DEF DONE, Samples
<1>7. ASSUME NEW s \in Samples, n < s, s <= m
      PROVE  s \in InSeq(Fill(n, m))
  <2>1. s - n \in 1 .. m - n /\ n + (s - n) = s /\ s <= Total
    BY <1>1, <1>2, <1>7 DEF Samples
  <2>2. Fill(n, m)[s - n] = s
    BY <1>3, <2>1
  <2> QED BY <1>3, <2>1, <2>2 DEF InSeq
<1> QED BY <1>2, <1>3, <1>5, <1>6, <1>7

LEMMA ConcatOfSets ==
    ASSUME NEW S, NEW q \in Seq(S), NEW r \in Seq(S),
           NoRepeats(q), NoRepeats(r), InSeq(q) \intersect InSeq(r) = {}
    PROVE  NoRepeats(q \o r) /\ InSeq(q \o r) = InSeq(q) \union InSeq(r)
<1>1. /\ Len(q) \in Nat /\ DOMAIN q = 1 .. Len(q)
      /\ Len(r) \in Nat /\ DOMAIN r = 1 .. Len(r)
  BY LenProperties
<1>2. /\ DOMAIN (q \o r) = 1 .. Len(q) + Len(r)
      /\ \A i \in 1 .. Len(q) : (q \o r)[i] = q[i]
      /\ \A i \in 1 .. Len(r) : (q \o r)[Len(q) + i] = r[i]
  <2>1. /\ q \o r \in Seq(S) /\ Len(q \o r) = Len(q) + Len(r)
        /\ \A i \in 1 .. Len(q) + Len(r) :
              (q \o r)[i] = IF i <= Len(q) THEN q[i] ELSE r[i - Len(q)]
    BY ConcatProperties
  <2>2. DOMAIN (q \o r) = 1 .. Len(q) + Len(r)
    BY <2>1, LenProperties
  <2>3. ASSUME NEW i \in 1 .. Len(r) PROVE (q \o r)[Len(q) + i] = r[i]
    <3>1. /\ Len(q) + i \in 1 .. Len(q) + Len(r) /\ ~(Len(q) + i <= Len(q))
          /\ (Len(q) + i) - Len(q) = i
      BY <1>1
    <3> QED BY <2>1, <3>1
  <2>4. ASSUME NEW i \in 1 .. Len(q) PROVE (q \o r)[i] = q[i]
    BY <1>1, <2>1
  <2> QED BY <2>2, <2>3, <2>4
<1>3. \A i \in 1 .. Len(q) + Len(r) :
         i \in 1 .. Len(q) \/ \E j \in 1 .. Len(r) : i = Len(q) + j
  <2>1. ASSUME NEW i \in 1 .. Len(q) + Len(r), i \notin 1 .. Len(q)
        PROVE  i - Len(q) \in 1 .. Len(r) /\ i = Len(q) + (i - Len(q))
    BY <1>1, <2>1
  <2> QED BY <2>1
<1>4. NoRepeats(q \o r)
  <2>1. ASSUME NEW i \in 1 .. Len(q) + Len(r), NEW j \in 1 .. Len(q) + Len(r),
               (q \o r)[i] = (q \o r)[j]
        PROVE  i = j
    <3>1. CASE i \in 1 .. Len(q) /\ j \in 1 .. Len(q)
      BY <1>1, <1>2, <2>1, <3>1 DEF NoRepeats
    <3>2. \A a \in 1 .. Len(q), b \in 1 .. Len(r) : q[a] # r[b]
      BY <1>1 DEF InSeq
    <3>3. CASE \E a, b \in 1 .. Len(r) : i = Len(q) + a /\ j = Len(q) + b
      BY <1>1, <1>2, <2>1, <3>3 DEF NoRepeats
    <3>4. CASE i \in 1 .. Len(q) /\ \E b \in 1 .. Len(r) : j = Len(q) + b
      BY <1>2, <2>1, <3>2, <3>4
    <3>5. CASE j \in 1 .. Len(q) /\ \E a \in 1 .. Len(r) : i = Len(q) + a
      BY <1>2, <2>1, <3>2, <3>5
    <3> QED BY <1>3, <3>1, <3>3, <3>4, <3>5
  <2> QED BY <1>2, <2>1 DEF NoRepeats
<1>5. InSeq(q \o r) = InSeq(q) \union InSeq(r)
  <2>1. ASSUME NEW x \in InSeq(q \o r) PROVE x \in InSeq(q) \union InSeq(r)
    <3>1. PICK i \in 1 .. Len(q) + Len(r) : x = (q \o r)[i]
      BY <1>2 DEF InSeq
    <3>2. CASE i \in 1 .. Len(q)
      BY <1>1, <1>2, <3>1, <3>2 DEF InSeq
    <3>3. CASE \E j \in 1 .. Len(r) : i = Len(q) + j
      BY <1>1, <1>2, <3>1, <3>3 DEF InSeq
    <3> QED BY <1>3, <3>2, <3>3
  <2>2. ASSUME NEW x \in InSeq(q) PROVE x \in InSeq(q \o r)
    <3>1. PICK i \in 1 .. Len(q) : x = q[i]
      BY <1>1 DEF InSeq
    <3>2. i \in DOMAIN (q \o r)
      BY <1>1, <1>2
    <3> QED BY <1>2, <3>1, <3>2 DEF InSeq
  <2>3. ASSUME NEW x \in InSeq(r) PROVE x \in InSeq(q \o r)
    <3>1. PICK i \in 1 .. Len(r) : x = r[i]
      BY <1>1 DEF InSeq
    <3>2. Len(q) + i \in DOMAIN (q \o r)
      BY <1>1, <1>2
    <3> QED BY <1>2, <3>1, <3>2 DEF InSeq
  <2> QED BY <2>1, <2>2, <2>3
<1> QED BY <1>4, <1>5

LEMMA AtFacts ==
    ASSUME NEW s
    PROVE  /\ IsAt(s, "feed") <=> s > fed
           /\ IsAt(s, "pending") <=> s \in InSeq(pending)
           /\ IsAt(s, "hand") <=> s = hand
           /\ IsAt(s, "task") <=> s \in Generating
           /\ IsAt(s, "cancelled") <=> s \in InSeq(cancelq)
           /\ IsAt(s, "queue") <=> s \in InSeq(mq)
           /\ IsAt(s, "batch") <=> s \in batch
           /\ IsAt(s, "trained") <=> s \in trained
           /\ IsAt(s, "dropped") <=> s \in dropped
           /\ IsAt(s, "raised") <=> s \in raised
  BY DEF IsAt

LEMMA AtFactsNext ==
    ASSUME NEW s
    PROVE  /\ IsAt(s, "feed")' <=> s > fed'
           /\ IsAt(s, "pending")' <=> s \in InSeq(pending')
           /\ IsAt(s, "hand")' <=> s = hand'
           /\ IsAt(s, "task")' <=> s \in Generating'
           /\ IsAt(s, "cancelled")' <=> s \in InSeq(cancelq')
           /\ IsAt(s, "queue")' <=> s \in InSeq(mq')
           /\ IsAt(s, "batch")' <=> s \in batch'
           /\ IsAt(s, "trained")' <=> s \in trained'
           /\ IsAt(s, "dropped")' <=> s \in dropped'
           /\ IsAt(s, "raised")' <=> s \in raised'
  BY DEF IsAt, InSeq

(* A sample nothing happens to, and one that goes from one place to another. *)
LEMMA Stays ==
    ASSUME NEW s, Single(s), \A q \in PlaceNames : IsAt(s, q)' <=> IsAt(s, q)
    PROVE  Single(s)'
  BY DEF Single, PlaceNames

LEMMA Moves ==
    ASSUME NEW s, NEW a \in PlaceNames, NEW b \in PlaceNames, a # b,
           Single(s), IsAt(s, a), ~IsAt(s, a)', IsAt(s, b)',
           \A q \in PlaceNames \ {a, b} : IsAt(s, q)' <=> IsAt(s, q)
    PROVE  Single(s)'
<1>1. \A q \in PlaceNames : IsAt(s, q) <=> q = a
  BY DEF Single
<1>2. \A q \in PlaceNames : IsAt(s, q)' <=> q = b
  BY <1>1
<1>3. PlaceNames' = PlaceNames
  BY DEF PlaceNames
<1> QED BY <1>2, <1>3 DEF Single

LEMMA InOnly ==
    ASSUME NEW s, Single(s), NEW a \in PlaceNames, IsAt(s, a)
    PROVE  \A q \in PlaceNames : IsAt(s, q) => q = a
  BY DEF Single

Settled == <<trained, dropped, raised>>
Taken == <<batch, Settled>>

LEMMA HandEmpty ==
    ASSUME PlaceInv, TypeOK, [Next]_vars
    PROVE  ppc' \in {"top", "get", "pausing", "drain", "idle"} => hand' = NOBODY
<1> USE DEF PlaceInv
<1>1. CASE Processor
  <2>1. CASE ProcTop
    BY <2>1 DEF ProcTop
  <2>2. CASE ProcGet
    BY <2>2 DEF ProcGet
  <2>3. CASE ProcPause \/ ProcWhile \/ ProcCollect \/ ProcWaited \/ ProcIdle
    BY <2>3 DEF ProcPause, ProcWhile, ProcCollect, ProcWaited, ProcIdle
  <2>4. CASE ProcSubmit \/ ProcWoken
    BY <2>4 DEF ProcSubmit, ProcWoken
  <2> QED BY <1>1, <2>1, <2>2, <2>3, <2>4 DEF Processor
<1>2. CASE Feed \/ Main \/ Trainer
  BY <1>2 DEF Feed, Main, MainEndMarker, MainAsk, MainStop, mainFrame, Trainer,
     Collect, Train, StartSync, Close, Last, trainFrame, procVars
<1>3. CASE Monitor \/ Sync
  BY <1>3 DEF Monitor, MonitorAsk, MonitorCheck, MonitorLook, MonitorRecover,
     NotifyAll, mainFrame, Sync, SyncAsk, Pause, PauseServers, PauseGathered,
     PauseReturns, WeightsSynced, UpdateRead, UpdateReturns, ResumeServers,
     Resume, syncFrame
<1>4. ASSUME NEW s \in Samples, Task(s) \/ TaskRaises(s)
      PROVE  hand' = hand /\ ppc' = ppc
  BY <1>4 DEF Task, TaskStart, TaskGenerated, TaskCancelled, TaskRaises,
     QueuePut, TaskEnds, taskFrame, procVars
<1>5. CASE UNCHANGED vars
  BY <1>5 DEF vars, procVars
<1> QED BY <1>1, <1>2, <1>3, <1>4, <1>5 DEF Next, Finished

(* A step that moves no sample.                                            *)
LEMMA QuietStep ==
    ASSUME PlaceInv, TypeOK, [Next]_vars,
           UNCHANGED <<fed, pending, hand, cancelq, mq, Taken>>,
           Generating' = Generating, mainpc' = "run" => mainpc = "run"
    PROVE  PlaceInv'
<1>1. ASSUME NEW s \in Samples PROVE Single(s)'
  <2>1. Single(s)
    BY DEF PlaceInv
  <2>2. \A q \in PlaceNames : IsAt(s, q)' <=> IsAt(s, q)
    BY AtFacts, AtFactsNext DEF PlaceNames, Taken, Settled, InSeq
  <2> QED BY <2>1, <2>2, Stays
<1> QED BY <1>1, HandEmpty DEF PlaceInv, NoRepeats, InSeq

LEMMA FeedPlaces ==
    ASSUME PlaceInv, TypeOK, Feed PROVE PlaceInv'
<1> DEFINE room == PendingMax - Len(pending)
           new == Fill(fed, fed')
           S == 0 .. Total
<1>1. /\ fed \in 0 .. Total /\ room \in Nat /\ fed' = FedAfter(fed, room)
      /\ pending' = pending \o new /\ pending \in Seq(S)
      /\ UNCHANGED <<hand, cancelq, mq, Taken, mainpc>> /\ Generating' = Generating
  BY SizesAssumption, SeqFacts
     DEF TypeOK, Feed, procVars, taskVars, roVars, trainVars, Taken, Settled,
         Generating
<1>2. /\ fed' \in fed .. Total + 1 /\ NoRepeats(new) /\ new \in Seq(S)
      /\ \A x \in InSeq(new) : \/ x \in Samples /\ fed < x /\ x <= fed'
                               \/ x = DONE /\ fed' = Total + 1
      /\ \A s \in Samples : fed < s /\ s <= fed' => s \in InSeq(new)
  <2>1. fed \in 0 .. Total /\ room \in Nat /\ fed' = FedAfter(fed, room)
    BY <1>1
  <2> HIDE DEF room
  <2> QED BY <2>1, FillFacts
<1> HIDE DEF new, S
<1>3. InSeq(pending) \intersect InSeq(new) = {}
  <2>1. ASSUME NEW x \in InSeq(pending), x \in InSeq(new) PROVE FALSE
    <3>1. x <= fed /\ (x = DONE => fed = Total + 1)
      BY DEF PlaceInv
    <3>2. (x \in Samples /\ fed < x) \/ x = DONE
      BY <1>2, <2>1
    <3> QED BY <1>1, <3>1, <3>2, SampleFacts
  <2> QED BY <2>1
<1>4. NoRepeats(pending') /\ InSeq(pending') = InSeq(pending) \union InSeq(new)
  BY <1>1, <1>2, <1>3, ConcatOfSets DEF PlaceInv
<1>5. \A x \in InSeq(pending') : x <= fed'
  <2>1. ASSUME NEW x \in InSeq(pending) PROVE x <= fed'
    <3>1. x <= fed /\ InSeq(pending) \subseteq 0 .. Total
      BY <1>1, InSeqFacts DEF PlaceInv, S
    <3> QED BY <1>1, <1>2, <3>1, SampleFacts
  <2>2. ASSUME NEW x \in InSeq(new) PROVE x <= fed'
    BY <1>2, <2>2, SampleFacts DEF DONE
  <2> QED BY <1>4, <2>1, <2>2
<1>6. DONE \in InSeq(pending') => fed' = Total + 1
  <2>1. DONE \notin InSeq(pending)
    BY <1>1, SampleFacts DEF PlaceInv
  <2> QED BY <1>2, <1>4, <2>1, SampleFacts
<1>7. ASSUME NEW s \in Samples PROVE Single(s)'
  <2>1. /\ Single(s) /\ s \in Nat
        /\ fed \in Nat /\ fed' \in Nat /\ fed <= fed'
    BY <1>1, <1>2, SampleFacts DEF PlaceInv
  <2>2. \A q \in PlaceNames \ {"feed", "pending"} : IsAt(s, q)' <=> IsAt(s, q)
    BY <1>1, AtFacts, AtFactsNext DEF PlaceNames, Taken, Settled, InSeq
  <2>3. s \in InSeq(new) <=> (s > fed /\ ~(s > fed'))
    BY <1>2, <2>1, SampleFacts
  <2>4. CASE s > fed /\ ~(s > fed')
    <3>1. IsAt(s, "feed") /\ ~IsAt(s, "feed")' /\ IsAt(s, "pending")'
      BY <1>4, <2>3, <2>4, AtFacts, AtFactsNext
    <3>2. "feed" \in PlaceNames /\ "pending" \in PlaceNames
      BY DEF PlaceNames
    <3> QED BY <2>1, <2>2, <3>1, <3>2, Moves
  <2>5. CASE ~(s > fed /\ ~(s > fed'))
    <3>1. s > fed' <=> s > fed
      BY <2>1, <2>5
    <3>2. s \in InSeq(pending') <=> s \in InSeq(pending)
      BY <1>4, <2>3, <2>5
    <3>3. (IsAt(s, "feed")' <=> IsAt(s, "feed"))
          /\ (IsAt(s, "pending")' <=> IsAt(s, "pending"))
      BY <3>1, <3>2, AtFacts, AtFactsNext
    <3> QED BY <2>1, <2>2, <3>3, Stays
  <2> QED BY <2>4, <2>5
<1>8. ppc' \in {"top", "get", "pausing", "drain", "idle"} => hand' = NOBODY
  BY HandEmpty DEF Next
<1> QED BY <1>1, <1>4, <1>5, <1>6, <1>7, <1>8 DEF PlaceInv, NoRepeats, InSeq

(* A cancelled sample is taken up again.                                   *)
LEMMA TopPlaces ==
    ASSUME PlaceInv, TypeOK, ProcTop PROVE PlaceInv'
<1>1. /\ UNCHANGED <<fed, mq, Taken, mainpc, pending>> /\ Generating' = Generating
      /\ hand = NOBODY /\ cancelq \in Seq(Samples)
      /\ [Next]_vars
  BY DEF PlaceInv, TypeOK, ProcTop, procFrame, taskVars, trainVars, Taken,
         Settled, Generating, Next, Processor
<1>2. CASE hand' = hand /\ cancelq' = cancelq
  BY <1>1, <1>2, QuietStep
<1>3. CASE cancelq # <<>> /\ hand' = Head(cancelq) /\ cancelq' = Tail(cancelq)
  <2> DEFINE h == Head(cancelq)
  <2>1. /\ NoRepeats(cancelq') /\ InSeq(cancelq') = InSeq(cancelq) \ {h}
        /\ h \in InSeq(cancelq) /\ h \in Samples
    BY <1>1, <1>3, TailOfSet DEF PlaceInv
  <2> HIDE DEF h
  <2>2. ASSUME NEW s \in Samples PROVE Single(s)'
    <3>1. Single(s) /\ s # NOBODY
      BY SampleFacts DEF PlaceInv
    <3>2. \A q \in PlaceNames \ {"hand", "cancelled"} : IsAt(s, q)' <=> IsAt(s, q)
      BY <1>1, AtFacts, AtFactsNext DEF PlaceNames, Taken, Settled, InSeq
    <3>3. CASE s = h
      <4>1. IsAt(s, "cancelled") /\ ~IsAt(s, "cancelled")' /\ IsAt(s, "hand")'
        BY <1>3, <2>1, <3>3, AtFacts, AtFactsNext DEF h
      <4>2. "cancelled" \in PlaceNames /\ "hand" \in PlaceNames
        BY DEF PlaceNames
      <4> QED BY <3>1, <3>2, <4>1, <4>2, Moves
    <3>4. CASE s # h
      <4>1. (IsAt(s, "hand")' <=> IsAt(s, "hand"))
            /\ (IsAt(s, "cancelled")' <=> IsAt(s, "cancelled"))
        BY <1>1, <1>3, <2>1, <3>1, <3>4, AtFacts, AtFactsNext DEF h
      <4> QED BY <3>1, <3>2, <4>1, Stays
    <3> QED BY <3>3, <3>4
  <2> QED BY <1>1, <2>1, <2>2, HandEmpty DEF PlaceInv, NoRepeats, InSeq
<1> QED BY <1>2, <1>3 DEF ProcTop, CancelledTaken

(* The processor gets the next sample, or the end marker.                  *)
LEMMA GetPlaces ==
    ASSUME PlaceInv, TypeOK, ProcGet PROVE PlaceInv'
<1> DEFINE S == 0 .. Total
           h == Head(pending)
<1>1. /\ UNCHANGED <<fed, mq, Taken, mainpc, cancelq>> /\ Generating' = Generating
      /\ hand = NOBODY /\ pending \in Seq(S) /\ pending # <<>>
      /\ hand' = h /\ pending' = Tail(pending)
      /\ [Next]_vars
  BY DEF PlaceInv, TypeOK, ProcGet, procFrame, taskVars, trainVars, Taken,
         Settled, Generating, Next, Processor
<1> HIDE DEF S
<1>2. /\ NoRepeats(pending') /\ InSeq(pending') = InSeq(pending) \ {h}
      /\ h \in InSeq(pending)
  BY <1>1, TailOfSet DEF PlaceInv
<1> HIDE DEF h
<1>3. ASSUME NEW s \in Samples PROVE Single(s)'
  <2>1. Single(s) /\ s # NOBODY
    BY SampleFacts DEF PlaceInv
  <2>2. \A q \in PlaceNames \ {"hand", "pending"} : IsAt(s, q)' <=> IsAt(s, q)
    BY <1>1, AtFacts, AtFactsNext DEF PlaceNames, Taken, Settled, InSeq
  <2>3. CASE s = h
    <3>1. IsAt(s, "pending") /\ ~IsAt(s, "pending")' /\ IsAt(s, "hand")'
      BY <1>1, <1>2, <2>3, AtFacts, AtFactsNext
    <3>2. "pending" \in PlaceNames /\ "hand" \in PlaceNames
      BY DEF PlaceNames
    <3> QED BY <2>1, <2>2, <3>1, <3>2, Moves
  <2>4. CASE s # h
    <3>1. (IsAt(s, "hand")' <=> IsAt(s, "hand"))
          /\ (IsAt(s, "pending")' <=> IsAt(s, "pending"))
      BY <1>1, <1>2, <2>1, <2>4, AtFacts, AtFactsNext
    <3> QED BY <2>1, <2>2, <3>1, Stays
  <2> QED BY <2>3, <2>4
<1>4. \A x \in InSeq(pending') : x <= fed'
  BY <1>1, <1>2 DEF PlaceInv
<1>5. DONE \in InSeq(pending') => fed' = Total + 1
  BY <1>1, <1>2 DEF PlaceInv
<1> QED BY <1>1, <1>2, <1>3, <1>4, <1>5, HandEmpty DEF PlaceInv, NoRepeats, InSeq

(* The sample in hand becomes a task.                                      *)
LEMMA SubmitPlaces ==
    ASSUME PlaceInv, TypeOK, ProcSubmit PROVE PlaceInv'
<1>1. /\ UNCHANGED <<fed, mq, Taken, mainpc, cancelq, pending>>
      /\ [Next]_vars
  BY DEF ProcSubmit, procFrame, trainVars, Taken, Settled, Next, Processor
<1>2. CASE hand' = hand /\ task' = task
  BY <1>1, <1>2, QuietStep DEF Generating
<1>3. CASE hand' = NOBODY /\ task' = [task EXCEPT ![hand] = "created"]
  <2>1. ASSUME NEW s \in Samples PROVE Single(s)'
    <3>1. Single(s) /\ s # NOBODY
      BY SampleFacts DEF PlaceInv
    <3>2. \A q \in PlaceNames \ {"hand", "task"} : IsAt(s, q)' <=> IsAt(s, q)
      BY <1>1, AtFacts, AtFactsNext DEF PlaceNames, Taken, Settled, InSeq
    <3>3. CASE s = hand
      <4>1. s \in Generating'
        BY <1>3, <3>3 DEF Generating, TypeOK
      <4>2. IsAt(s, "hand") /\ ~IsAt(s, "hand")' /\ IsAt(s, "task")'
        BY <1>3, <3>1, <3>3, <4>1, AtFacts, AtFactsNext
      <4>3. "task" \in PlaceNames /\ "hand" \in PlaceNames
        BY DEF PlaceNames
      <4> QED BY <3>1, <3>2, <4>2, <4>3, Moves
    <3>4. CASE s # hand
      <4>1. s \in Generating' <=> s \in Generating
        BY <1>3, <3>4 DEF Generating, TypeOK
      <4>2. (IsAt(s, "hand")' <=> IsAt(s, "hand"))
            /\ (IsAt(s, "task")' <=> IsAt(s, "task"))
        BY <1>3, <3>1, <3>4, <4>1, AtFacts, AtFactsNext
      <4> QED BY <3>1, <3>2, <4>2, Stays
    <3> QED BY <3>3, <3>4
  <2> QED BY <1>1, <2>1, HandEmpty DEF PlaceInv, NoRepeats, InSeq
<1> QED BY <1>2, <1>3 DEF ProcSubmit

(* A put takes x into the queue, and at most its oldest entry out of it.   *)
LEMMA PutFacts ==
    ASSUME TypeOK, NoRepeats(mq), NEW x \in 0 .. Total, x \notin InSeq(mq),
           PutSample(x)
    PROVE  /\ NoRepeats(mq')
           /\ \E D \in SUBSET InSeq(mq) :
                 /\ InSeq(mq') = (InSeq(mq) \ D) \union {x}
                 /\ dropped' = dropped \union D
<1> DEFINE S == 0 .. Total
           kept == IF Full THEN Tail(mq) ELSE mq
           D == IF Full THEN {Head(mq)} ELSE {}
<1>1. MaxRequired \in Nat /\ MaxRequired >= 1
  BY ConfFacts DEF TypeOK
<1>2. mq \in Seq(S) /\ x \in S
  BY DEF TypeOK
<1>3. mq' = Append(kept, x) /\ dropped' = dropped \union D
  BY DEF PutSample
<1> HIDE DEF S
<1>4. Full => mq # <<>>
  BY <1>1, <1>2, SeqFacts DEF Full
<1>5. /\ kept \in Seq(S) /\ NoRepeats(kept) /\ InSeq(kept) = InSeq(mq) \ D
      /\ D \in SUBSET InSeq(mq)
  BY <1>2, <1>4, TailOfSet
<1> HIDE DEF kept, D
<1>6. NoRepeats(mq') /\ InSeq(mq') = InSeq(kept) \union {x}
  BY <1>2, <1>3, <1>5, AppendToSet
<1> QED BY <1>3, <1>5, <1>6

LEMMA MarkerPlaces ==
    ASSUME PlaceInv, TypeOK, MainEndMarker PROVE PlaceInv'
<1>1. /\ UNCHANGED <<fed, pending, hand, cancelq, batch, trained, raised>>
      /\ Generating' = Generating /\ mainpc = "run" /\ mainpc' = "marked"
      /\ PutSample(DONE) /\ [Next]_vars
  BY DEF MainEndMarker, PutEndMarker, mainFrame, taskVars, trainVars,
         Generating, Next, Main
<1>2. DONE \in 0 .. Total /\ DONE \notin InSeq(mq) /\ NoRepeats(mq)
  BY <1>1, SampleFacts DEF PlaceInv
<1>3. NoRepeats(mq')
  BY <1>1, <1>2, PutFacts
<1>4. PICK D \in SUBSET InSeq(mq) : /\ InSeq(mq') = (InSeq(mq) \ D) \union {DONE}
                                    /\ dropped' = dropped \union D
  BY <1>1, <1>2, PutFacts
<1>5. ASSUME NEW s \in Samples PROVE Single(s)'
  <2>1. Single(s) /\ s # DONE
    BY SampleFacts DEF PlaceInv
  <2>2. \A q \in PlaceNames \ {"queue", "dropped"} : IsAt(s, q)' <=> IsAt(s, q)
    BY <1>1, AtFacts, AtFactsNext DEF PlaceNames, InSeq
  <2>3. CASE s \in D
    <3>1. IsAt(s, "queue") /\ ~IsAt(s, "queue")' /\ IsAt(s, "dropped")'
      BY <1>4, <2>1, <2>3, AtFacts, AtFactsNext
    <3>2. "queue" \in PlaceNames /\ "dropped" \in PlaceNames
      BY DEF PlaceNames
    <3> QED BY <2>1, <2>2, <3>1, <3>2, Moves
  <2>4. CASE s \notin D
    <3>1. (IsAt(s, "queue")' <=> IsAt(s, "queue"))
          /\ (IsAt(s, "dropped")' <=> IsAt(s, "dropped"))
      BY <1>4, <2>1, <2>4, AtFacts, AtFactsNext
    <3> QED BY <2>1, <2>2, <3>1, Stays
  <2> QED BY <2>3, <2>4
<1> QED BY <1>1, <1>3, <1>5, HandEmpty DEF PlaceInv, NoRepeats, InSeq

(* A finished sample reaches the queue.                                    *)
LEMMA PutPlaces ==
    ASSUME PlaceInv, TypeOK, NEW m \in Samples, QueuePut(m) PROVE PlaceInv'
<1>1. /\ UNCHANGED <<fed, pending, hand, cancelq, batch, trained, raised, mainpc>>
      /\ m \in Generating /\ Generating' = Generating \ {m}
      /\ PutSample(m) /\ [Next]_vars
  BY DEF TypeOK, QueuePut, taskFrame, procVars, trainVars, Generating, Next, Task
<1>2. m \in 0 .. Total /\ m \notin InSeq(mq) /\ NoRepeats(mq)
  <2>1. IsAt(m, "task") /\ "task" \in PlaceNames /\ "queue" \in PlaceNames
    BY <1>1, AtFacts DEF PlaceNames
  <2>2. ~IsAt(m, "queue")
    BY <2>1, InOnly DEF PlaceInv
  <2> QED BY <2>2, AtFacts, SampleFacts DEF PlaceInv
<1>3. NoRepeats(mq')
  BY <1>1, <1>2, PutFacts
<1>4. PICK D \in SUBSET InSeq(mq) : /\ InSeq(mq') = (InSeq(mq) \ D) \union {m}
                                    /\ dropped' = dropped \union D
  BY <1>1, <1>2, PutFacts
<1>5. ASSUME NEW s \in Samples PROVE Single(s)'
  <2>1. Single(s) /\ {"task", "queue", "dropped"} \subseteq PlaceNames
    BY DEF PlaceInv, PlaceNames
  <2>2. \A q \in PlaceNames \ {"task", "queue", "dropped"} :
           IsAt(s, q)' <=> IsAt(s, q)
    BY <1>1, AtFacts, AtFactsNext DEF PlaceNames, InSeq
  <2>3. CASE s = m
    <3>1. /\ IsAt(s, "task") /\ ~IsAt(s, "task")' /\ IsAt(s, "queue")'
          /\ (IsAt(s, "dropped")' <=> IsAt(s, "dropped"))
      BY <1>1, <1>2, <1>4, <2>3, AtFacts, AtFactsNext
    <3> QED BY <2>1, <2>2, <3>1, Moves
  <2>4. CASE s \in D
    <3>1. /\ IsAt(s, "queue") /\ ~IsAt(s, "queue")' /\ IsAt(s, "dropped")'
          /\ (IsAt(s, "task")' <=> IsAt(s, "task"))
      BY <1>1, <1>2, <1>4, <2>4, AtFacts, AtFactsNext
    <3> QED BY <2>1, <2>2, <3>1, Moves
  <2>5. CASE s # m /\ s \notin D
    <3>1. /\ IsAt(s, "queue")' <=> IsAt(s, "queue")
          /\ IsAt(s, "dropped")' <=> IsAt(s, "dropped")
          /\ IsAt(s, "task")' <=> IsAt(s, "task")
      BY <1>1, <1>4, <2>5, AtFacts, AtFactsNext
    <3> QED BY <2>1, <2>2, <3>1, Stays
  <2> QED BY <2>3, <2>4, <2>5
<1>6. mainpc' = "run" => DONE \notin InSeq(mq')
  BY <1>1, <1>4, SampleFacts DEF PlaceInv
<1> QED BY <1>1, <1>3, <1>5, <1>6, HandEmpty DEF PlaceInv, NoRepeats, InSeq

(* A cancelled generation queues its sample again.                         *)
LEMMA CancelPlaces ==
    ASSUME PlaceInv, TypeOK, NEW m \in Samples, TaskCancelled(m)
    PROVE  PlaceInv'
<1>1. /\ UNCHANGED <<fed, pending, hand, mq, Taken, mainpc>>
      /\ m \in Generating /\ Generating' = Generating \ {m}
      /\ cancelq \in Seq(Samples) /\ cancelq' = Append(cancelq, m) /\ [Next]_vars
  BY DEF TypeOK, TaskCancelled, taskFrame, procVars, trainVars, Generating,
         Next, Task, Taken, Settled
<1>2. m \notin InSeq(cancelq)
  <2>1. IsAt(m, "task") /\ "task" \in PlaceNames /\ "cancelled" \in PlaceNames
    BY <1>1, AtFacts DEF PlaceNames
  <2>2. ~IsAt(m, "cancelled")
    BY <2>1, InOnly DEF PlaceInv
  <2> QED BY <2>2, AtFacts
<1>3. NoRepeats(cancelq') /\ InSeq(cancelq') = InSeq(cancelq) \union {m}
  BY <1>1, <1>2, AppendToSet DEF PlaceInv
<1>4. ASSUME NEW s \in Samples PROVE Single(s)'
  <2>1. Single(s) /\ {"task", "cancelled"} \subseteq PlaceNames
    BY DEF PlaceInv, PlaceNames
  <2>2. \A q \in PlaceNames \ {"task", "cancelled"} : IsAt(s, q)' <=> IsAt(s, q)
    BY <1>1, AtFacts, AtFactsNext DEF PlaceNames, Taken, Settled, InSeq
  <2>3. CASE s = m
    <3>1. IsAt(s, "task") /\ ~IsAt(s, "task")' /\ IsAt(s, "cancelled")'
      BY <1>1, <1>3, <2>3, AtFacts, AtFactsNext
    <3> QED BY <2>1, <2>2, <3>1, Moves
  <2>4. CASE s # m
    <3>1. (IsAt(s, "task")' <=> IsAt(s, "task"))
          /\ (IsAt(s, "cancelled")' <=> IsAt(s, "cancelled"))
      BY <1>1, <1>3, <2>4, AtFacts, AtFactsNext
    <3> QED BY <2>1, <2>2, <3>1, Stays
  <2> QED BY <2>3, <2>4
<1> QED BY <1>1, <1>3, <1>4, HandEmpty DEF PlaceInv, NoRepeats, InSeq

LEMMA RaisePlaces ==
    ASSUME PlaceInv, TypeOK, NEW m \in Samples, TaskRaises(m) PROVE PlaceInv'
<1>1. /\ UNCHANGED <<fed, pending, hand, mq, cancelq, batch, trained, dropped,
                     mainpc>>
      /\ m \in Generating /\ Generating' = Generating \ {m}
      /\ raised' = raised \union {m} /\ [Next]_vars
  BY DEF TypeOK, TaskRaises, taskFrame, procVars, trainVars, Generating, Next
<1>2. ASSUME NEW s \in Samples PROVE Single(s)'
  <2>1. Single(s) /\ {"task", "raised"} \subseteq PlaceNames
    BY DEF PlaceInv, PlaceNames
  <2>2. \A q \in PlaceNames \ {"task", "raised"} : IsAt(s, q)' <=> IsAt(s, q)
    BY <1>1, AtFacts, AtFactsNext DEF PlaceNames, InSeq
  <2>3. CASE s = m
    <3>1. IsAt(s, "task") /\ ~IsAt(s, "task")' /\ IsAt(s, "raised")'
      BY <1>1, <2>3, AtFacts, AtFactsNext
    <3> QED BY <2>1, <2>2, <3>1, Moves
  <2>4. CASE s # m
    <3>1. (IsAt(s, "task")' <=> IsAt(s, "task"))
          /\ (IsAt(s, "raised")' <=> IsAt(s, "raised"))
      BY <1>1, <2>4, AtFacts, AtFactsNext
    <3> QED BY <2>1, <2>2, <3>1, Stays
  <2> QED BY <2>3, <2>4
<1> QED BY <1>1, <1>2, HandEmpty DEF PlaceInv, NoRepeats, InSeq

(* The trainer takes the oldest entry of the queue.                        *)
LEMMA CollectPlaces ==
    ASSUME PlaceInv, TypeOK, Collect PROVE PlaceInv'
<1> DEFINE S == 0 .. Total
           h == Head(mq)
<1>1. /\ UNCHANGED <<fed, pending, hand, cancelq, Settled, mainpc>>
      /\ Generating' = Generating /\ mq \in Seq(S) /\ mq # <<>> /\ mq' = Tail(mq)
      /\ \/ h = DONE /\ batch' = batch
         \/ h # DONE /\ batch' = batch \union {h}
      /\ [Next]_vars
  BY DEF TypeOK, Collect, IsMarker, trainFrame, procVars, roVars, Generating,
         Settled, Next, Trainer
<1> HIDE DEF S
<1>2. /\ NoRepeats(mq') /\ InSeq(mq') = InSeq(mq) \ {h} /\ h \in InSeq(mq)
  BY <1>1, TailOfSet DEF PlaceInv
<1> HIDE DEF h
<1>3. ASSUME NEW s \in Samples PROVE Single(s)'
  <2>1. Single(s) /\ s # DONE /\ {"queue", "batch"} \subseteq PlaceNames
    BY SampleFacts DEF PlaceInv, PlaceNames
  <2>2. \A q \in PlaceNames \ {"queue", "batch"} : IsAt(s, q)' <=> IsAt(s, q)
    BY <1>1, AtFacts, AtFactsNext DEF PlaceNames, Settled, InSeq
  <2>3. CASE s = h
    <3>1. IsAt(s, "queue") /\ ~IsAt(s, "queue")' /\ IsAt(s, "batch")'
      BY <1>1, <1>2, <2>1, <2>3, AtFacts, AtFactsNext
    <3> QED BY <2>1, <2>2, <3>1, Moves
  <2>4. CASE s # h
    <3>1. (IsAt(s, "queue")' <=> IsAt(s, "queue"))
          /\ (IsAt(s, "batch")' <=> IsAt(s, "batch"))
      BY <1>1, <1>2, <2>4, AtFacts, AtFactsNext
    <3> QED BY <2>1, <2>2, <3>1, Stays
  <2> QED BY <2>3, <2>4
<1> QED BY <1>1, <1>2, <1>3, HandEmpty DEF PlaceInv, NoRepeats, InSeq

LEMMA TrainPlaces ==
    ASSUME PlaceInv, TypeOK, Train PROVE PlaceInv'
<1>1. /\ UNCHANGED <<fed, pending, hand, cancelq, mq, dropped, raised, mainpc>>
      /\ Generating' = Generating /\ batch' = {}
      /\ trained' = trained \union batch /\ [Next]_vars
  BY DEF Train, trainFrame, procVars, roVars, Generating, Next, Trainer
<1>2. ASSUME NEW s \in Samples PROVE Single(s)'
  <2>1. Single(s) /\ {"batch", "trained"} \subseteq PlaceNames
    BY DEF PlaceInv, PlaceNames
  <2>2. \A q \in PlaceNames \ {"batch", "trained"} : IsAt(s, q)' <=> IsAt(s, q)
    BY <1>1, AtFacts, AtFactsNext DEF PlaceNames, InSeq
  <2>3. CASE s \in batch
    <3>1. IsAt(s, "batch") /\ ~IsAt(s, "batch")' /\ IsAt(s, "trained")'
      BY <1>1, <2>3, AtFacts, AtFactsNext
    <3> QED BY <2>1, <2>2, <3>1, Moves
  <2>4. CASE s \notin batch
    <3>1. (IsAt(s, "batch")' <=> IsAt(s, "batch"))
          /\ (IsAt(s, "trained")' <=> IsAt(s, "trained"))
      BY <1>1, <2>4, AtFacts, AtFactsNext
    <3> QED BY <2>1, <2>2, <3>1, Stays
  <2> QED BY <2>3, <2>4
<1> QED BY <1>1, <1>2, HandEmpty DEF PlaceInv, NoRepeats, InSeq

LEMMA PlaceStep == PlaceInv /\ TypeOK /\ [Next]_vars => PlaceInv'
<1> SUFFICES ASSUME PlaceInv, TypeOK, [Next]_vars PROVE PlaceInv'
  OBVIOUS
<1> DEFINE Unmoved ==
      /\ UNCHANGED <<fed, pending, hand, cancelq, mq, Taken>>
      /\ Generating' = Generating /\ (mainpc' = "run" => mainpc = "run")
<1>1. CASE Processor
  <2>1. CASE ProcPause \/ ProcWhile \/ ProcCollect \/ ProcWaited \/ ProcIdle
             \/ ProcWoken
    <3>1. Unmoved
      BY <2>1 DEF ProcPause, ProcWhile, ProcCollect, ProcWaited, ProcIdle,
         ProcWoken, procFrame, taskVars, trainVars, Taken, Settled, Generating
    <3> QED BY <3>1, QuietStep
  <2> QED BY <1>1, <2>1, TopPlaces, GetPlaces, SubmitPlaces DEF Processor
<1>2. CASE MainAsk \/ MainStop \/ Monitor
  <2>1. Unmoved
    BY <1>2 DEF MainAsk, MainStop, Monitor, MonitorAsk, MonitorCheck, MonitorLook,
       MonitorRecover, mainFrame, taskVars, trainVars, Taken, Settled, Generating
  <2> QED BY <2>1, QuietStep
<1>3. CASE Sync
  <2>1. Unmoved
    BY <1>3 DEF Sync, SyncAsk, Pause, PauseServers, PauseGathered, PauseReturns,
       WeightsSynced, UpdateRead, UpdateReturns, ResumeServers, Resume, syncFrame,
       trainVars, Taken, Settled, Generating
  <2> QED BY <2>1, QuietStep
<1>4. CASE Trainer
  <2>1. CASE StartSync \/ Close \/ Last
    <3>1. Unmoved
      BY <2>1 DEF StartSync, Close, Last, trainFrame, procVars, roVars, Taken,
         Settled, Generating
    <3> QED BY <3>1, QuietStep
  <2> QED BY <1>4, <2>1, CollectPlaces, TrainPlaces DEF Trainer
<1>5. ASSUME NEW s \in Samples, Task(s) \/ TaskRaises(s) PROVE PlaceInv'
  <2>1. CASE TaskStart(s) \/ TaskGenerated(s) \/ TaskEnds(s)
    <3>1. Unmoved
      BY <2>1 DEF TypeOK, TaskStart, TaskGenerated, TaskEnds, taskFrame, procVars,
         trainVars, Taken, Settled, Generating
    <3> QED BY <3>1, QuietStep
  <2> QED BY <1>5, <2>1, CancelPlaces, RaisePlaces, PutPlaces DEF Task
<1>6. CASE UNCHANGED vars
  <2>1. Unmoved
    BY <1>6 DEF vars, procVars, taskVars, roVars, trainVars, Taken, Settled,
       Generating
  <2> QED BY <2>1, QuietStep
<1> QED
  BY <1>1, <1>2, <1>3, <1>4, <1>5, <1>6, FeedPlaces, MarkerPlaces
     DEF Next, Finished, Main

LEMMA PlaceInit == Init => PlaceInv
<1> SUFFICES ASSUME Init PROVE PlaceInv
  OBVIOUS
<1> DEFINE new == Fill(0, fed)
<1>1. /\ PendingMax \in Nat /\ fed = FedAfter(0, PendingMax) /\ pending = new
      /\ hand = NOBODY /\ cancelq = <<>> /\ mq = <<>>
      /\ batch = {} /\ trained = {} /\ dropped = {} /\ raised = {}
      /\ Generating = {}
  BY SizesAssumption DEF Init, Generating
<1>2. /\ fed \in 0 .. Total + 1 /\ NoRepeats(new)
      /\ \A x \in InSeq(new) : \/ x \in Samples /\ 0 < x /\ x <= fed
                               \/ x = DONE /\ fed = Total + 1
      /\ \A s \in Samples : 0 < s /\ s <= fed => s \in InSeq(new)
  <2>1. 0 \in 0 .. Total
    BY SampleFacts DEF DONE
  <2> QED BY <1>1, <2>1, FillFacts
<1> HIDE DEF new
<1>3. /\ InSeq(cancelq) = {} /\ InSeq(mq) = {}
      /\ NoRepeats(cancelq) /\ NoRepeats(mq)
  BY <1>1 DEF InSeq, NoRepeats
<1>4. ASSUME NEW s \in Samples PROVE Single(s)
  <2>1. s \in Nat /\ 0 < s /\ s # NOBODY
    BY SampleFacts DEF DONE
  <2>2. s \in InSeq(pending) <=> ~(s > fed)
    BY <1>1, <1>2, <2>1, SampleFacts
  <2>3. CASE s > fed
    <3>1. \A q \in PlaceNames : IsAt(s, q) <=> q = "feed"
      BY <1>1, <1>3, <2>1, <2>2, <2>3, AtFacts DEF PlaceNames
    <3> QED BY <3>1 DEF Single, PlaceNames
  <2>4. CASE ~(s > fed)
    <3>1. \A q \in PlaceNames : IsAt(s, q) <=> q = "pending"
      BY <1>1, <1>3, <2>1, <2>2, <2>4, AtFacts DEF PlaceNames
    <3> QED BY <3>1 DEF Single, PlaceNames
  <2> QED BY <2>3, <2>4
<1>5. \A x \in InSeq(pending) : x <= fed
  BY <1>1, <1>2, SampleFacts DEF DONE
<1>6. DONE \in InSeq(pending) => fed = Total + 1
  BY <1>1, <1>2, SampleFacts
<1> QED BY <1>1, <1>2, <1>3, <1>4, <1>5, <1>6 DEF PlaceInv

(* Pauses, cancellations, resubmissions, full queues and failed generations
   neither lose nor duplicate a sample.                                     *)
THEOREM NeverLostNorTwice == Spec => []SampleInOnePlace
<1>1. PlaceInv => SampleInOnePlace
  <2> SUFFICES ASSUME PlaceInv, NEW s \in Samples
               PROVE  Cardinality(Places(s)) = 1
    BY DEF PlaceInv, SampleInOnePlace
  <2>1. PICK p \in PlaceNames : \A q \in PlaceNames : IsAt(s, q) <=> q = p
    BY DEF PlaceInv, Single
  <2>2. Places(s) = {p}
    BY <2>1 DEF Places
  <2> QED BY <2>2, FS_Singleton
<1>2. Init => PlaceInv
  BY PlaceInit
<1>3. TypeOK /\ PlaceInv /\ [Next]_vars => PlaceInv'
  BY PlaceStep
<1> QED BY <1>1, <1>2, <1>3, AsyncTypes, PTL DEF Spec
-----------------------------------------------------------------------------
(* How many samples the full queue pushes out.                             *)

Lost == Cardinality(dropped \ {DONE})
Asked == {"callPause", "pause", "cancel", "gather", "kv", "weights"}
Announced == Asked \union {"callUpdate", "update"}

\* How often the staleness count was reset.
Resets == IF spc = "updating" THEN version - 1 ELSE version

VersionInv ==
    /\ synced = IF spc \in Announced THEN version + 1 ELSE version
    /\ tver = IF tpc = "wait" THEN synced + 1 ELSE synced
    /\ spc \in Asked => tpc = "syncing"
    /\ mainpc # "run" => ppc \in {"ended", "died"}

(* DropsBounded is not inductive.  A drop needs one sample more than the queue
   holds, hence a processor that took one while as many as the queue holds were
   on their way; after it, the staleness count covers all of them again, until
   it is reset.  So each reset pays for one drop, and the end marker for one. *)
DropInv ==
    /\ Lost <= Resets + 1
    /\ Lost >= Resets =>
          /\ Cardinality(InFlight) <= MaxRequired
          /\ mainpc = "run" =>
                /\ Cardinality(InFlight) <= staleness
                /\ ppc = "get" => staleness < MaxRequired
    /\ Lost > Resets =>
          /\ mainpc # "run"
          /\ DONE \in InSeq(mq) => Cardinality(InFlight) < MaxRequired

LEMMA VersionStep == TypeOK /\ VersionInv /\ [Next]_vars => VersionInv'
<1> SUFFICES ASSUME TypeOK, VersionInv, [Next]_vars PROVE VersionInv'
  OBVIOUS
<1> USE DEF VersionInv, Asked, Announced
<1>1. CASE Feed
  BY <1>1 DEF Feed, roVars, procVars, syncVars, trainVars
<1>2. CASE Processor
  <2>1. UNCHANGED <<spc, version, mainpc, synced, tver, tpc>>
        /\ ppc \notin {"ended", "died"}
    BY <1>2 DEF Processor, ProcTop, ProcGet, ProcPause, ProcWhile, ProcCollect,
       ProcWaited, ProcIdle, ProcSubmit, ProcWoken, procFrame, syncVars,
       trainVars
  <2> QED BY <2>1
<1>3. CASE Main \/ Monitor
  BY <1>3 DEF Main, MainEndMarker, MainAsk, MainStop, Monitor, MonitorAsk,
     MonitorCheck, MonitorLook, MonitorRecover, NotifyAll, mainFrame, syncVars,
     trainVars
<1>4. CASE Sync
  <2>1. CASE SyncAsk
    BY <2>1 DEF SyncAsk, syncFrame, trainVars
  <2>2. CASE Pause \/ PauseServers \/ PauseGathered \/ PauseReturns
    BY <2>2 DEF Pause, AfterPause, PauseServers, PauseGathered, PauseReturns,
       syncFrame, trainVars
  <2>3. CASE WeightsSynced
    BY <2>3 DEF WeightsSynced, syncFrame
  <2>4. CASE UpdateRead \/ UpdateReturns
    BY <2>4 DEF UpdateRead, UpdateReturns, syncFrame, trainVars
  <2>5. CASE ResumeServers \/ Resume
    BY <2>5 DEF ResumeServers, Resume, NotifyAll, syncFrame, trainVars
  <2> QED BY <1>4, <2>1, <2>2, <2>3, <2>4, <2>5 DEF Sync
<1>5. CASE Trainer
  BY <1>5 DEF TypeOK, Trainer, Collect, Train, StartSync, Close, Last,
     trainFrame, roVars, procVars
<1>6. ASSUME NEW s \in Samples, Task(s) \/ TaskRaises(s) PROVE VersionInv'
  BY <1>6 DEF Task, TaskStart, TaskGenerated, TaskCancelled, TaskRaises,
     QueuePut, TaskEnds, taskFrame, procVars, syncVars, trainVars
<1>7. CASE UNCHANGED vars
  BY <1>7 DEF vars, roVars, procVars, syncVars, trainVars
<1> QED
  BY <1>1, <1>2, <1>3, <1>4, <1>5, <1>6, <1>7 DEF Next, Finished

LEMMA ResetsStep ==
    ASSUME TypeOK, VersionInv, [Next]_vars
    PROVE  /\ Resets \in Int
           /\ UpdateReturns => Resets' = Resets + 1
           /\ ~UpdateReturns => Resets' = Resets
<1> USE DEF Resets
<1>1. version \in Nat /\ version' \in Nat /\ Resets \in Int
  BY StepType DEF TypeOK
<1>2. CASE Sync
  <2>1. CASE UpdateRead
    BY <1>1, <2>1 DEF UpdateRead, UpdateReturns, VersionInv, Announced
  <2>2. CASE UpdateReturns
    BY <1>1, <2>2 DEF UpdateReturns
  <2>3. CASE ~UpdateRead /\ ~UpdateReturns
    BY <1>1, <1>2, <2>3 DEF Sync, SyncAsk, Pause, AfterPause, PauseServers,
       PauseGathered, PauseReturns, WeightsSynced, ResumeServers, Resume
  <2> QED BY <2>1, <2>2, <2>3
<1>3. CASE ~Sync
  <2>1. (spc' = "updating" <=> spc = "updating") /\ version' = version
    <3>1. CASE Processor
      BY <3>1 DEF Processor, ProcTop, ProcGet, ProcPause, ProcWhile, ProcCollect,
         ProcWaited, ProcIdle, ProcSubmit, ProcWoken, procFrame, syncVars
    <3>2. CASE Feed \/ Main \/ Monitor
      BY <3>2 DEF Feed, Main, MainEndMarker, MainAsk, MainStop, Monitor,
         MonitorAsk, MonitorCheck, MonitorLook, MonitorRecover, mainFrame,
         syncVars, roVars
    <3>3. CASE Trainer
      BY <3>3 DEF Trainer, Collect, Train, StartSync, Close, Last, trainFrame,
         roVars
    <3>4. ASSUME NEW s \in Samples, Task(s) \/ TaskRaises(s)
          PROVE  spc' = spc /\ version' = version
      BY <3>4 DEF Task, TaskStart, TaskGenerated, TaskCancelled, TaskRaises,
         QueuePut, TaskEnds, taskFrame, syncVars
    <3>5. CASE UNCHANGED vars
      BY <3>5 DEF vars, roVars, syncVars
    <3> QED BY <1>3, <3>1, <3>2, <3>3, <3>4, <3>5 DEF Next, Finished
  <2> QED BY <1>1, <1>3, <2>1 DEF Sync
<1> QED BY <1>1, <1>2, <1>3

LEMMA DistinctSize ==
    ASSUME NEW S, NEW q \in Seq(S), NoRepeats(q)
    PROVE  IsFiniteSet(InSeq(q)) /\ Cardinality(InSeq(q)) = Len(q)
<1>1. Len(q) \in Nat /\ q \in [1 .. Len(q) -> S] /\ DOMAIN q = 1 .. Len(q)
  BY LenProperties
<1>2. q \in Bijection(1 .. Len(q), InSeq(q))
  <2>1. q \in Surjection(1 .. Len(q), InSeq(q))
    BY <1>1 DEF InSeq, Surjection
  <2>2. q \in [1 .. Len(q) -> InSeq(q)]
    BY <2>1 DEF Surjection
  <2>3. \A i, j \in 1 .. Len(q) : q[i] = q[j] => i = j
    BY <1>1 DEF NoRepeats
  <2>4. q \in Injection(1 .. Len(q), InSeq(q))
    BY <2>2, <2>3 DEF Injection, IsInjective
  <2> QED BY <2>1, <2>4 DEF Bijection
<1>3. Cardinality(InSeq(q)) = Len(q)
  BY <1>1, <1>2, FS_CountingElements DEF ExistsBijection
<1> QED BY <1>3, InSeqFacts

LEMMA LostNat ==
    ASSUME TypeOK
    PROVE  IsFiniteSet(dropped \ {DONE}) /\ Lost \in Nat
<1>1. dropped \ {DONE} \in SUBSET Samples
  BY SampleFacts DEF TypeOK
<1> QED BY <1>1, SamplesFinite DEF Lost

(* A step that pushes no sample out, takes none, and resets nothing.       *)
LEMMA DropQuiet ==
    ASSUME TypeOK, VersionInv, FreshInv, DropInv, [Next]_vars,
           ~ProcGet, ~UpdateReturns, mainpc' = "run" <=> mainpc = "run",
           dropped' \ {DONE} = dropped \ {DONE},
           DONE \in InSeq(mq') => DONE \in InSeq(mq)
    PROVE  DropInv'
<1> DEFINE I == Cardinality(InFlight)  J == Cardinality(InFlight')
<1>1. InFlight' \subseteq InFlight /\ InFlight \subseteq Samples
  BY FlightMoves, InFlightSamples
<1>2. I \in Nat /\ J \in Nat /\ J <= I
  <2>1. IsFiniteSet(InFlight)
    BY <1>1, SamplesFinite
  <2> QED BY <1>1, <2>1, FS_Subset, FS_CardinalityType
<1>3. Lost' = Lost /\ Lost \in Nat /\ Resets \in Int /\ Resets' = Resets
  BY LostNat, ResetsStep DEF Lost
<1>4. /\ MaxRequired \in Nat /\ MaxRequired' = MaxRequired
      /\ staleness \in Nat /\ staleness' = staleness
      /\ ppc' = "get" => ppc = "get" \/ staleness < MaxRequired
  BY Counts, ConfFacts DEF TypeOK, MaxRequired, ShouldPause
<1>5. DropInv' <=> /\ Lost' <= Resets' + 1
                   /\ Lost' >= Resets' =>
                        /\ J <= MaxRequired'
                        /\ mainpc' = "run" =>
                              /\ J <= staleness'
                              /\ ppc' = "get" => staleness' < MaxRequired'
                   /\ Lost' > Resets' =>
                        /\ mainpc' # "run"
                        /\ DONE \in InSeq(mq') => J < MaxRequired'
  BY DEF DropInv, InSeq
<1>6. /\ Lost <= Resets + 1
      /\ Lost >= Resets => /\ I <= MaxRequired
                           /\ mainpc = "run" =>
                                 /\ I <= staleness
                                 /\ ppc = "get" => staleness < MaxRequired
      /\ Lost > Resets => /\ mainpc # "run"
                          /\ DONE \in InSeq(mq) => I < MaxRequired
  BY DEF DropInv
<1> HIDE DEF I, J
<1> QED BY <1>2, <1>3, <1>4, <1>5, <1>6

LEMMA DropGet ==
    ASSUME TypeOK, VersionInv, FreshInv, DropInv, ProcGet
    PROVE  DropInv'
<1> DEFINE I == Cardinality(InFlight)  J == Cardinality(InFlight')
<1>1. /\ [Next]_vars /\ ppc = "get" /\ ppc' = "took"
      /\ UNCHANGED <<conf, dropped, mainpc, mq>>
      /\ staleness' = staleness + 1 /\ ~UpdateReturns
  BY DEF Next, Processor, ProcGet, procFrame, Counted, UpdateReturns, roVars,
         syncVars
<1>2. I \in Nat /\ J \in Nat /\ J <= I + 1
  <2>1. InFlight' \subseteq InFlight \union {Head(pending)}
        /\ InFlight \subseteq Samples
    BY <1>1, FlightMoves, InFlightSamples
  <2>2. IsFiniteSet(InFlight)
    BY <2>1, SamplesFinite
  <2> DEFINE T == InFlight \union {Head(pending)}
  <2>3. IsFiniteSet(T) /\ Cardinality(T) \in Nat /\ I \in Nat
        /\ (Cardinality(T) = I \/ Cardinality(T) = I + 1)
    BY <2>2, FS_AddElement, FS_CardinalityType
  <2>4. J \in Nat /\ J <= Cardinality(T)
    BY <2>1, <2>3, FS_Subset, FS_CardinalityType
  <2> HIDE DEF T, I, J
  <2> QED BY <2>3, <2>4
<1>3. /\ Lost' = Lost /\ Lost \in Nat /\ Resets \in Int /\ Resets' = Resets
      /\ MaxRequired \in Nat /\ MaxRequired' = MaxRequired /\ staleness \in Nat
      /\ mainpc = "run"
  BY <1>1, LostNat, ResetsStep, ConfFacts
     DEF Lost, MaxRequired, TypeOK, VersionInv
<1>4. /\ Lost <= Resets + 1
      /\ Lost >= Resets => I <= staleness /\ staleness < MaxRequired
      /\ ~(Lost > Resets)
  BY <1>1, <1>3 DEF DropInv
<1>5. /\ Lost' <= Resets' + 1
      /\ Lost' >= Resets' => J <= MaxRequired' /\ J <= staleness'
      /\ ~(Lost' > Resets')
  <2> HIDE DEF I, J
  <2> QED BY <1>1, <1>2, <1>3, <1>4
<1> QED BY <1>1, <1>5 DEF DropInv

LEMMA DropReset ==
    ASSUME TypeOK, VersionInv, FreshInv, DropInv, UpdateReturns
    PROVE  DropInv'
<1> DEFINE I == Cardinality(InFlight)  J == Cardinality(InFlight')
<1>1. /\ [Next]_vars /\ UNCHANGED <<conf, dropped, mainpc, mq, ppc>> /\ ~ProcGet
  BY DEF Next, Sync, UpdateReturns, syncFrame, ProcGet, procFrame, syncVars
<1>2. InFlight' \subseteq InFlight /\ InFlight \subseteq Samples
  BY <1>1, FlightMoves, InFlightSamples
<1>3. I \in Nat /\ J \in Nat /\ J <= I
  <2>1. IsFiniteSet(InFlight)
    BY <1>2, SamplesFinite
  <2> QED BY <1>2, <2>1, FS_Subset, FS_CardinalityType
<1>4. /\ Lost' = Lost /\ Lost \in Nat /\ Resets \in Int /\ Resets' = Resets + 1
      /\ MaxRequired \in Nat /\ MaxRequired' = MaxRequired
  BY <1>1, LostNat, ResetsStep, ConfFacts DEF Lost, MaxRequired, TypeOK
<1>5. /\ Lost <= Resets + 1
      /\ Lost >= Resets => I <= MaxRequired
      /\ Lost > Resets => mainpc # "run"
  BY DEF DropInv
<1>6. /\ Lost' <= Resets' + 1 /\ ~(Lost' > Resets')
      /\ Lost' >= Resets' => J <= MaxRequired' /\ mainpc' # "run"
  <2> HIDE DEF I, J
  <2> QED BY <1>1, <1>3, <1>4, <1>5
<1> QED BY <1>6 DEF DropInv

LEMMA DroppedNotInFlight ==
    ASSUME PlaceInv', NEW d \in Samples, d \in dropped' PROVE d \notin InFlight'
<1>1. Single(d)' /\ IsAt(d, "dropped")'
  BY AtFactsNext DEF PlaceInv
<1>2. \A q \in PlaceNames : IsAt(d, q)' => q = "dropped"
  BY <1>1 DEF Single, PlaceNames
<1>3. /\ ~IsAt(d, "task")' /\ ~IsAt(d, "cancelled")' /\ ~IsAt(d, "queue")'
      /\ ~IsAt(d, "hand")'
  BY <1>2 DEF PlaceNames
<1>4. d \notin Generating' /\ d \notin InSeq(cancelq') /\ d \notin InSeq(mq')
      /\ d # hand'
  BY <1>3, AtFactsNext
<1> QED BY <1>4 DEF InFlight, InSeq

(* What a put does when a sample is pushed out by it: the queue was full, of
   samples and perhaps the end marker, and the sample that arrives is one more. *)
LEMMA PutOutcome ==
    ASSUME TypeOK, PlaceInv, [Next]_vars, ~ProcGet, NEW x \in 0 .. Total,
           x \notin InSeq(mq), x = DONE \/ x \in Generating, PutSample(x)
    PROVE  \/ /\ dropped' \ {DONE} = dropped \ {DONE}
              /\ DONE \in InSeq(mq') => DONE \in InSeq(mq) \/ x = DONE
           \/ /\ Lost' <= Lost + 1
              /\ Cardinality(InFlight') <= Cardinality(InFlight) - 1
              /\ DONE \in InSeq(mq') => DONE \in InSeq(mq) \/ x = DONE
              /\ Cardinality(InFlight) >= MaxRequired
              /\ Cardinality(InFlight) = MaxRequired
                    => DONE \in InSeq(mq) \/ x = DONE
<1> DEFINE S == 0 .. Total
           Q == InSeq(mq)
           B == Q \union {x}
           d == Head(mq)
           I == Cardinality(InFlight)
<1>1. PlaceInv'
  BY PlaceStep
<1>2. /\ MaxRequired \in Nat /\ MaxRequired >= 1
      /\ mq \in Seq(S) /\ NoRepeats(mq) /\ dropped \subseteq S
      /\ dropped' = dropped \union (IF Full THEN {d} ELSE {})
  BY ConfFacts DEF TypeOK, PlaceInv, PutSample
<1>3. DONE \in InSeq(mq') => DONE \in Q \/ x = DONE
  <2>1. PICK D \in SUBSET InSeq(mq) : InSeq(mq') = (InSeq(mq) \ D) \union {x}
    BY <1>2, PutFacts
  <2> QED BY <2>1
<1>4. CASE ~Full \/ d = DONE
  BY <1>2, <1>3, <1>4
<1>5. CASE Full /\ d # DONE
  <2>1. Len(mq) \in Nat /\ Len(mq) >= MaxRequired
    BY <1>2, <1>5, LenProperties DEF Full
  <2>2. d \in Q /\ Q \subseteq S /\ d \in Samples
    <3> HIDE DEF S
    <3>1. mq # <<>>
      BY <1>2, <2>1, SeqFacts
    <3>2. d \in Q /\ Q \subseteq S
      BY <1>2, <3>1, InSeqFacts
    <3> QED BY <1>5, <3>2, SampleFacts DEF S
  <2>3. d \in dropped' /\ dropped' \ {DONE} = (dropped \ {DONE}) \union {d}
    BY <1>2, <1>5
  <2>4. d \in InFlight /\ d \notin InFlight'
    BY <1>1, <2>2, <2>3, DroppedNotInFlight DEF InFlight
  <2>5. InFlight' \subseteq InFlight \ {d}
    BY <2>4, FlightMoves
  <2>6. IsFiniteSet(InFlight) /\ I \in Nat
    BY InFlightSamples, SamplesFinite
  <2>7. Cardinality(InFlight') <= I - 1
    <3>1. IsFiniteSet(InFlight \ {d}) /\ Cardinality(InFlight \ {d}) = I - 1
      BY <2>4, <2>6, FS_RemoveElement
    <3>2. Cardinality(InFlight') <= Cardinality(InFlight \ {d})
      BY <2>5, <3>1, FS_Subset
    <3> QED BY <3>1, <3>2
  <2>8. Lost' <= Lost + 1
    <3>1. IsFiniteSet(dropped \ {DONE}) /\ Lost \in Nat
      BY LostNat
    <3>2. Cardinality((dropped \ {DONE}) \union {d})
             = IF d \in dropped \ {DONE} THEN Lost ELSE Lost + 1
      BY <3>1, FS_AddElement DEF Lost
    <3>3. Lost' = Cardinality((dropped \ {DONE}) \union {d})
      BY <2>3 DEF Lost
    <3> QED BY <3>1, <3>2, <3>3
  <2>9. IsFiniteSet(B) /\ Cardinality(B) = Len(mq) + 1
    <3> HIDE DEF S
    <3>1. IsFiniteSet(Q) /\ Cardinality(Q) = Len(mq)
      BY <1>2, DistinctSize
    <3> HIDE DEF Q
    <3> QED BY <3>1, FS_AddElement DEF Q
  <2>10. B \ {DONE} \subseteq InFlight
    BY <2>2, SampleFacts DEF InFlight
  <2>11. Cardinality(B \ {DONE}) = IF DONE \in B THEN Len(mq) ELSE Len(mq) + 1
    <3> HIDE DEF B
    <3>1. Cardinality(B \ {DONE})
            = IF DONE \in B THEN Cardinality(B) - 1 ELSE Cardinality(B)
      BY <2>9, FS_RemoveElement
    <3> QED BY <2>1, <2>9, <3>1
  <2>12. Cardinality(B \ {DONE}) <= I
    BY <2>6, <2>10, FS_Subset
  <2>13. I >= MaxRequired /\ (I = MaxRequired => DONE \in B)
    <3> HIDE DEF B, I
    <3> QED BY <1>2, <2>1, <2>6, <2>11, <2>12
  <2> QED BY <1>3, <2>7, <2>8, <2>13
<1> QED BY <1>4, <1>5

(* A finished sample is put, before or after the end marker.               *)
LEMMA DropPut ==
    ASSUME TypeOK, PlaceInv, VersionInv, FreshInv, DropInv,
           NEW m \in Samples, QueuePut(m)
    PROVE  DropInv'
<1> DEFINE I == Cardinality(InFlight)  J == Cardinality(InFlight')
<1>1. /\ [Next]_vars /\ ~ProcGet /\ ~UpdateReturns /\ m \in Generating
      /\ PutSample(m) /\ UNCHANGED <<conf, mainpc, ppc, staleness>>
  BY DEF TypeOK, Next, Task, QueuePut, taskFrame, procVars, syncVars,
         UpdateReturns, ProcGet, Generating
<1>2. m \in 0 .. Total /\ m # DONE /\ m \notin InSeq(mq)
  <2>1. IsAt(m, "task") /\ "task" \in PlaceNames /\ "queue" \in PlaceNames
    BY <1>1, AtFacts DEF PlaceNames
  <2>2. ~IsAt(m, "queue")
    BY <2>1, InOnly DEF PlaceInv
  <2> QED BY <2>2, AtFacts, SampleFacts
<1>3. CASE /\ dropped' \ {DONE} = dropped \ {DONE}
           /\ DONE \in InSeq(mq') => DONE \in InSeq(mq)
  BY <1>1, <1>3, DropQuiet
<1>4. CASE /\ Lost' <= Lost + 1 /\ J <= I - 1
           /\ DONE \in InSeq(mq') => DONE \in InSeq(mq)
           /\ I >= MaxRequired /\ (I = MaxRequired => DONE \in InSeq(mq))
  <2>1. /\ I \in Nat /\ J \in Nat /\ Lost \in Nat /\ Lost' \in Nat
        /\ Resets \in Int /\ Resets' = Resets
        /\ MaxRequired \in Nat /\ MaxRequired' = MaxRequired
        /\ staleness \in Nat
    <3>1. TypeOK'
      BY <1>1, StepType
    <3>2. J \in Nat /\ Lost' \in Nat
      <4>1. InFlight' \subseteq InFlight /\ InFlight \subseteq Samples
        BY <1>1, FlightMoves, InFlightSamples
      <4>2. IsFiniteSet(dropped' \ {DONE})
        <5>1. dropped' \ {DONE} \in SUBSET Samples
          BY <3>1, SampleFacts DEF TypeOK
        <5> QED BY <5>1, SamplesFinite
      <4>3. IsFiniteSet(InFlight')
        BY <4>1, SamplesFinite
      <4> QED BY <4>2, <4>3, FS_CardinalityType DEF Lost
    <3> QED BY <1>1, <3>2, FlightSizes, LostNat, ResetsStep, ConfFacts
            DEF TypeOK, MaxRequired
  <2>2. /\ I <= MaxRequired + 1 /\ I <= staleness + 1
        /\ ppc = "get" => I <= MaxRequired
    BY DEF FreshInv
  <2>3. /\ Lost >= Resets => I <= MaxRequired
        /\ Lost > Resets => /\ mainpc # "run"
                            /\ DONE \in InSeq(mq) => I < MaxRequired
    BY DEF DropInv
  <2>4. mainpc = "run" => DONE \notin InSeq(mq)
    BY DEF PlaceInv
  <2>5. ~(Lost > Resets)
    <3> HIDE DEF I, J
    <3> QED BY <1>4, <2>1, <2>3
  <2>6. mainpc = "run" => Lost < Resets /\ ppc # "get"
    <3> HIDE DEF I, J
    <3> QED BY <1>4, <2>1, <2>2, <2>3, <2>4
  <2>7. /\ Lost' <= Resets' + 1
        /\ J <= MaxRequired' /\ J <= staleness
        /\ Lost' > Resets' => J < MaxRequired' /\ mainpc # "run"
    <3> HIDE DEF I, J
    <3> QED BY <1>4, <2>1, <2>2, <2>3, <2>5, <2>6
  <2> QED BY <1>1, <2>6, <2>7 DEF DropInv
<1> QED BY <1>1, <1>2, <1>3, <1>4, PutOutcome

(* The end marker is put.                                                  *)
LEMMA DropMarker ==
    ASSUME TypeOK, PlaceInv, VersionInv, FreshInv, DropInv, MainEndMarker
    PROVE  DropInv'
<1> DEFINE I == Cardinality(InFlight)  J == Cardinality(InFlight')
<1>1. /\ [Next]_vars /\ ~ProcGet /\ ~UpdateReturns
      /\ mainpc = "run" /\ mainpc' = "marked" /\ PutSample(DONE)
      /\ UNCHANGED <<conf, staleness>>
  BY DEF Next, Main, MainEndMarker, PutEndMarker, mainFrame, syncVars,
         UpdateReturns, ProcGet
<1>2. DONE \in 0 .. Total /\ DONE \notin InSeq(mq)
  BY <1>1, SampleFacts DEF PlaceInv
<1>3. /\ I \in Nat /\ J \in Nat /\ J <= I /\ Lost \in Nat /\ Lost' \in Nat
      /\ Resets \in Int /\ Resets' = Resets
      /\ MaxRequired \in Nat /\ MaxRequired' = MaxRequired
  <2>1. InFlight' \subseteq InFlight /\ InFlight \subseteq Samples
    BY <1>1, FlightMoves, InFlightSamples
  <2>2. IsFiniteSet(InFlight)
    BY <2>1, SamplesFinite
  <2>3. I \in Nat /\ J \in Nat /\ J <= I
    BY <2>1, <2>2, FS_Subset, FS_CardinalityType
  <2>4. dropped' \ {DONE} \in SUBSET Samples
    BY <1>1, StepType, SampleFacts DEF TypeOK
  <2>5. Lost' \in Nat
    BY <2>4, SamplesFinite DEF Lost
  <2> QED BY <1>1, <2>3, <2>5, LostNat, ResetsStep, ConfFacts
          DEF TypeOK, MaxRequired
<1>4. /\ I <= MaxRequired + 1
      /\ Lost >= Resets => I <= MaxRequired
      /\ ~(Lost > Resets)
  BY <1>1 DEF FreshInv, DropInv
<1>5. \/ Lost' = Lost
      \/ Lost' <= Lost + 1 /\ J <= I - 1
  BY <1>1, <1>2, PutOutcome DEF Lost
<1>6. /\ Lost' <= Resets' + 1
      /\ Lost' >= Resets' => J <= MaxRequired'
      /\ Lost' > Resets' => J < MaxRequired'
  <2> HIDE DEF I, J
  <2> QED BY <1>3, <1>4, <1>5
<1> QED BY <1>1, <1>6 DEF DropInv

LEMMA DropStep ==
    ASSUME TypeOK, PlaceInv, VersionInv, FreshInv, DropInv, [Next]_vars
    PROVE  DropInv'
<1>1. CASE ProcGet \/ UpdateReturns \/ MainEndMarker
  BY <1>1, DropGet, DropReset, DropMarker
<1>2. CASE ~ProcGet /\ ~UpdateReturns /\ ~MainEndMarker
  <2>1. CASE \E s \in Samples : QueuePut(s)
    BY <2>1, DropPut
  <2>2. CASE Collect
    <3>1. InSeq(mq') \subseteq InSeq(mq) /\ mainpc' = mainpc /\ dropped' = dropped
      BY <2>2, CollectMoves DEF Collect, trainFrame
    <3> QED BY <1>2, <3>1, DropQuiet
  <2>3. CASE ~Collect /\ ~\E s \in Samples : QueuePut(s)
    <3> DEFINE Kept == /\ mainpc' = "run" <=> mainpc = "run"
                       /\ dropped' = dropped /\ mq' = mq
    <3> SUFFICES Kept
      BY <1>2, DropQuiet DEF InSeq
    <3>1. CASE Feed \/ Monitor
      BY <3>1 DEF Feed, Monitor, MonitorAsk, MonitorCheck, MonitorLook,
         MonitorRecover, mainFrame
    <3>2. CASE Processor
      BY <3>2 DEF Processor, ProcTop, ProcGet, ProcPause, ProcWhile, ProcCollect,
         ProcWaited, ProcIdle, ProcSubmit, ProcWoken, procFrame
    <3>3. CASE MainAsk \/ MainStop
      BY <3>3 DEF MainAsk, MainStop
    <3>4. CASE Sync
      BY <3>4 DEF Sync, SyncAsk, Pause, PauseServers, PauseGathered, PauseReturns,
         WeightsSynced, UpdateRead, UpdateReturns, ResumeServers, Resume, syncFrame
    <3>5. CASE Train \/ StartSync \/ Close \/ Last
      BY <3>5 DEF Train, StartSync, Close, Last, trainFrame
    <3>6. ASSUME NEW s \in Samples, Task(s) \/ TaskRaises(s), ~QueuePut(s)
          PROVE  Kept
      BY <3>6 DEF Task, TaskStart, TaskGenerated, TaskCancelled, TaskRaises,
         TaskEnds, taskFrame
    <3>7. CASE UNCHANGED vars
      BY <3>7 DEF vars
    <3> QED
      BY <1>2, <2>3, <3>1, <3>2, <3>3, <3>4, <3>5, <3>6, <3>7
         DEF Next, Main, Trainer, Finished
  <2> QED BY <2>1, <2>2, <2>3
<1> QED BY <1>1, <1>2

(* The queue pushes out at most one finished sample for every synchronisation,
   and one for the end marker, whatever the sizes and the threshold are.    *)
THEOREM Drops == Spec => []DropsBounded
<1>1. Init => VersionInv /\ DropInv /\ FreshInv
  <2> SUFFICES ASSUME Init PROVE VersionInv /\ DropInv /\ FreshInv
    OBVIOUS
  <2>1. InFlight = {} /\ dropped \ {DONE} = {}
    BY SizesAssumption, EmptySeq
       DEF Init, InFlight, Generating, InSeq, NOBODY, Samples
  <2>2. Cardinality(InFlight) = 0 /\ Lost = 0
    BY <2>1, FS_EmptySet DEF Lost
  <2>3. MaxRequired \in Nat /\ staleness = 0 /\ version = 0 /\ synced = 0
        /\ tver = 0 /\ ppc = "top" /\ spc = "idle" /\ tpc = "collect"
        /\ mainpc = "run"
    BY ConfFacts DEF Init
  <2>4. Resets = 0
    BY <2>3 DEF Resets
  <2>5. VersionInv
    BY <2>3 DEF VersionInv, Announced, Asked
  <2> QED BY <2>2, <2>3, <2>4, <2>5 DEF FreshInv, DropInv
<1>2. TypeOK /\ VersionInv /\ DropInv => DropsBounded
  <2> SUFFICES ASSUME TypeOK, VersionInv, DropInv PROVE DropsBounded
    OBVIOUS
  <2>1. Lost \in Nat /\ version \in Nat
    BY LostNat DEF TypeOK
  <2>2. Lost <= Resets + 1 /\ (Lost > Resets => mainpc # "run")
    BY DEF DropInv
  <2>3. Resets \in Int /\ Resets <= version
    BY <2>1 DEF Resets
  <2>4. Lost <= version + (IF mainpc = "run" THEN 0 ELSE 1)
    BY <2>1, <2>2, <2>3
  <2> QED BY <2>4 DEF DropsBounded, Lost
<1>3. /\ TypeOK /\ VersionInv /\ [Next]_vars => VersionInv'
      /\ TypeOK /\ FreshInv /\ [Next]_vars => FreshInv'
      /\ TypeOK /\ PlaceInv /\ [Next]_vars => PlaceInv'
      /\ TypeOK /\ PlaceInv /\ VersionInv /\ FreshInv /\ DropInv /\ [Next]_vars
            => DropInv'
  BY VersionStep, FreshStep, PlaceStep, DropStep
<1> QED BY <1>1, <1>2, <1>3, PlaceInit, AsyncTypes, PTL DEF Spec
-----------------------------------------------------------------------------
(* How many versions a trained sample is behind.                           *)

PerSync == conf.required * conf.trigger
Queueful == (MaxRequired - 1) \div PerSync
Delay == IF conf.partial THEN 1 ELSE 2

\* The samples of the batches trained so far, and of the one that is collected.
Consumed == tver * PerSync + (local - 1) * conf.required + Cardinality(batch)

(* Where the trainer stands in the round of batches between two
   synchronisations; after the end marker it trains no more.                *)
RoundInv ==
    /\ tpc \in {"closing", "last", "done"} => closing
    /\ closing => tpc \notin {"collect", "train"}
    /\ ~closing =>
          /\ local \in 1 .. conf.trigger
          /\ Cardinality(batch) <= conf.required
          /\ tpc = "collect" => Cardinality(batch) < conf.required
          /\ tpc = "train" => Cardinality(batch) = conf.required
          /\ tpc \in {"wait", "syncing"} => local = 1 /\ batch = {}

(* A finished sample that is not yet queued was stamped with the version of
   now, or, without partial rollout, with the one before, unless a
   synchronisation has just gathered all tasks.                             *)
StampInv ==
    \A s \in Samples : task[s] = "put" =>
        /\ done[s] + Delay >= version + 1
        /\ spc \in {"kv", "weights", "callUpdate", "update"} =>
              ~conf.partial /\ done[s] >= version

\* By when a sample of version v is consumed.
Due(v) == (v + Delay + 1 + Queueful) * PerSync

(* A queued sample is consumed, in the order of the queue, when it is due.  *)
QueueInv ==
    /\ Len(mq) <= MaxRequired
    /\ ~closing =>
        /\ \A i \in DOMAIN mq : mq[i] # DONE => Consumed + i <= Due(done[mq[i]])
        /\ \A s \in batch : tver <= done[s] + Delay + Queueful

\* Finished and not yet trained.
Ripe == {s \in Samples : task[s] = "put" \/ s \in InSeq(mq) \/ s \in batch}

(* Without a staleness threshold as many samples are started for a version as
   are trained in it: none is finished before its version is the trainer's.  *)
ExactInv ==
    ~closing /\ MaxRequired = PerSync =>
        /\ Consumed + Cardinality(InFlight) <= Resets * MaxRequired + staleness
        /\ Consumed + Cardinality(InFlight) + (IF ppc = "get" THEN 1 ELSE 0)
              <= (Resets + 1) * MaxRequired
        /\ \A s \in Ripe : done[s] >= tver

LEMMA Products ==
    ASSUME NEW a \in Nat, NEW b \in Nat, NEW p \in Nat
    PROVE  /\ a * p \in Nat /\ (a + 1) * p = a * p + p
           /\ a <= b => a * p <= b * p
           /\ a * p < b * p => a < b
<1>1. \A d \in Nat : d * p \in Nat /\ (a + d) * p = a * p + d * p /\ (b + d) * p = b * p + d * p
  OBVIOUS
<1>2. a <= b => a * p <= b * p
  <2> SUFFICES ASSUME a <= b PROVE a * p <= b * p
    OBVIOUS
  <2>1. PICK d \in Nat : b = a + d
    <3>1. b - a \in Nat /\ b = a + (b - a)
      OBVIOUS
    <3> QED BY <3>1
  <2>2. b * p = a * p + d * p /\ d * p \in Nat /\ a * p \in Nat
    BY <1>1, <2>1
  <2> QED BY <2>2
<1>3. b <= a => b * p <= a * p
  <2> SUFFICES ASSUME b <= a PROVE b * p <= a * p
    OBVIOUS
  <2>1. PICK d \in Nat : a = b + d
    <3>1. a - b \in Nat /\ a = b + (a - b)
      OBVIOUS
    <3> QED BY <3>1
  <2>2. a * p = b * p + d * p /\ d * p \in Nat /\ b * p \in Nat
    BY <1>1, <2>1
  <2> QED BY <2>2
<1>4. a * p \in Nat /\ b * p \in Nat
  OBVIOUS
<1>5. a * p < b * p => a < b
  BY <1>3, <1>4
<1>6. (a + 1) * p = a * p + p
  OBVIOUS
<1> QED BY <1>2, <1>4, <1>5, <1>6

LEMMA SizeFacts ==
    ASSUME TypeOK
    PROVE  /\ PerSync \in Nat \ {0} /\ MaxRequired \in Nat /\ PerSync <= MaxRequired
           /\ Queueful \in Nat /\ MaxRequired <= (Queueful + 1) * PerSync
           /\ conf.required \in Nat \ {0} /\ conf.trigger \in Nat \ {0}
           /\ conf.partial \in BOOLEAN /\ Delay \in {1, 2}
           /\ (conf.partial <=> Delay = 1)
<1>1. /\ conf.required \in Nat \ {0} /\ conf.trigger \in Nat \ {0}
      /\ conf.partial \in BOOLEAN /\ MaxRequired \in Nat
  BY ConfFacts DEF TypeOK
<1>2. PerSync <= MaxRequired
  BY SizesAssumption DEF TypeOK, PerSync, MaxRequired
<1>3. PerSync \in Nat \ {0}
  <2>1. \A r, u \in Nat \ {0} : r * u \in Nat \ {0}
    OBVIOUS
  <2> QED BY <1>1, <2>1 DEF PerSync
<1>4. \A m \in Nat, p \in Nat \ {0} :
        p <= m => (m - 1) \div p \in Nat /\ m <= ((m - 1) \div p + 1) * p
  <2> SUFFICES ASSUME NEW m \in Nat, NEW p \in Nat \ {0}, p <= m
               PROVE  (m - 1) \div p \in Nat /\ m <= ((m - 1) \div p + 1) * p
    OBVIOUS
  <2>1. PICK n \in Nat : n = m - 1
    OBVIOUS
  <2>2. n \div p \in Nat /\ n < p * (n \div p) + p
    OBVIOUS
  <2>3. PICK q \in Nat : q = n \div p /\ n < p * q + p
    BY <2>2
  <2>4. (q + 1) * p = p * q + p /\ p * q \in Nat
    OBVIOUS
  <2> QED BY <2>1, <2>3, <2>4
<1>5. Queueful \in Nat /\ MaxRequired <= (Queueful + 1) * PerSync
  BY <1>1, <1>2, <1>3, <1>4 DEF Queueful
<1> QED BY <1>1, <1>2, <1>3, <1>5 DEF Delay

\* A sample of the batch is not queued, and neither is being generated.
LEMMA Apart ==
    ASSUME PlaceInv, NEW s \in Samples
    PROVE  /\ s \in batch => s \notin InSeq(mq) /\ s \notin Generating
           /\ s \in InSeq(mq) => s \notin Generating
<1>1. PICK p \in PlaceNames : \A q \in PlaceNames : IsAt(s, q) <=> q = p
  BY DEF PlaceInv, Single
<1> QED BY <1>1, AtFacts DEF PlaceNames

LEMMA BatchSize ==
    ASSUME TypeOK
    PROVE  IsFiniteSet(batch) /\ Cardinality(batch) \in Nat
BY SamplesFinite, FS_CardinalityType DEF TypeOK

LEMMA CollectSize ==
    ASSUME TypeOK, PlaceInv, Collect, ~IsMarker(Head(mq))
    PROVE  /\ Head(mq) \in Samples /\ Head(mq) \in InSeq(mq)
           /\ batch' = batch \union {Head(mq)}
           /\ Cardinality(batch') = Cardinality(batch) + 1
<1> DEFINE S == 0 .. Total
<1>1. mq \in Seq(S) /\ mq # <<>>
  BY DEF TypeOK, Collect
<1> HIDE DEF S
<1>2. Head(mq) \in S /\ Head(mq) \in InSeq(mq)
  BY <1>1, InSeqFacts, SeqFacts
<1>3. Head(mq) \in Samples
  BY <1>2, SampleFacts DEF S, IsMarker
<1>4. Head(mq) \notin batch
  BY <1>2, <1>3, Apart
<1>5. batch' = batch \union {Head(mq)}
  BY DEF Collect
<1> QED BY <1>2, <1>3, <1>4, <1>5, BatchSize, FS_AddElement

LEMMA RoundStep ==
    ASSUME TypeOK, VersionInv, PlaceInv, RoundInv, [Next]_vars
    PROVE  RoundInv'
<1> USE DEF RoundInv
<1>1. CASE UNCHANGED <<conf, tpc, closing, local, batch>>
  BY <1>1
<1>2. CASE Trainer
  <2>0. /\ conf.required \in Nat \ {0} /\ conf.trigger \in Nat \ {0}
        /\ conf' = conf /\ Cardinality(batch) \in Nat /\ Cardinality({}) = 0
    BY <1>2, SizeFacts, BatchSize, FS_EmptySet
       DEF Trainer, Collect, Train, StartSync, Close, Last, trainFrame
  <2>1. CASE Collect
    <3>1. CASE IsMarker(Head(mq))
      BY <2>1, <3>1 DEF Collect
    <3>2. CASE ~IsMarker(Head(mq))
      <4>1. Cardinality(batch') = Cardinality(batch) + 1
        BY <2>1, <3>2, CollectSize
      <4>2. /\ tpc' = IF Cardinality(batch') = conf.required THEN "train" ELSE "collect"
            /\ closing' = closing /\ local' = local /\ tpc = "collect"
        BY <2>1, <3>2 DEF Collect
      <4> QED BY <2>0, <4>1, <4>2
    <3> QED BY <3>1, <3>2
  <2>2. CASE Train
    BY <2>0, <2>2 DEF Train
  <2>3. CASE StartSync \/ Close \/ Last
    BY <2>0, <2>3 DEF StartSync, Close, Last
  <2> QED BY <1>2, <2>1, <2>2, <2>3 DEF Trainer
<1>3. CASE WeightsSynced
  <2>1. tpc = "syncing" /\ UNCHANGED <<conf, closing, local, batch>>
        /\ tpc' = IF closing THEN "last" ELSE "collect"
    BY <1>3 DEF WeightsSynced, syncFrame, VersionInv, Asked
  <2>2. conf.required \in Nat \ {0} /\ conf.trigger \in Nat \ {0} /\ Cardinality({}) = 0
    BY SizeFacts, FS_EmptySet
  <2>3. ~closing => local = 1 /\ batch = {}
    BY <2>1
  <2> QED BY <2>1, <2>2, <2>3
<1>4. CASE ~Trainer /\ ~WeightsSynced
  <2>1. UNCHANGED <<conf, tpc, closing, local, batch>>
    <3>1. CASE Feed \/ Main \/ Monitor
      BY <3>1 DEF Feed, Main, MainEndMarker, MainAsk, MainStop, Monitor, MonitorAsk,
         MonitorCheck, MonitorLook, MonitorRecover, mainFrame, trainVars
    <3>2. CASE Processor
      BY <3>2 DEF Processor, ProcTop, ProcGet, ProcPause, ProcWhile, ProcCollect,
         ProcWaited, ProcIdle, ProcSubmit, ProcWoken, procFrame, trainVars
    <3>3. CASE Sync
      BY <1>4, <3>3 DEF Sync, SyncAsk, Pause, PauseServers, PauseGathered, PauseReturns,
         UpdateRead, UpdateReturns, ResumeServers, Resume, syncFrame, trainVars
    <3>4. ASSUME NEW s \in Samples, Task(s) \/ TaskRaises(s)
          PROVE  UNCHANGED <<conf, tpc, closing, local, batch>>
      BY <3>4 DEF Task, TaskStart, TaskGenerated, TaskCancelled, TaskRaises,
         QueuePut, TaskEnds, taskFrame, trainVars
    <3>5. CASE UNCHANGED vars
      BY <3>5 DEF vars, trainVars
    <3> QED BY <1>4, <3>1, <3>2, <3>3, <3>4, <3>5 DEF Next, Finished
  <2> QED BY <1>1, <2>1
<1> QED BY <1>2, <1>3, <1>4

LEMMA StampStep ==
    ASSUME TypeOK, VersionInv, PlaceInv, ServersQuiet, StampInv, [Next]_vars
    PROVE  StampInv'
<1> DEFINE Kept == /\ conf' = conf /\ version' = version /\ done' = done
                   /\ \A s \in Samples : task'[s] = "put" => task[s] = "put"
<1>0. version \in Nat /\ \A s \in Samples : done[s] \in Nat
  BY DEF TypeOK
<1>1. ASSUME Kept, spc' \in {"kv", "weights", "callUpdate", "update"} =>
                     spc \in {"kv", "weights", "callUpdate", "update"}
      PROVE  StampInv'
  BY <1>1 DEF StampInv, Delay
<1>2. CASE Feed \/ Processor
  <2>1. Kept /\ spc' = spc
    BY <1>2 DEF TypeOK, Feed, Processor, ProcTop, ProcGet, ProcPause, ProcWhile,
       ProcCollect, ProcWaited, ProcIdle, ProcSubmit, ProcWoken, procFrame,
       roVars, taskVars, syncVars
  <2> QED BY <1>1, <2>1
<1>3. CASE Main \/ Monitor
  <2>1. Kept /\ spc' = spc
    BY <1>3 DEF Main, MainEndMarker, MainAsk, MainStop, Monitor, MonitorAsk,
       MonitorCheck, MonitorLook, MonitorRecover, mainFrame, taskVars, syncVars
  <2> QED BY <1>1, <2>1
<1>4. CASE Sync
  <2>1. CASE SyncAsk \/ Pause \/ PauseServers \/ PauseReturns \/ WeightsSynced
    BY <1>1, <2>1 DEF SyncAsk, Pause, AfterPause, PauseServers, PauseReturns,
       WeightsSynced, syncFrame
  <2>2. CASE UpdateReturns \/ ResumeServers \/ Resume
    BY <1>1, <2>2 DEF UpdateReturns, ResumeServers, Resume, syncFrame
  <2>3. CASE PauseGathered
    BY <2>3 DEF PauseGathered, Unfinished, syncFrame, StampInv
  <2>4. CASE UpdateRead
    <3>1. /\ version' = version + 1 /\ spc = "update" /\ spc' = "updating"
          /\ conf' = conf /\ done' = done /\ task' = task
      BY <2>4 DEF UpdateRead, syncFrame, VersionInv, Announced
    <3>2. ASSUME NEW s \in Samples, task[s] = "put"
          PROVE  ~conf.partial /\ done[s] >= version
      BY <3>1, <3>2 DEF StampInv
    <3>3. \A s \in Samples : task[s] = "put" => done[s] + Delay >= version + 1 + 1
      BY <1>0, <3>2 DEF Delay
    <3> QED BY <3>1, <3>3 DEF StampInv, Delay
  <2> QED BY <1>4, <2>1, <2>2, <2>3, <2>4 DEF Sync
<1>5. CASE Trainer
  <2>1. /\ UNCHANGED <<conf, version, task>>
        /\ spc' \in {"kv", "weights", "callUpdate", "update"} => spc' = spc
        /\ \A s \in Samples : s \notin batch => done'[s] = done[s]
    BY <1>5 DEF Trainer, Collect, Train, StartSync, Close, Last, trainFrame, roVars
  <2>2. ASSUME NEW s \in Samples, task[s] = "put" PROVE s \notin batch
    BY <2>2, Apart DEF Generating
  <2> QED BY <2>1, <2>2 DEF StampInv, Delay
<1>6. ASSUME NEW s \in Samples, TaskGenerated(s) PROVE StampInv'
  <2>1. /\ UNCHANGED <<conf, version, spc>> /\ task[s] = "gen"
        /\ done' = [done EXCEPT ![s] = version]
        /\ task' = [task EXCEPT ![s] = "put"]
    BY <1>6 DEF TaskGenerated, taskFrame, syncVars
  <2>2. spc \in {"kv", "weights", "callUpdate", "update"} => ~conf.partial
    BY <2>1 DEF ServersQuiet
  <2>3. done'[s] = version /\ done'[s] + Delay >= version + 1
    BY <1>0, <2>1 DEF TypeOK, Delay
  <2>4. \A r \in Samples : r # s => done'[r] = done[r] /\ task'[r] = task[r]
    BY <2>1 DEF TypeOK
  <2>5. done'[s] >= version
    BY <1>0, <2>3
  <2> QED BY <2>1, <2>2, <2>3, <2>4, <2>5 DEF StampInv, Delay
<1>7. ASSUME NEW s \in Samples, Task(s) \/ TaskRaises(s), ~TaskGenerated(s)
      PROVE  StampInv'
  <2>1. Kept /\ spc' = spc
    BY <1>7 DEF TypeOK, Task, TaskStart, TaskCancelled, TaskRaises,
       QueuePut, TaskEnds, taskFrame, syncVars
  <2> QED BY <1>1, <2>1
<1>8. CASE UNCHANGED vars
  BY <1>1, <1>8 DEF vars, roVars, taskVars, syncVars
<1> QED
  BY <1>2, <1>3, <1>4, <1>5, <1>6, <1>7, <1>8 DEF Next, Finished

\* The trainer consumes a sample when it takes one from the queue, and only then.
LEMMA ConsumedStep ==
    ASSUME TypeOK, VersionInv, PlaceInv, RoundInv, [Next]_vars, ~closing'
    PROVE  /\ ~closing /\ Consumed \in Nat
           /\ PerSync' = PerSync /\ MaxRequired' = MaxRequired
           /\ Queueful' = Queueful /\ Delay' = Delay
           /\ Collect => Consumed' = Consumed + 1 /\ ~IsMarker(Head(mq)) /\ tver' = tver
           /\ ~Collect => Consumed' = Consumed
           /\ ~Collect /\ ~Train => UNCHANGED <<tver, batch>>
<1>1. conf' = conf
  BY Counts
<1>2. /\ PerSync' = PerSync /\ MaxRequired' = MaxRequired
      /\ Queueful' = Queueful /\ Delay' = Delay
  BY <1>1 DEF PerSync, MaxRequired, Queueful, Delay
<1>3. /\ conf.required \in Nat \ {0} /\ conf.trigger \in Nat \ {0} /\ PerSync \in Nat
      /\ Cardinality(batch) \in Nat /\ tver \in Nat /\ local \in Nat
  BY SizeFacts, BatchSize DEF TypeOK
<1>4. closing => closing'
  BY DEF Next, vars, Finished, Feed, Processor, ProcTop, ProcGet, ProcPause, ProcWhile,
     ProcCollect, ProcWaited, ProcIdle, ProcSubmit, ProcWoken, procFrame, Main,
     MainEndMarker, MainAsk, MainStop, Monitor, MonitorAsk, MonitorCheck, MonitorLook,
     MonitorRecover, mainFrame, Sync, SyncAsk, Pause, PauseServers, PauseGathered,
     PauseReturns, WeightsSynced, UpdateRead, UpdateReturns, ResumeServers, Resume,
     syncFrame, Trainer, Collect, Train, StartSync, Close, Last, trainFrame, Task,
     TaskStart, TaskGenerated, TaskCancelled, TaskRaises, QueuePut, TaskEnds, taskFrame,
     trainVars
<1>5. local \in 1 .. conf.trigger
  BY <1>4 DEF RoundInv
<1>6. Consumed \in Nat
  <2>1. PICK r \in Nat, n \in Nat, p \in Nat, v \in Nat, l \in Nat :
          r = conf.required /\ n = Cardinality(batch) /\ p = PerSync /\ v = tver /\ l = local - 1
    BY <1>3, <1>5
  <2>2. v * p \in Nat /\ l * r \in Nat
    OBVIOUS
  <2> QED BY <2>1, <2>2 DEF Consumed
<1>7. ASSUME UNCHANGED <<tver, local, batch>> PROVE Consumed' = Consumed
  BY <1>1, <1>2, <1>7 DEF Consumed
<1>8. CASE Collect
  <2>1. ~IsMarker(Head(mq))
    BY <1>8 DEF Collect
  <2>2. Cardinality(batch') = Cardinality(batch) + 1
    BY <1>8, <2>1, CollectSize
  <2>3. tver' = tver /\ local' = local
    BY <1>8 DEF Collect
  <2>4. Consumed' = Consumed + 1
    <3> DEFINE A == tver * PerSync + (local - 1) * conf.required
    <3>1. A' = A /\ Consumed = A + Cardinality(batch) /\ Consumed' = A + Cardinality(batch')
      BY <1>1, <1>2, <2>3 DEF Consumed
    <3>2. A \in Int
      <4>1. PICK r \in Nat, p \in Nat, v \in Nat, l \in Nat :
              r = conf.required /\ p = PerSync /\ v = tver /\ l = local - 1
        BY <1>3, <1>5
      <4>2. v * p \in Nat /\ l * r \in Nat
        OBVIOUS
      <4> QED BY <4>1, <4>2
    <3> HIDE DEF A
    <3> QED BY <1>3, <2>2, <3>1, <3>2
  <2> QED BY <1>2, <1>4, <1>6, <1>8, <2>1, <2>3, <2>4
<1>9. CASE Train
  <2>1. PICK r \in Nat \ {0}, u \in Nat \ {0}, v \in Nat, l \in Nat :
          /\ r = conf.required /\ u = conf.trigger /\ v = tver /\ l = local /\ l \in 1 .. u
    BY <1>3, <1>5
  <2>2. Cardinality(batch) = r /\ Cardinality(batch') = 0 /\ PerSync = r * u
    BY <1>4, <1>9, <2>1, FS_EmptySet DEF Train, RoundInv, PerSync
  <2>3. Consumed = v * (r * u) + (l - 1) * r + r
    BY <2>1, <2>2 DEF Consumed
  <2>4. CASE local < conf.trigger
    <3>1. tver' = v /\ local' = l + 1
      BY <1>9, <2>1, <2>4 DEF Train
    <3>2. Consumed' = v * (r * u) + (l + 1 - 1) * r + 0
      BY <1>1, <1>2, <2>1, <2>2, <3>1 DEF Consumed
    <3>3. (l + 1 - 1) * r = (l - 1) * r + r
      OBVIOUS
    <3>4. v * (r * u) \in Int /\ (l - 1) * r \in Int
      OBVIOUS
    <3> QED BY <1>2, <1>4, <1>6, <1>9, <2>3, <3>2, <3>3, <3>4 DEF Train, Collect
  <2>5. CASE local >= conf.trigger
    <3>1. tver' = v + 1 /\ local' = 1 /\ l = u
      BY <1>3, <1>9, <2>1, <2>5 DEF Train
    <3>2. Consumed' = (v + 1) * (r * u) + (1 - 1) * r + 0
      BY <1>1, <1>2, <2>1, <2>2, <3>1 DEF Consumed
    <3>3. (u - 1) * r = r * u - r /\ (v + 1) * (r * u) = v * (r * u) + r * u /\ (1 - 1) * r = 0
      OBVIOUS
    <3>4. v * (r * u) \in Int /\ r * u \in Int
      OBVIOUS
    <3> QED BY <1>2, <1>4, <1>6, <1>9, <2>3, <3>1, <3>2, <3>3, <3>4 DEF Train, Collect
  <2> QED BY <1>3, <2>4, <2>5
<1>10. CASE ~Collect /\ ~Train
  <2>1. UNCHANGED <<tver, local, batch>>
    <3>1. CASE Feed \/ Main \/ Monitor
      BY <3>1 DEF Feed, Main, MainEndMarker, MainAsk, MainStop, Monitor, MonitorAsk,
         MonitorCheck, MonitorLook, MonitorRecover, mainFrame, trainVars
    <3>2. CASE Processor
      BY <3>2 DEF Processor, ProcTop, ProcGet, ProcPause, ProcWhile, ProcCollect,
         ProcWaited, ProcIdle, ProcSubmit, ProcWoken, procFrame, trainVars
    <3>3. CASE Sync
      BY <3>3 DEF Sync, SyncAsk, Pause, PauseServers, PauseGathered, PauseReturns,
         WeightsSynced, UpdateRead, UpdateReturns, ResumeServers, Resume, syncFrame, trainVars
    <3>4. CASE StartSync \/ Close \/ Last
      BY <1>4, <3>4 DEF StartSync, Close, Last, RoundInv
    <3>5. ASSUME NEW s \in Samples, Task(s) \/ TaskRaises(s)
          PROVE  UNCHANGED <<tver, local, batch>>
      BY <3>5 DEF Task, TaskStart, TaskGenerated, TaskCancelled, TaskRaises,
         QueuePut, TaskEnds, taskFrame, trainVars
    <3>6. CASE UNCHANGED vars
      BY <3>6 DEF vars, trainVars
    <3> QED BY <1>10, <3>1, <3>2, <3>3, <3>4, <3>5, <3>6 DEF Next, Finished, Trainer
  <2> QED BY <1>2, <1>4, <1>6, <1>7, <1>10, <2>1
<1> QED BY <1>8, <1>9, <1>10

\* How far the trainer is into the versions.
LEMMA ConsumedBounds ==
    ASSUME TypeOK, RoundInv, ~closing
    PROVE  /\ tver * PerSync \in Nat /\ Consumed \in Nat
           /\ tver * PerSync <= Consumed /\ Consumed <= (tver + 1) * PerSync
           /\ tpc = "collect" => Consumed < (tver + 1) * PerSync
           /\ tpc \in {"wait", "syncing"} => Consumed = tver * PerSync
<1>0. /\ conf.required \in Nat \ {0} /\ conf.trigger \in Nat \ {0} /\ tver \in Nat
      /\ local \in 1 .. conf.trigger /\ local \in Nat /\ Cardinality(batch) \in Nat
      /\ Cardinality({}) = 0
  BY SizeFacts, BatchSize, FS_EmptySet DEF TypeOK, RoundInv
<1>1. PICK r \in Nat \ {0}, u \in Nat \ {0}, v \in Nat, l \in Nat, n \in Nat :
        /\ l \in 1 .. u /\ n <= r /\ r = conf.required /\ u = conf.trigger
        /\ v = tver /\ l = local /\ n = Cardinality(batch) /\ PerSync = r * u
        /\ tpc = "collect" => n < r
        /\ tpc \in {"wait", "syncing"} => l = 1 /\ n = 0
  BY <1>0 DEF RoundInv, PerSync
<1>2. Consumed = v * (r * u) + (l - 1) * r + n
  BY <1>1 DEF Consumed
<1>3. /\ v * (r * u) \in Nat /\ (v + 1) * (r * u) = v * (r * u) + r * u
      /\ r * u \in Nat /\ (l - 1) * r \in Nat
  <2>1. \A m \in Nat : m * r \in Nat
    OBVIOUS
  <2>2. l - 1 \in Nat
    BY <1>1
  <2>3. r * u \in Nat
    OBVIOUS
  <2>4. \A p \in Nat : v * p \in Nat /\ (v + 1) * p = v * p + p
    OBVIOUS
  <2> QED BY <2>1, <2>2, <2>3, <2>4
<1>4. (l - 1) * r + r <= r * u
  <2>1. l \in Nat /\ u \in Nat /\ r \in Nat /\ l <= u
    BY <1>1
  <2>2. l * r <= u * r
    BY <2>1, Products
  <2>3. (l - 1) * r + r = l * r /\ u * r = r * u
    OBVIOUS
  <2> QED BY <2>2, <2>3
<1>5. l = 1 => (l - 1) * r = 0
  OBVIOUS
<1> QED BY <1>1, <1>2, <1>3, <1>4, <1>5

\* A put moves nothing back, and what is put comes within the size of the queue.
LEMMA PutOrder ==
    ASSUME TypeOK, Len(mq) <= MaxRequired, NEW x \in 0 .. Total, PutSample(x)
    PROVE  /\ Len(mq') <= MaxRequired
           /\ \A i \in DOMAIN mq' :
                 \/ mq'[i] = x /\ i \in Nat /\ i <= MaxRequired
                 \/ \E k \in DOMAIN mq : mq'[i] = mq[k] /\ i \in Nat /\ k \in Nat /\ i <= k
<1> DEFINE S == 0 .. Total
           kept == IF Full THEN Tail(mq) ELSE mq
<1>1. MaxRequired \in Nat /\ MaxRequired >= 1
  BY ConfFacts DEF TypeOK
<1>2. /\ mq \in Seq(S) /\ x \in S /\ Len(mq) \in Nat /\ DOMAIN mq = 1 .. Len(mq)
      /\ Len(mq) >= MaxRequired <=> Full
  BY LenProperties DEF TypeOK, Full
<1>3. mq' = Append(kept, x)
  BY DEF PutSample
<1> HIDE DEF S
<1>4. Full => mq # <<>>
  BY <1>1, <1>2, SeqFacts DEF Full
<1>5. /\ kept \in Seq(S) /\ Len(kept) \in Nat /\ Len(kept) + 1 <= MaxRequired
      /\ \A i \in 1 .. Len(kept) : \E k \in DOMAIN mq : kept[i] = mq[k] /\ k \in Nat /\ i <= k
  <2>1. CASE Full
    <3>1. /\ Tail(mq) \in Seq(S) /\ Len(Tail(mq)) = Len(mq) - 1
          /\ \A i \in 1 .. Len(Tail(mq)) : Tail(mq)[i] = mq[i + 1]
      BY <1>2, <1>4, <2>1, HeadTailProperties
    <3>2. Len(mq) # 0
      BY <1>2, <1>4, <2>1, EmptySeq
    <3>3. \A i \in 1 .. Len(Tail(mq)) : i + 1 \in DOMAIN mq /\ i + 1 \in Nat /\ i <= i + 1
      BY <1>2, <3>1
    <3> QED BY <1>1, <1>2, <2>1, <3>1, <3>2, <3>3
  <2>2. CASE ~Full
    <3>1. \A i \in 1 .. Len(mq) : i \in DOMAIN mq /\ i \in Nat /\ i <= i
      BY <1>2
    <3> QED BY <1>1, <1>2, <2>2, <3>1
  <2> QED BY <2>1, <2>2
<1> HIDE DEF kept
<1>6. /\ mq' \in Seq(S) /\ Len(mq') = Len(kept) + 1 /\ mq'[Len(kept) + 1] = x
      /\ \A i \in 1 .. Len(kept) : mq'[i] = kept[i]
  BY <1>2, <1>3, <1>5, AppendProperties
<1>7. DOMAIN mq' = 1 .. Len(kept) + 1
  BY <1>6, LenProperties
<1>8. ASSUME NEW i \in DOMAIN mq'
      PROVE  \/ mq'[i] = x /\ i \in Nat /\ i <= MaxRequired
             \/ \E k \in DOMAIN mq : mq'[i] = mq[k] /\ i \in Nat /\ k \in Nat /\ i <= k
  <2>1. i \in Nat /\ (i \in 1 .. Len(kept) \/ i = Len(kept) + 1)
    BY <1>5, <1>7
  <2> QED BY <1>1, <1>5, <1>6, <2>1
<1> QED BY <1>1, <1>5, <1>6, <1>8

\* A finished sample that is queued now is due after all that are ahead of it.
LEMMA PutInTime ==
    ASSUME TypeOK, VersionInv, RoundInv, StampInv, ~closing,
           NEW s \in Samples, task[s] = "put", NEW i \in Nat, i <= MaxRequired
    PROVE  Consumed + i <= Due(done[s])
<1>1. /\ PerSync \in Nat /\ MaxRequired \in Nat /\ Queueful \in Nat
      /\ MaxRequired <= (Queueful + 1) * PerSync
      /\ Delay \in {1, 2} /\ (conf.partial <=> Delay = 1) /\ conf.partial \in BOOLEAN
  BY SizeFacts
<1>2. /\ done[s] \in Nat /\ version \in Nat /\ tver \in Nat /\ synced \in Nat
      /\ tpc \in {"collect", "train", "wait", "syncing", "closing", "last", "done"}
  BY DEF TypeOK
<1>3. /\ done[s] + Delay >= version + 1
      /\ spc \in {"kv", "weights", "callUpdate", "update"} => Delay = 2 /\ done[s] >= version
  BY <1>1 DEF StampInv
<1>4. /\ synced = IF spc \in Announced THEN version + 1 ELSE version
      /\ tver = IF tpc = "wait" THEN synced + 1 ELSE synced
      /\ spc \in Asked => tpc = "syncing"
      /\ spc \in Announced => spc \in Asked \/ spc \in {"kv", "weights", "callUpdate", "update"}
  BY DEF VersionInv, Announced, Asked
<1>5. Consumed <= (done[s] + Delay) * PerSync
  <2>1. CASE tpc \in {"collect", "train"}
    <3>1. tver + 1 <= done[s] + Delay
      BY <1>1, <1>2, <1>3, <1>4, <2>1
    <3>2. (tver + 1) * PerSync <= (done[s] + Delay) * PerSync
      BY <1>1, <1>2, <3>1, Products
    <3> QED
      <4>1. Consumed <= (tver + 1) * PerSync /\ Consumed \in Nat
        BY ConsumedBounds
      <4>0. tver + 1 \in Nat /\ done[s] + Delay \in Nat
        BY <1>1, <1>2
      <4>2. PICK p \in Nat, q \in Nat : p = (tver + 1) * PerSync /\ q = (done[s] + Delay) * PerSync
        <5>1. (tver + 1) * PerSync \in Nat
          BY <1>1, <4>0, Products
        <5>2. (done[s] + Delay) * PerSync \in Nat
          BY <1>1, <4>0, Products
        <5> QED BY <5>1, <5>2
      <4> QED BY <3>2, <4>1, <4>2
  <2>2. CASE tpc \in {"wait", "syncing"}
    <3>1. tver <= done[s] + Delay
      BY <1>1, <1>2, <1>3, <1>4, <2>2
    <3>2. tver * PerSync <= (done[s] + Delay) * PerSync
      BY <1>1, <1>2, <3>1, Products
    <3> QED BY <2>2, <3>2, ConsumedBounds
  <2> QED BY <1>2, <2>1, <2>2 DEF RoundInv
<1>6. Due(done[s]) = (done[s] + Delay) * PerSync + (Queueful + 1) * PerSync
  <2>1. \A d, q, p \in Nat : (d + 1 + q) * p = d * p + (q + 1) * p
    OBVIOUS
  <2>2. done[s] + Delay \in Nat /\ done[s] + Delay + 1 + Queueful = (done[s] + Delay) + 1 + Queueful
    BY <1>1, <1>2
  <2> QED BY <1>1, <2>1, <2>2 DEF Due
<1>7. PICK x \in Nat, y \in Nat, c \in Nat :
        x = (done[s] + Delay) * PerSync /\ y = (Queueful + 1) * PerSync /\ c = Consumed
  <2>1. (done[s] + Delay) * PerSync \in Nat /\ (Queueful + 1) * PerSync \in Nat
    BY <1>1, <1>2, Products
  <2> QED BY <2>1, ConsumedBounds
<1> QED BY <1>1, <1>5, <1>6, <1>7

\* Every step keeps what is queued in time.
LEMMA QueueStep ==
    ASSUME TypeOK, VersionInv, PlaceInv, RoundInv, StampInv, QueueInv, [Next]_vars
    PROVE  QueueInv'
<1>0. /\ Len(mq) <= MaxRequired /\ MaxRequired \in Nat /\ MaxRequired' = MaxRequired
      /\ mq \in Seq(0 .. Total) /\ Len(mq) \in Nat /\ DOMAIN mq = 1 .. Len(mq)
      /\ \A i \in DOMAIN mq : mq[i] \in 0 .. Total /\ mq[i] \in InSeq(mq)
      /\ DONE \in 0 .. Total /\ \A s \in Samples : s \in 0 .. Total /\ s # DONE
  <2>1. MaxRequired \in Nat /\ MaxRequired' = MaxRequired /\ Len(mq) <= MaxRequired
    BY SizeFacts, Counts DEF QueueInv, MaxRequired
  <2>2. mq \in Seq(0 .. Total)
    BY DEF TypeOK
  <2>3. Len(mq) \in Nat /\ DOMAIN mq = 1 .. Len(mq) /\ \A i \in DOMAIN mq : mq[i] \in 0 .. Total
    <3> DEFINE S == 0 .. Total
    <3>1. mq \in Seq(S)
      BY <2>2
    <3> HIDE DEF S
    <3>2. Len(mq) \in Nat /\ DOMAIN mq = 1 .. Len(mq) /\ \A i \in DOMAIN mq : mq[i] \in S
      BY <3>1, LenProperties
    <3> QED BY <3>2 DEF S
  <2>4. \A i \in DOMAIN mq : mq[i] \in InSeq(mq)
    BY DEF InSeq
  <2> QED BY <2>1, <2>2, <2>3, <2>4, SampleFacts
<1>1. ASSUME NEW i \in DOMAIN mq, mq[i] # DONE
      PROVE  mq[i] \in Samples /\ mq[i] \notin batch /\ mq[i] \notin Generating
  BY <1>0, <1>1, SampleFacts, Apart
<1>2. ASSUME ~closing'
      PROVE  /\ ~closing /\ Consumed \in Nat
             /\ \A v : Due(v)' = Due(v)
             /\ \A i \in DOMAIN mq : mq[i] # DONE => Consumed + i <= Due(done[mq[i]])
             /\ \A s \in batch : tver <= done[s] + Delay + Queueful
             /\ Delay' = Delay /\ Queueful' = Queueful
             /\ ~Collect => Consumed' = Consumed
             /\ ~Collect /\ ~Train => UNCHANGED <<tver, batch>>
  BY <1>2, ConsumedStep DEF QueueInv, Due
<1>3. CASE /\ UNCHANGED mq /\ ~Collect
           /\ \A s \in Samples : s \in batch' \union InSeq(mq) => done'[s] = done[s]
           /\ Train => batch' = {}
  <2>1. Len(mq') <= MaxRequired'
    BY <1>0, <1>3
  <2>2. ASSUME ~closing', NEW i \in DOMAIN mq', mq'[i] # DONE
        PROVE  Consumed' + i <= Due(done'[mq'[i]])
    BY <1>0, <1>1, <1>2, <1>3, <2>2
  <2>3. ASSUME ~closing', NEW s \in batch'
        PROVE  tver' <= done'[s] + Delay' + Queueful'
    <3>1. ~Train /\ batch' = batch /\ tver' = tver
      BY <1>2, <1>3, <2>3
    <3>2. s \in Samples
      BY <3>1, <2>3 DEF TypeOK
    <3> QED BY <1>2, <1>3, <2>3, <3>1, <3>2
  <2> QED BY <1>2, <2>1, <2>2, <2>3 DEF QueueInv, Due
<1>4. ASSUME NEW x \in 0 .. Total, PutSample(x), UNCHANGED done, ~Collect, ~Train,
             ~closing' /\ x # DONE => task[x] = "put"
      PROVE  QueueInv'
  <2>1. Len(mq') <= MaxRequired'
    BY <1>0, <1>4, PutOrder
  <2>2. ASSUME ~closing', NEW i \in DOMAIN mq', mq'[i] # DONE
        PROVE  Consumed' + i <= Due(done'[mq'[i]])
    <3>1. CASE mq'[i] = x /\ i \in Nat /\ i <= MaxRequired
      <4>1. x \in Samples /\ task[x] = "put"
        BY <1>4, <2>2, <3>1, SampleFacts
      <4> QED BY <1>2, <1>4, <2>2, <3>1, <4>1, PutInTime
    <3>2. CASE \E k \in DOMAIN mq : mq'[i] = mq[k] /\ i \in Nat /\ k \in Nat /\ i <= k
      <4>1. PICK k \in DOMAIN mq : mq'[i] = mq[k] /\ i \in Nat /\ k \in Nat /\ i <= k
        BY <3>2
      <4>2. Consumed + k <= Due(done[mq[k]])
        BY <1>2, <2>2, <4>1
      <4>3. PICK c \in Nat, m \in Int : c = Consumed /\ m = Due(done[mq[k]])
        <5>1. mq[k] \in Samples
          BY <1>1, <2>2, <4>1
        <5>2. done[mq[k]] \in Nat
          BY <5>1 DEF TypeOK
        <5>3. Due(done[mq[k]]) \in Int
          <6>1. PICK e \in Nat, p \in Nat : e = done[mq[k]] + Delay + 1 + Queueful /\ p = PerSync
            BY <5>2, SizeFacts
          <6>2. e * p \in Int
            OBVIOUS
          <6> QED BY <6>1, <6>2 DEF Due
        <5> QED BY <1>2, <2>2, <5>3
      <4>4. c + i <= m
        BY <4>1, <4>2, <4>3
      <4> QED BY <1>2, <1>4, <2>2, <4>1, <4>3, <4>4
    <3> QED BY <1>0, <1>4, <3>1, <3>2, PutOrder
  <2>3. ASSUME ~closing', NEW s \in batch'
        PROVE  tver' <= done'[s] + Delay' + Queueful'
    BY <1>2, <1>4, <2>3
  <2> QED BY <1>2, <2>1, <2>2, <2>3 DEF QueueInv, Due
<1>5. CASE Collect
  <2>1. /\ mq # <<>> /\ mq' = Tail(mq) /\ UNCHANGED done
    BY <1>5 DEF Collect
  <2>2. /\ Len(mq') = Len(mq) - 1 /\ Len(mq) # 0 /\ Head(mq) = mq[1]
        /\ DOMAIN mq' = 1 .. Len(mq) - 1
        /\ \A i \in 1 .. Len(mq) - 1 : mq'[i] = mq[i + 1]
    <3> DEFINE S == 0 .. Total
    <3>1. mq \in Seq(S)
      BY <1>0
    <3> HIDE DEF S
    <3> QED BY <1>0, <2>1, <3>1, HeadTailProperties, EmptySeq, LenProperties
  <2>3. ASSUME ~closing'
        PROVE  /\ Consumed' = Consumed + 1 /\ tver' = tver
               /\ Head(mq) # DONE /\ Head(mq) \in Samples /\ batch' = batch \union {Head(mq)}
    BY <1>5, <2>3, ConsumedStep, CollectSize DEF IsMarker
  <2>4. ASSUME ~closing', NEW i \in DOMAIN mq', mq'[i] # DONE
        PROVE  Consumed' + i <= Due(done'[mq'[i]])
    <3>1. i + 1 \in DOMAIN mq /\ mq'[i] = mq[i + 1] /\ i \in Nat
      BY <1>0, <2>2, <2>4
    <3>2. Consumed + (i + 1) <= Due(done[mq[i + 1]])
      BY <1>2, <2>4, <3>1
    <3>3. Consumed + (i + 1) = (Consumed + 1) + i
      BY <1>2, <2>4, <3>1
    <3> QED BY <2>1, <2>3, <2>4, <3>1, <3>2, <3>3
  <2>5. ASSUME ~closing', NEW s \in batch'
        PROVE  tver' <= done'[s] + Delay' + Queueful'
    <3>1. CASE s \in batch
      BY <1>2, <2>1, <2>3, <2>5, <3>1
    <3>2. CASE s = Head(mq)
      <4>1. Consumed + 1 <= Due(done[s])
        <5>1. 1 \in DOMAIN mq /\ mq[1] = s /\ s # DONE
          BY <1>0, <2>2, <2>3, <2>5, <3>2
        <5> QED BY <1>2, <2>5, <5>1
      <4>0. done[s] \in Nat /\ tver \in Nat
        BY <2>3, <2>5, <3>2 DEF TypeOK
      <4>7. Delay \in Nat /\ Queueful \in Nat /\ PerSync \in Nat
        BY SizeFacts
      <4>2. PICK d \in Nat, p \in Nat, v \in Nat :
              d = done[s] + Delay + 1 + Queueful /\ p = PerSync /\ v = tver
        BY <4>0, <4>7
      <4>3. v * p <= Consumed /\ Consumed \in Nat /\ v * p \in Nat /\ d * p \in Nat
        BY <1>2, <2>5, <4>2, ConsumedBounds, Products
      <4>4. Consumed + 1 <= d * p
        BY <4>1, <4>2 DEF Due
      <4>5. v * p < d * p
        BY <4>3, <4>4
      <4>6. v < d
        BY <4>5, Products
      <4>8. v <= done[s] + Delay + Queueful
        BY <4>0, <4>2, <4>6, <4>7
      <4> QED BY <1>2, <2>1, <2>3, <2>5, <4>2, <4>8
    <3> QED BY <2>3, <2>5, <3>1, <3>2
  <2>6. Len(mq') <= MaxRequired'
    BY <1>0, <2>2
  <2> QED BY <1>2, <2>4, <2>5, <2>6 DEF QueueInv, Due
<1>6. CASE Train
  <2>1. /\ UNCHANGED mq /\ batch' = {} /\ ~Collect
        /\ \A s \in Samples : s \notin batch => done'[s] = done[s]
    BY <1>6 DEF Train, trainFrame, Collect
  <2>2. \A s \in Samples : s \in InSeq(mq) => s \notin batch
    BY Apart
  <2> QED BY <1>3, <2>1, <2>2
<1>7. CASE StartSync \/ Close \/ Last
  BY <1>3, <1>7 DEF StartSync, Close, Last, trainFrame, Collect, Train
<1>8. CASE MainEndMarker
  <2>1. PutSample(DONE) /\ UNCHANGED <<done, tpc, local, batch>> /\ mainpc # mainpc'
    BY <1>8 DEF MainEndMarker, PutEndMarker, mainFrame, taskVars, trainVars
  <2>2. ~Collect /\ ~Train
    BY <2>1 DEF Collect, Train, trainFrame
  <2> QED BY <1>0, <1>4, <2>1, <2>2
<1>9. ASSUME NEW s \in Samples, QueuePut(s) PROVE QueueInv'
  <2>1. PutSample(s) /\ UNCHANGED done /\ task[s] = "put" /\ task'[s] = "sent"
    BY <1>9 DEF QueuePut, TypeOK
  <2>2. ~Collect /\ ~Train
    BY <2>1 DEF Collect, Train, trainFrame
  <2> QED BY <1>0, <1>4, <2>1, <2>2
<1>10. ASSUME NEW s \in Samples, Task(s) \/ TaskRaises(s), ~QueuePut(s) PROVE QueueInv'
  <2>1. UNCHANGED <<mq, batch>> /\ ~Collect /\ ~Train
    <3>1. task'[s] # task[s] /\ UNCHANGED <<mq, batch>>
      BY <1>10 DEF TypeOK, Task, TaskStart, TaskGenerated, TaskCancelled, TaskRaises,
         TaskEnds, taskFrame, trainVars
    <3> QED BY <3>1 DEF Collect, Train, trainFrame
  <2>2. s \in Generating \/ done' = done
    BY <1>10 DEF Task, TaskStart, TaskGenerated, TaskCancelled, TaskRaises,
       TaskEnds, taskFrame, Generating
  <2>3. \A r \in Samples : r # s => done'[r] = done[r]
    BY <1>10 DEF Task, TaskStart, TaskGenerated, TaskCancelled, TaskRaises,
       TaskEnds, taskFrame, TypeOK
  <2>4. \A r \in Samples : r \in batch \union InSeq(mq) => r \notin Generating
    BY Apart
  <2> QED BY <1>3, <2>1, <2>2, <2>3, <2>4
<1>11. CASE Feed \/ Processor \/ MainAsk \/ MainStop \/ Monitor \/ Sync \/ UNCHANGED vars
  <2>1. UNCHANGED <<mq, batch, done, local>>
    BY <1>11 DEF Feed, Processor, ProcTop, ProcGet, ProcPause, ProcWhile, ProcCollect,
       ProcWaited, ProcIdle, ProcSubmit, ProcWoken, procFrame, MainAsk, MainStop, Monitor,
       MonitorAsk, MonitorCheck, MonitorLook, MonitorRecover, mainFrame, Sync, SyncAsk,
       Pause, PauseServers, PauseGathered, PauseReturns, WeightsSynced, UpdateRead,
       UpdateReturns, ResumeServers, Resume, syncFrame, trainVars, taskVars, vars
  <2>2. Collect => mq' # mq
    <3> SUFFICES ASSUME Collect PROVE mq' # mq
      OBVIOUS
    <3> DEFINE S == 0 .. Total
    <3>1. mq \in Seq(S) /\ mq # <<>> /\ mq' = Tail(mq)
      BY <1>0 DEF Collect
    <3> HIDE DEF S
    <3>2. Len(mq') = Len(mq) - 1 /\ Len(mq) \in Nat
      BY <3>1, HeadTailProperties, LenProperties
    <3> QED BY <3>2
  <2>3. Train => FALSE
    <3> SUFFICES ASSUME Train PROVE FALSE
      OBVIOUS
    <3>1. tpc' # tpc
      BY DEF Train
    <3>2. WeightsSynced \/ tpc' = tpc
      BY <1>11 DEF Feed, Processor, ProcTop, ProcGet, ProcPause, ProcWhile, ProcCollect,
         ProcWaited, ProcIdle, ProcSubmit, ProcWoken, procFrame, MainAsk, MainStop, Monitor,
         MonitorAsk, MonitorCheck, MonitorLook, MonitorRecover, mainFrame, Sync, SyncAsk,
         Pause, PauseServers, PauseGathered, PauseReturns, UpdateRead,
         UpdateReturns, ResumeServers, Resume, syncFrame, trainVars, vars
    <3>3. WeightsSynced => tpc = "syncing"
      BY DEF WeightsSynced, VersionInv, Asked
    <3> QED BY <3>1, <3>2, <3>3 DEF Train
  <2> QED BY <1>3, <2>1, <2>2, <2>3
<1> QED
  BY <1>5, <1>6, <1>7, <1>8, <1>9, <1>10, <1>11 DEF Next, Finished, Main, Trainer

LEMMA RipeStep ==
    ASSUME TypeOK, VersionInv, PlaceInv, [Next]_vars, ~closing'
    PROVE  /\ (\A s \in Samples : ~TaskGenerated(s)) => Ripe' \subseteq Ripe
           /\ \A s \in Samples : TaskGenerated(s) =>
                 s \in Generating /\ Ripe' \subseteq Ripe \union {s} /\ done'[s] = version
           /\ \A s \in Ripe' : s \in Samples /\ (~TaskGenerated(s) => done'[s] = done[s])
<1>1. DONE \in 0 .. Total /\ \A s \in Samples : s \in 0 .. Total /\ s # DONE
  BY SampleFacts
<1>2. \A s \in Ripe' : s \in Samples
  BY DEF Ripe
<1>3. CASE Trainer
  <2>1. /\ task' = task /\ \A s \in Samples : ~TaskGenerated(s)
        /\ Ripe' \subseteq Ripe
    <3>1. CASE Collect
      <4>1. ~IsMarker(Head(mq))
        BY <3>1 DEF Collect
      <4>2. InSeq(mq') \subseteq InSeq(mq) /\ batch' = batch \union {Head(mq)}
            /\ Head(mq) \in InSeq(mq)
        BY <3>1, <4>1, CollectMoves, CollectSize
      <4>3. task' = task
        BY <3>1 DEF Collect, trainFrame
      <4>4. \A s \in Samples : ~TaskGenerated(s)
        BY <4>3 DEF TaskGenerated, TypeOK
      <4> QED BY <4>2, <4>3, <4>4 DEF Ripe, InSeq
    <3>2. CASE Train \/ StartSync \/ Close \/ Last
      <4>1. task' = task /\ mq' = mq /\ batch' \subseteq batch
        BY <3>2 DEF Train, StartSync, Close, Last, trainFrame
      <4>2. \A s \in Samples : ~TaskGenerated(s)
        BY <4>1 DEF TaskGenerated, TypeOK
      <4> QED BY <4>1, <4>2 DEF Ripe, InSeq
    <3> QED BY <1>3, <3>1, <3>2 DEF Trainer
  <2>2. ASSUME NEW s \in Ripe' PROVE done'[s] = done[s]
    <3>1. CASE Train
      <4>1. batch' = {} /\ mq' = mq
        BY <3>1 DEF Train, trainFrame
      <4>2. s \in Samples /\ (task[s] = "put" \/ s \in InSeq(mq))
        BY <2>1, <2>2, <4>1 DEF Ripe, InSeq
      <4>3. s \notin batch
        BY <4>2, Apart DEF Generating
      <4> QED BY <3>1, <4>2, <4>3 DEF Train
    <3>2. CASE ~Train
      BY <1>3, <3>2 DEF Trainer, Collect, StartSync, Close, Last, trainFrame
    <3> QED BY <3>1, <3>2
  <2> QED BY <1>2, <2>1, <2>2
<1>4. ASSUME NEW s \in Samples, TaskGenerated(s)
      PROVE  /\ s \in Generating /\ Ripe' \subseteq Ripe \union {s} /\ done'[s] = version
             /\ \A r \in Samples : r # s => ~TaskGenerated(r) /\ done'[r] = done[r]
  <2>1. /\ task[s] = "gen" /\ task' = [task EXCEPT ![s] = "put"] /\ UNCHANGED <<mq, batch>>
        /\ done' = [done EXCEPT ![s] = version]
    BY <1>4 DEF TaskGenerated, taskFrame, trainVars
  <2>2. \A r \in Samples : r # s => task'[r] = task[r] /\ done'[r] = done[r]
    BY <2>1 DEF TypeOK
  <2>3. \A r \in Samples : r # s => ~TaskGenerated(r)
    BY <2>2 DEF TaskGenerated, TypeOK
  <2> QED BY <2>1, <2>2, <2>3 DEF Ripe, InSeq, Generating, TypeOK
<1>5. ASSUME NEW s \in Samples, Task(s) \/ TaskRaises(s), ~TaskGenerated(s)
      PROVE  /\ Ripe' \subseteq Ripe /\ done' = done
             /\ \A r \in Samples : ~TaskGenerated(r)
  <2>1. /\ done' = done /\ batch' = batch /\ task'[s] # "put" /\ task'[s] # task[s]
        /\ \A r \in Samples : r # s => task'[r] = task[r]
    BY <1>5 DEF Task, TaskStart, TaskCancelled, TaskRaises, QueuePut, TaskEnds, taskFrame,
       trainVars, TypeOK
  <2>2. \A r \in Samples : ~TaskGenerated(r)
    BY <2>1 DEF TaskGenerated, TypeOK
  <2>3. CASE QueuePut(s)
    <3>1. InSeq(mq') \subseteq InSeq(mq) \union {s} /\ task[s] = "put"
      BY <1>1, <2>3, PutMoves DEF QueuePut
    <3> QED BY <2>1, <2>2, <3>1 DEF Ripe, InSeq
  <2>4. CASE ~QueuePut(s)
    <3>1. mq' = mq
      BY <1>5, <2>4 DEF Task, TaskStart, TaskCancelled, TaskRaises, TaskEnds, taskFrame
    <3> QED BY <2>1, <2>2, <3>1 DEF Ripe, InSeq
  <2> QED BY <2>3, <2>4
<1>6. CASE MainEndMarker
  <2>1. UNCHANGED <<task, done, batch>> /\ PutSample(DONE)
    BY <1>6 DEF MainEndMarker, PutEndMarker, mainFrame, taskVars, trainVars
  <2>2. InSeq(mq') \subseteq InSeq(mq) \union {DONE}
    BY <1>1, <2>1, PutMoves
  <2>3. \A r \in Samples : ~TaskGenerated(r)
    BY <2>1 DEF TaskGenerated, TypeOK
  <2> QED BY <1>1, <1>2, <2>1, <2>2, <2>3 DEF Ripe, InSeq
<1>7. CASE Feed \/ Processor \/ MainAsk \/ MainStop \/ Monitor \/ Sync \/ UNCHANGED vars
  <2>1. /\ UNCHANGED <<mq, batch, done>>
        /\ \A s \in Samples : task'[s] = "put" => task[s] = "put"
    BY <1>7 DEF TypeOK, Feed, Processor, ProcTop, ProcGet, ProcPause, ProcWhile, ProcCollect,
       ProcWaited, ProcIdle, ProcSubmit, ProcWoken, procFrame, MainAsk, MainStop, Monitor,
       MonitorAsk, MonitorCheck, MonitorLook, MonitorRecover, mainFrame, Sync, SyncAsk,
       Pause, PauseServers, PauseGathered, PauseReturns, WeightsSynced, UpdateRead,
       UpdateReturns, ResumeServers, Resume, syncFrame, trainVars, taskVars, vars
  <2>2. \A s \in Samples : ~TaskGenerated(s)
    BY <2>1 DEF TaskGenerated, TypeOK
  <2> QED BY <1>2, <2>1, <2>2 DEF Ripe, InSeq
<1> QED
  BY <1>2, <1>3, <1>4, <1>5, <1>6, <1>7 DEF Next, Finished, Main

\* A sample of the batch is not on its way.
LEMMA BatchNotInFlight ==
    ASSUME PlaceInv', NEW d \in Samples, d \in batch' PROVE d \notin InFlight'
<1>1. Single(d)' /\ IsAt(d, "batch")'
  BY AtFactsNext DEF PlaceInv
<1>2. \A q \in PlaceNames : IsAt(d, q)' => q = "batch"
  BY <1>1 DEF Single, PlaceNames
<1>3. /\ ~IsAt(d, "task")' /\ ~IsAt(d, "cancelled")' /\ ~IsAt(d, "queue")'
      /\ ~IsAt(d, "hand")'
  BY <1>2 DEF PlaceNames
<1>4. d \notin Generating' /\ d \notin InSeq(cancelq') /\ d \notin InSeq(mq')
      /\ d # hand'
  BY <1>3, AtFactsNext
<1> QED BY <1>4 DEF InFlight, InSeq

\* How many samples are on their way after a step.
LEMMA FlightStep ==
    ASSUME TypeOK, PlaceInv, [Next]_vars
    PROVE  /\ Cardinality(InFlight) \in Nat /\ Cardinality(InFlight') \in Nat
           /\ ~ProcGet => Cardinality(InFlight') <= Cardinality(InFlight)
           /\ ProcGet => Cardinality(InFlight') <= Cardinality(InFlight) + 1
           /\ Collect /\ ~IsMarker(Head(mq)) =>
                 Cardinality(InFlight') + 1 <= Cardinality(InFlight)
<1> DEFINE I == Cardinality(InFlight)  J == Cardinality(InFlight')
<1>1. InFlight \in SUBSET Samples /\ IsFiniteSet(InFlight) /\ I \in Nat
  BY InFlightSamples, SamplesFinite
<1>2. ~ProcGet => InFlight' \in SUBSET InFlight
  BY FlightMoves
<1>3. ProcGet => InFlight' \in SUBSET (InFlight \union {Head(pending)})
  BY FlightMoves
<1>4. /\ IsFiniteSet(InFlight \union {Head(pending)})
      /\ Cardinality(InFlight \union {Head(pending)}) <= I + 1
      /\ Cardinality(InFlight \union {Head(pending)}) \in Nat
  BY <1>1, SamplesFinite, FS_AddElement, FS_CardinalityType
<1>5. ~ProcGet => J \in Nat /\ J <= I
  BY <1>1, <1>2, FS_Subset, FS_CardinalityType
<1>6. ProcGet => J \in Nat /\ J <= Cardinality(InFlight \union {Head(pending)})
  BY <1>3, <1>4, FS_Subset, FS_CardinalityType
<1>7. ASSUME Collect, ~IsMarker(Head(mq)) PROVE J + 1 <= I
  <2>1. /\ Head(mq) \in Samples /\ Head(mq) \in InSeq(mq) /\ Head(mq) \in batch'
    BY <1>7, CollectSize
  <2>2. Head(mq) \in InFlight
    BY <2>1 DEF InFlight
  <2>3. Head(mq) \notin InFlight'
    BY <2>1, PlaceStep, BatchNotInFlight
  <2>4. ~ProcGet
    BY <1>7 DEF Collect, trainFrame, ProcGet, procVars
  <2>5. InFlight' \in SUBSET (InFlight \ {Head(mq)})
    BY <1>2, <2>3, <2>4
  <2>6. IsFiniteSet(InFlight \ {Head(mq)}) /\ Cardinality(InFlight \ {Head(mq)}) = I - 1
    BY <1>1, <2>2, FS_RemoveElement
  <2>7. J <= I - 1 /\ J \in Nat
    BY <2>5, <2>6, FS_Subset, FS_CardinalityType
  <2> HIDE DEF I, J
  <2> QED BY <1>1, <2>7
<1> HIDE DEF I, J
<1>8. ProcGet => J \in Nat /\ J <= I + 1
  BY <1>1, <1>4, <1>6
<1> QED BY <1>1, <1>5, <1>7, <1>8 DEF I, J

\* Without a staleness threshold a step starts no sample too many.
LEMMA ExactCounts ==
    ASSUME TypeOK, VersionInv, PlaceInv, RoundInv, ExactInv, [Next]_vars,
           ~closing', MaxRequired = PerSync
    PROVE  /\ (Consumed + Cardinality(InFlight) <= Resets * MaxRequired + staleness)'
           /\ (Consumed + Cardinality(InFlight) + (IF ppc = "get" THEN 1 ELSE 0)
                 <= (Resets + 1) * MaxRequired)'
<1> DEFINE G == IF ppc = "get" THEN 1 ELSE 0
<1>1. /\ Consumed \in Nat /\ ~closing /\ MaxRequired' = MaxRequired
      /\ Collect => Consumed' = Consumed + 1 /\ ~IsMarker(Head(mq))
      /\ ~Collect => Consumed' = Consumed
  BY ConsumedStep
<1>2. PICK c \in Nat, I \in Nat, J \in Nat, R \in Int, M \in Nat \ {0}, s \in Nat, t \in Nat :
        /\ c = Consumed /\ I = Cardinality(InFlight) /\ J = Cardinality(InFlight')
        /\ R = Resets /\ M = MaxRequired /\ s = staleness /\ t = staleness'
  <2>1. MaxRequired \in Nat \ {0} /\ staleness \in Nat
    BY ConfFacts DEF TypeOK
  <2>2. staleness' \in Nat
    BY StepType DEF TypeOK
  <2> QED BY <1>1, <2>1, <2>2, FlightStep, ResetsStep
<1>3. PICK A \in Int : A = R * M /\ (R + 1) * M = A + M /\ (R + 1 + 1) * M = A + M + M
  <2>1. R * M \in Int /\ (R + 1) * M = R * M + M /\ (R + 1 + 1) * M = R * M + M + M
    OBVIOUS
  <2> QED BY <2>1
<1>4. c + I <= A + s /\ c + I + G <= A + M
  BY <1>1, <1>2, <1>3 DEF ExactInv
<1>5. PICK d \in Nat, Q \in Int : d = Consumed' /\ Q = Resets'
  BY <1>1, ResetsStep
<1>6. (Resets * MaxRequired)' = Q * M /\ ((Resets + 1) * MaxRequired)' = (Q + 1) * M
  BY <1>1, <1>2, <1>5
<1>7. CASE ProcGet
  <2>1. ~Collect /\ ~UpdateReturns
    BY <1>7 DEF ProcGet, procFrame, Collect, UpdateReturns, syncVars, trainVars, Release, Holds
  <2>2. d = c /\ J <= I + 1 /\ Q = R /\ ppc = "get" /\ ppc' # "get" /\ t = s + 1
    BY <1>1, <1>2, <1>5, <1>7, <2>1, FlightStep, ResetsStep DEF ProcGet, Counted
  <2>3. c + J <= A + t /\ c + J + 0 <= A + M
    BY <1>4, <2>2
  <2> QED BY <1>2, <1>3, <1>5, <1>6, <2>2, <2>3
<1>8. CASE UpdateReturns
  <2>1. ~Collect /\ ~ProcGet /\ ppc' = ppc
    BY <1>8, Counts DEF UpdateReturns, syncFrame, Collect, trainVars, trainFrame, ProcGet
  <2>2. d = c /\ J <= I /\ Q = R + 1
    BY <1>1, <1>2, <1>5, <1>8, <2>1, FlightStep, ResetsStep
  <2>3. c + J <= A + M + t /\ c + J + G <= A + M + M
    BY <1>4, <2>2
  <2> QED BY <1>2, <1>3, <1>5, <1>6, <2>1, <2>2, <2>3
<1>9. CASE ~ProcGet /\ ~UpdateReturns
  <2>1. Q = R /\ t = s
    BY <1>2, <1>5, <1>9, Counts, ResetsStep
  <2>2. d + J <= c + I
    BY <1>1, <1>2, <1>5, <1>9, FlightStep
  <2>3. ppc' = "get" => ppc = "get" \/ s < M
    BY <1>2, <1>9, Counts DEF ShouldPause
  <2>4. d + J <= A + t /\ d + J + (IF ppc' = "get" THEN 1 ELSE 0) <= A + M
    BY <1>4, <2>1, <2>2, <2>3
  <2> QED BY <1>2, <1>3, <1>5, <1>6, <2>1, <2>4
<1> QED BY <1>7, <1>8, <1>9

\* Without a staleness threshold the trainer never overtakes a finished sample.
LEMMA RipeInTime ==
    ASSUME TypeOK, VersionInv, PlaceInv, RoundInv, ExactInv, [Next]_vars,
           ~closing', MaxRequired = PerSync
    PROVE  \A s \in Ripe' : done'[s] >= tver'
<1>1. /\ Consumed \in Nat /\ ~closing
      /\ ~Collect => Consumed' = Consumed
      /\ Collect => tver' = tver
      /\ ~Collect /\ ~Train => tver' = tver
      /\ PerSync' = PerSync
  BY ConsumedStep
<1>2. /\ \A s \in Ripe : done[s] >= tver
      /\ Consumed + Cardinality(InFlight) <= (Resets + 1) * MaxRequired
  <2>1. /\ \A s \in Ripe : done[s] >= tver
        /\ Consumed + Cardinality(InFlight) + (IF ppc = "get" THEN 1 ELSE 0)
              <= (Resets + 1) * MaxRequired
    BY <1>1 DEF ExactInv
  <2>2. PICK b \in Int : b = (Resets + 1) * MaxRequired
    <3>1. PICK r \in Int, m \in Int : r = Resets + 1 /\ m = MaxRequired
      BY ResetsStep, SizeFacts
    <3>2. r * m \in Int
      OBVIOUS
    <3> QED BY <3>1, <3>2
  <2>3. Cardinality(InFlight) \in Nat
    BY FlightStep
  <2> QED BY <1>1, <2>1, <2>2, <2>3
<1>3. PICK c \in Nat, I \in Nat, a \in Nat, M \in Nat \ {0}, v \in Nat :
        /\ c = Consumed /\ I = Cardinality(InFlight) /\ a = Resets + 1 /\ M = PerSync
        /\ v = tver /\ a <= version + 1 /\ a <= v + 1 /\ c + I <= a * M /\ v * M <= c
        /\ version \in Nat
  <2>1. version \in Nat /\ Resets + 1 \in Nat /\ Resets + 1 <= version + 1
    BY DEF TypeOK, Resets
  <2>2. synced \in Nat /\ version <= synced /\ synced <= tver /\ tver \in Nat
    BY <2>1 DEF TypeOK, VersionInv
  <2>3. PerSync \in Nat \ {0} /\ tver * PerSync <= Consumed
    BY <1>1, SizeFacts, ConsumedBounds
  <2>4. Cardinality(InFlight) \in Nat
    BY FlightStep
  <2>5. Resets + 1 <= tver + 1
    BY <2>1, <2>2
  <2> QED BY <1>1, <1>2, <2>1, <2>2, <2>3, <2>4, <2>5
<1>4. \A s \in Ripe' : s \in Samples /\ (~TaskGenerated(s) => done'[s] = done[s])
  BY RipeStep
<1>5. ASSUME NEW r \in Samples, TaskGenerated(r) PROVE \A s \in Ripe' : done'[s] >= tver'
  <2>1. /\ r \in Generating /\ Ripe' \subseteq Ripe \union {r} /\ done'[r] = version
        /\ tver' = tver /\ \A s \in Samples : s # r => done'[s] = done[s]
    <3>1. /\ tver' = tver /\ \A s \in Samples : s # r => done'[s] = done[s]
      BY <1>5 DEF TaskGenerated, taskFrame, trainVars, TypeOK
    <3> QED BY <1>5, <3>1, RipeStep
  <2>2. I # 0
    <3>1. r \in InFlight /\ IsFiniteSet(InFlight)
      BY <2>1, InFlightSamples, SamplesFinite DEF InFlight
    <3> QED BY <1>3, <3>1, FS_EmptySet
  <2>3. v * M < a * M
    <3>1. v * M \in Int /\ a * M \in Int
      OBVIOUS
    <3> QED BY <1>3, <2>2, <3>1
  <2>4. v < a
    BY <2>3, Products
  <2>5. version >= tver
    BY <1>3, <2>4
  <2> QED BY <1>2, <1>4, <2>1, <2>5
<1>6. CASE tver' # tver
  <2>1. Train /\ ~Collect
    <3>1. Train
      BY <1>1, <1>6
    <3> QED BY <3>1 DEF Train, Collect
  <2>2. /\ tver' = v + 1 /\ local' = 1 /\ batch' = {} /\ task' = task /\ mq' = mq
        /\ conf' = conf
    BY <1>3, <1>6, <2>1 DEF Train, trainFrame
  <2>3. c = (v + 1) * M
    <3>1. Consumed' = (v + 1) * M + (1 - 1) * conf.required + Cardinality({})
      BY <1>1, <1>3, <2>2 DEF Consumed
    <3>2. conf.required \in Nat
      BY SizeFacts
    <3>3. (1 - 1) * conf.required = 0 /\ Cardinality({}) = 0
      BY <3>2, FS_EmptySet
    <3>4. (v + 1) * M \in Int
      OBVIOUS
    <3> QED BY <1>1, <1>3, <2>1, <3>1, <3>3, <3>4
  <2>4. I = 0
    <3>1. a * M <= (v + 1) * M
      BY <1>3, Products
    <3>2. a * M \in Int /\ (v + 1) * M \in Int
      OBVIOUS
    <3> QED BY <1>3, <2>3, <3>1, <3>2
  <2>5. InFlight = {}
    BY <1>3, <2>4, InFlightSamples, SamplesFinite, FS_EmptySet
  <2>6. Ripe' = {}
    BY <2>2, <2>5 DEF Ripe, InFlight, Generating, InSeq
  <2> QED BY <2>6
<1>7. CASE tver' = tver /\ \A r \in Samples : ~TaskGenerated(r)
  <2>1. Ripe' \subseteq Ripe
    BY <1>7, RipeStep
  <2> QED BY <1>2, <1>4, <1>7, <2>1
<1> QED BY <1>5, <1>6, <1>7

LEMMA ExactStep ==
    ASSUME TypeOK, VersionInv, PlaceInv, RoundInv, ExactInv, [Next]_vars
    PROVE  ExactInv'
<1>1. ~closing' /\ (MaxRequired = PerSync)' => MaxRequired = PerSync
  BY ConsumedStep
<1> QED BY <1>1, ExactCounts, RipeInTime DEF ExactInv

(* Whatever the sizes, the threshold and the failures: how many versions a
   sample is behind when it is trained.                                     *)
THEOREM LagSafe == Spec => []LagBound
<1>1. Init => VersionInv /\ ServersQuiet /\ RoundInv /\ StampInv /\ QueueInv /\ ExactInv
  <2> SUFFICES ASSUME Init
               PROVE  VersionInv /\ ServersQuiet /\ RoundInv /\ StampInv /\ QueueInv /\ ExactInv
    OBVIOUS
  <2>1. InFlight = {} /\ Ripe = {} /\ mq = <<>> /\ batch = {}
    BY SizesAssumption, EmptySeq
       DEF Init, InFlight, Ripe, Generating, InSeq, NOBODY, Samples
  <2>2. Cardinality(InFlight) = 0 /\ Cardinality(batch) = 0 /\ Len(mq) = 0
    BY <2>1, FS_EmptySet, EmptySeq
  <2>3. /\ TypeOK /\ staleness = 0 /\ version = 0 /\ synced = 0 /\ tver = 0
        /\ ppc = "top" /\ spc = "idle" /\ tpc = "collect" /\ mainpc = "run"
        /\ local = 1 /\ closing = FALSE
    BY InitType DEF Init
  <2>4. Consumed = 0 /\ Resets = 0 /\ MaxRequired \in Nat
    <3>1. PICK r \in Nat, p \in Nat : r = conf.required /\ p = PerSync
      BY <2>3, SizeFacts
    <3>2. 0 * p + (1 - 1) * r + 0 = 0
      OBVIOUS
    <3> QED BY <2>2, <2>3, <3>1, <3>2, SizeFacts DEF Consumed, Resets
  <2>5. VersionInv /\ ServersQuiet
    BY <2>3 DEF VersionInv, Announced, Asked, ServersQuiet
  <2>6. RoundInv
    BY <2>1, <2>2, <2>3, SizeFacts DEF RoundInv
  <2>7. StampInv
    BY DEF Init, StampInv
  <2>8. QueueInv
    BY <2>1, <2>2, <2>4 DEF QueueInv
  <2>9. ExactInv
    BY <2>1, <2>2, <2>3, <2>4 DEF ExactInv
  <2> QED BY <2>5, <2>6, <2>7, <2>8, <2>9
<1>2. /\ TypeOK /\ VersionInv /\ [Next]_vars => VersionInv'
      /\ TypeOK /\ ServersQuiet /\ [Next]_vars => ServersQuiet'
      /\ TypeOK /\ PlaceInv /\ [Next]_vars => PlaceInv'
      /\ TypeOK /\ VersionInv /\ PlaceInv /\ RoundInv /\ [Next]_vars => RoundInv'
      /\ TypeOK /\ VersionInv /\ PlaceInv /\ ServersQuiet /\ StampInv /\ [Next]_vars
            => StampInv'
      /\ TypeOK /\ VersionInv /\ PlaceInv /\ RoundInv /\ StampInv /\ QueueInv /\ [Next]_vars
            => QueueInv'
      /\ TypeOK /\ VersionInv /\ PlaceInv /\ RoundInv /\ ExactInv /\ [Next]_vars => ExactInv'
  BY VersionStep, ServersQuietStep, PlaceStep, RoundStep, StampStep, QueueStep, ExactStep
<1>3. TypeOK /\ RoundInv /\ QueueInv /\ ExactInv => LagBound
  <2> SUFFICES ASSUME TypeOK, RoundInv, QueueInv, ExactInv, tpc = "train", NEW s \in batch
               PROVE  tver - done[s] <=
                        CASE MaxRequired = PerSync -> 0
                          [] MaxRequired > PerSync /\ conf.partial -> 1 + Queueful
                          [] OTHER -> 2 + Queueful
    BY DEF LagBound, PerSync, Queueful
  <2>1. s \in Samples /\ ~closing /\ done[s] \in Nat /\ tver \in Nat
    BY DEF TypeOK, RoundInv
  <2>2. tver <= done[s] + Delay + Queueful
    BY <2>1 DEF QueueInv
  <2>3. MaxRequired = PerSync => done[s] >= tver
    BY <2>1 DEF ExactInv, Ripe
  <2>4. /\ PerSync \in Nat /\ MaxRequired \in Nat /\ PerSync <= MaxRequired /\ Queueful \in Nat
        /\ conf.partial \in BOOLEAN /\ Delay = IF conf.partial THEN 1 ELSE 2
    BY SizeFacts DEF Delay
  <2>5. CASE MaxRequired = PerSync
    BY <2>1, <2>3, <2>4, <2>5
  <2>6. CASE MaxRequired > PerSync /\ conf.partial
    BY <2>1, <2>2, <2>4, <2>6
  <2>7. CASE MaxRequired > PerSync /\ ~conf.partial
    BY <2>1, <2>2, <2>4, <2>7
  <2> QED BY <2>4, <2>5, <2>6, <2>7
<1> QED BY <1>1, <1>2, <1>3, PlaceInit, AsyncTypes, PTL DEF Spec
=============================================================================
