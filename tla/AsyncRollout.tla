---------------------------- MODULE AsyncRollout ----------------------------
(***************************************************************************)
(* The fully asynchronous policy recipe: a rollouter that streams samples  *)
(* into a bounded message queue, a trainer that takes them in batches, and *)
(* the parameter synchronisation that pauses the one for the other.        *)
(*                                                                         *)
(* The rollouter is one Ray actor, hence one asyncio event loop: a         *)
(* coroutine runs until it awaits something that is not there yet.  `turn' *)
(* names the coroutine that has not yet given the loop up ("loop": none).  *)
(* asyncio.Lock is fair: lockq is the queue of its holder and its waiters. *)
(* Trainer, message queue and LLM servers are other processes.             *)
(***************************************************************************)
EXTENDS Naturals, Sequences, FiniteSets

CONSTANTS
    Total,        \* total_rollout_steps: samples fed, in this order
    Configs,      \* the configurations: a set of records, see SizesAssumption
    PendingMax,   \* maxsize of pending_queue
    TestFreq,     \* rollout.test_freq
    MaxFailures   \* bound: generations that end in an exception

\* max_required_samples is int(required_samples * (staleness_threshold + 1) *
\* trigger_parameter_sync_step), and max_queue_size is the same number.
ASSUME SizesAssumption ==
    /\ {Total, PendingMax, TestFreq} \subseteq Nat \ {0} /\ MaxFailures \in Nat
    /\ \A c \in Configs :
          /\ c \in [required : Nat \ {0}, trigger : Nat \ {0},
                    maxRequired : Nat, maxConcurrent : Nat \ {0},
                    partial : BOOLEAN]
          /\ c.maxRequired >= c.required * c.trigger

Samples == 1 .. Total
DONE == 0           \* "DONE" in pending_queue, sample=None in the message queue
NOBODY == Total + 1 \* no sample

VARIABLES
    conf,       \* the configuration, chosen once
    turn, lockq,
    fed, pending,               \* _feed_samples and pending_queue
    ppc, hand, bound,           \* _processor_worker, rollout_sample, done_tasks
    task, ended, failed,        \* active_tasks: unfinished, finished, raised
    cancelq, staleness, paused, trigger, version,
    mainpc, mpc, spc, count,    \* _streaming_generation_main, monitor, sync
    srvPaused,                  \* vLLMHttpServerForPartial.paused
    mq,                         \* MessageQueue.queue
    tpc, batch, local, tver, closing,   \* FullyAsyncTrainer.fit
    synced,                     \* the version sync_weights was called with
    trained, dropped, raised,   \* samples trained, pushed out, ended by an error
    done                        \* param_version of a finished sample

procVars == <<ppc, hand, bound>>
taskVars == <<task, ended, failed, raised, done>>
syncVars == <<spc, count, srvPaused>>
trainVars == <<tpc, batch, local, tver, closing, synced, trained>>
roVars == <<cancelq, staleness, paused, trigger, version>>
vars == <<conf, turn, lockq, fed, pending, procVars, taskVars, roVars,
          mainpc, mpc, syncVars, mq, dropped, trainVars>>

Item(i) == IF i <= Total THEN i ELSE DONE
FedAfter(n, room) == IF n + room <= Total THEN n + room ELSE Total + 1
Fill(n, m) == [i \in 1 .. m - n |-> Item(n + i)]

\* The feeder is the first task of the loop, and runs until the queue is full.
Init ==
    /\ conf \in Configs
    /\ turn = "loop" /\ lockq = <<>>
    /\ fed = FedAfter(0, PendingMax) /\ pending = Fill(0, fed)
    /\ ppc = "top" /\ hand = NOBODY /\ bound = FALSE
    /\ task = [s \in Samples |-> "none"] /\ ended = 0 /\ failed = 0
    /\ cancelq = <<>> /\ staleness = 0 /\ paused = FALSE /\ trigger = TRUE
    /\ version = 0
    /\ mainpc = "run" /\ mpc = "check" /\ spc = "idle" /\ count = 0
    /\ srvPaused = FALSE
    /\ mq = <<>>
    /\ tpc = "collect" /\ batch = {} /\ local = 1 /\ tver = 0
    /\ closing = FALSE /\ synced = 0
    /\ trained = {} /\ dropped = {} /\ raised = {}
    /\ done = [s \in Samples |-> NOBODY]
-----------------------------------------------------------------------------
(* The event loop, the lock and the condition of the rollouter.            *)

CanRun(c) == turn \in {"loop", c}
Ask(c) == /\ lockq' = Append(lockq, c)
          /\ turn' = IF lockq = <<>> THEN c ELSE "loop"
Holds(c) == lockq # <<>> /\ Head(lockq) = c /\ CanRun(c)
Release == lockq' = Tail(lockq)
KeepOn(c) == turn' = c
Yield == turn' = "loop"
(* Mutant: nobody is notified.                                               *)
NotifyNobody == UNCHANGED ppc
NotifyAll == ppc' = IF ppc = "asleep" THEN "woken" ELSE ppc

MaxRequired == conf.maxRequired
Unfinished == {s \in Samples : task[s] # "none"}
ActiveTasks == Cardinality(Unfinished) + ended + failed
Full == Len(mq) >= MaxRequired
(* Mutant: only the queue pauses the rollouter, not the staleness.           *)
PauseWhenFull == Full
ShouldPause == Full \/ staleness >= MaxRequired

\* deque.popleft and append of MessageQueue.put_sample
PutSample(x) ==
    /\ mq' = Append(IF Full THEN Tail(mq) ELSE mq, x)
    /\ dropped' = dropped \union (IF Full THEN {Head(mq)} ELSE {})
PutEndMarker == PutSample(DONE)
IsMarker(x) == x = DONE
-----------------------------------------------------------------------------
(* _feed_samples: it suspends only when pending_queue is full, so that one *)
(* step of it fills the queue.  The samples are followed by "DONE".        *)

Feed ==
    /\ turn = "loop" /\ fed <= Total /\ Len(pending) < PendingMax
    /\ fed' = FedAfter(fed, PendingMax - Len(pending))
    /\ pending' = pending \o Fill(fed, fed')
    /\ UNCHANGED <<conf, turn, lockq, procVars, taskVars, roVars, mainpc,
                   mpc, syncVars, mq, dropped, trainVars>>
-----------------------------------------------------------------------------
(* _processor_worker.                                                      *)

procFrame == <<conf, fed, mainpc, mpc, syncVars, mq, dropped, trainVars,
               trigger, version>>

(* Mutant: the cancelled sample is looked at, not taken.                     *)
CancelledKept == cancelq
CancelledTaken == Tail(cancelq)

\* The test at the top of the loop, and a sample from one of the two queues.
ProcTop ==
    /\ ppc = "top" /\ CanRun("proc")
    /\ \/ /\ paused \/ ShouldPause
          /\ ppc' = "pausing" /\ Ask("proc")
          /\ UNCHANGED <<hand, cancelq, pending, staleness>>
       \/ /\ ~(paused \/ ShouldPause) /\ cancelq # <<>>
          /\ hand' = Head(cancelq) /\ cancelq' = CancelledTaken
          /\ ppc' = "took" /\ KeepOn("proc")
          /\ UNCHANGED <<lockq, pending, staleness>>
       \/ /\ ~(paused \/ ShouldPause) /\ cancelq = <<>>
          /\ ppc' = "get" /\ turn' = IF pending = <<>> THEN "loop" ELSE "proc"
          /\ UNCHANGED <<lockq, hand, cancelq, pending, staleness>>
    /\ UNCHANGED <<procFrame, taskVars, bound, paused>>

(* Mutant: a sample that is started is not counted.                           *)
NotCounted == staleness
Counted == staleness + 1

\* pending_queue.get() returns: the pause flag is not looked at again.
ProcGet ==
    /\ ppc = "get" /\ CanRun("proc") /\ pending # <<>>
    /\ hand' = Head(pending) /\ pending' = Tail(pending)
    /\ staleness' = Counted
    /\ ppc' = "took" /\ KeepOn("proc")
    /\ UNCHANGED <<procFrame, taskVars, lockq, bound, cancelq, paused>>

ProcPause ==
    /\ ppc = "pausing" /\ Holds("proc")
    /\ paused' = TRUE
    /\ Release /\ ppc' = "drain" /\ KeepOn("proc")
    /\ UNCHANGED <<procFrame, taskVars, pending, hand, bound, cancelq,
                   staleness>>

\* The loop conditions: drain before idling, after DONE, or down to the limit.
ProcWhile ==
    /\ ppc \in {"drain", "took"} /\ CanRun("proc")
    /\ LET wait == IF hand \in Samples THEN ActiveTasks >= conf.maxConcurrent
                                       ELSE ActiveTasks > 0
       IN \/ /\ wait
             /\ ppc' = "collect" /\ Ask("proc")
          \/ /\ ~wait /\ hand # DONE
             /\ ppc' = (IF hand = NOBODY THEN "idle" ELSE "submit")
             /\ Ask("proc")
          \/ /\ ~wait /\ hand = DONE
             /\ ppc' = "ended" /\ Yield /\ UNCHANGED lockq
    /\ UNCHANGED <<procFrame, taskVars, pending, hand, bound, cancelq,
                   staleness, paused>>

\* active_tasks looked at again under the lock.  When pause() emptied it in
\* the meantime, done_tasks is the list of an earlier wait, or unbound.
ProcCollect ==
    /\ ppc = "collect" /\ Holds("proc")
    /\ \/ /\ ActiveTasks > 0
          /\ ppc' = "waiting" /\ Yield /\ UNCHANGED lockq
       \/ /\ ActiveTasks = 0 /\ bound
          /\ ppc' = (IF hand = NOBODY THEN "drain" ELSE "took")
          /\ Release /\ KeepOn("proc")
       \/ /\ ActiveTasks = 0 /\ ~bound
          /\ ppc' = "died" /\ Release /\ Yield
    /\ UNCHANGED <<procFrame, taskVars, pending, hand, bound, cancelq,
                   staleness, paused>>

\* asyncio.wait(FIRST_COMPLETED) returns and the finished tasks are awaited:
\* the exception of one of them ends the processor.
ProcWaited ==
    /\ ppc = "waiting" /\ Holds("proc") /\ ended + failed > 0
    /\ ended' = 0 /\ failed' = 0 /\ bound' = TRUE /\ Release
    /\ \/ failed > 0 /\ ppc' = "died" /\ Yield
       \/ /\ failed = 0 /\ KeepOn("proc")
          /\ ppc' = (IF hand = NOBODY THEN "drain" ELSE "took")
    /\ UNCHANGED <<procFrame, pending, hand, cancelq, staleness, paused, task,
                   raised, done>>

\* The two waits on the condition, and create_task when not paused.
ProcIdle ==
    /\ ppc = "idle" /\ Holds("proc") /\ Release
    /\ \/ paused /\ ppc' = "asleep" /\ Yield
       \/ ~paused /\ ppc' = "top" /\ KeepOn("proc")
    /\ UNCHANGED <<procFrame, taskVars, pending, hand, bound, cancelq,
                   staleness, paused>>

ProcSubmit ==
    /\ ppc = "submit" /\ Holds("proc") /\ Release
    /\ \/ paused /\ ppc' = "asleep" /\ Yield /\ UNCHANGED <<hand, task>>
       \/ /\ ~paused
          /\ task' = [task EXCEPT ![hand] = "created"] /\ hand' = NOBODY
          /\ ppc' = "top" /\ KeepOn("proc")
    /\ UNCHANGED <<procFrame, pending, bound, cancelq, staleness, paused,
                   ended, failed, raised, done>>

\* Notified: the lock is asked for again before wait() returns.
ProcWoken ==
    /\ ppc = "woken" /\ turn = "loop" /\ Ask("proc")
    /\ ppc' = IF hand = NOBODY THEN "idle" ELSE "submit"
    /\ UNCHANGED <<procFrame, taskVars, pending, hand, bound, cancelq,
                   staleness, paused>>

Processor == \/ ProcTop \/ ProcGet \/ ProcPause \/ ProcWhile \/ ProcCollect
             \/ ProcWaited \/ ProcIdle \/ ProcSubmit \/ ProcWoken
-----------------------------------------------------------------------------
(* _process_single_sample_streaming.                                       *)

taskFrame == <<conf, lockq, fed, pending, procVars, staleness, paused,
               trigger, version, mainpc, mpc, syncVars, trainVars>>

\* A request that reaches paused servers is sent back at once as cancelled.
TaskStart(s) ==
    /\ turn = "loop" /\ task[s] = "created"
    /\ task' = [task EXCEPT ![s] = IF srvPaused THEN "refused" ELSE "gen"]
    /\ UNCHANGED <<taskFrame, turn, cancelq, mq, dropped, ended, failed,
                   raised, done>>

\* The sample is complete; it is stamped and sent to the message queue.
TaskGenerated(s) ==
    /\ turn = "loop" /\ task[s] = "gen"
    /\ task' = [task EXCEPT ![s] = "put"]
    /\ done' = [done EXCEPT ![s] = version]
    /\ UNCHANGED <<taskFrame, turn, cancelq, mq, dropped, ended, failed,
                   raised>>

\* The generation was cancelled: what there is of it waits in cancel_queue.
TaskCancelled(s) ==
    /\ turn = "loop"
    /\ task[s] = "refused" \/ (task[s] = "gen" /\ srvPaused)
    /\ task' = [task EXCEPT ![s] = "none"] /\ ended' = ended + 1
    /\ cancelq' = Append(cancelq, s)
    /\ UNCHANGED <<taskFrame, turn, mq, dropped, failed, raised, done>>

TaskRaises(s) ==
    /\ turn = "loop" /\ task[s] \in {"gen", "refused"}
    /\ Cardinality(raised) < MaxFailures
    /\ task' = [task EXCEPT ![s] = "none"] /\ failed' = failed + 1
    /\ raised' = raised \union {s}
    /\ UNCHANGED <<taskFrame, turn, cancelq, mq, dropped, ended, done>>

\* MessageQueue.put_sample, in the queue's own process.
QueuePut(s) ==
    /\ task[s] = "put" /\ task' = [task EXCEPT ![s] = "sent"]
    /\ PutSample(s)
    /\ UNCHANGED <<taskFrame, turn, cancelq, ended, failed, raised, done>>

TaskEnds(s) ==
    /\ turn = "loop" /\ task[s] = "sent"
    /\ task' = [task EXCEPT ![s] = "none"] /\ ended' = ended + 1
    /\ UNCHANGED <<taskFrame, turn, cancelq, mq, dropped, failed, raised,
                   done>>

Task(s) == \/ TaskStart(s) \/ TaskGenerated(s) \/ TaskCancelled(s)
           \/ QueuePut(s) \/ TaskEnds(s)
-----------------------------------------------------------------------------
(* _streaming_generation_main and _async_monitor_loop.                     *)

mainFrame == <<conf, fed, pending, hand, bound, taskVars, cancelq,
               staleness, trigger, version, syncVars, trainVars>>

\* The processor is over, whatever the reason: the end marker is queued.
MainEndMarker ==
    /\ mainpc = "run" /\ turn = "loop" /\ ppc \in {"ended", "died"}
    /\ PutEndMarker /\ mainpc' = "marked"
    /\ UNCHANGED <<mainFrame, turn, lockq, ppc, paused, mpc>>

MainAsk == /\ mainpc = "marked" /\ turn = "loop" /\ Ask("main")
           /\ mainpc' = "locking"
           /\ UNCHANGED <<mainFrame, ppc, paused, mpc, mq, dropped>>

\* running = False
MainStop == /\ mainpc = "locking" /\ Holds("main") /\ Release /\ Yield
            /\ mainpc' = "stopped"
            /\ UNCHANGED <<mainFrame, ppc, paused, mpc, mq, dropped>>

Main == MainEndMarker \/ MainAsk \/ MainStop

\* The loop starts, asking for the lock to look at `running'.
MonitorAsk == /\ mpc = "check" /\ CanRun("mon") /\ Ask("mon")
              /\ mpc' = "checking"
              /\ UNCHANGED <<mainFrame, ppc, paused, mainpc, mq, dropped>>

MonitorCheck ==
    /\ mpc = "checking" /\ Holds("mon") /\ Release /\ Yield
    /\ mpc' = IF mainpc = "stopped" THEN "ended" ELSE "sleep"
    /\ UNCHANGED <<mainFrame, ppc, paused, mainpc, mq, dropped>>

\* After the sleep the flag and the queues are looked at, then the lock is
\* waited for, to recover or for the next round.
MonitorLook ==
    /\ mpc = "sleep" /\ turn = "loop"
    /\ \/ trigger /\ ~ShouldPause /\ mpc' = "recover" /\ Ask("mon")
       \/ /\ ~trigger \/ ShouldPause
          /\ mpc' = "checking" /\ Ask("mon")
    /\ UNCHANGED <<mainFrame, ppc, paused, mainpc, mq, dropped>>

MonitorRecover ==
    /\ mpc = "recover" /\ Holds("mon")
    /\ paused' = FALSE /\ NotifyAll
    /\ lockq' = Append(Tail(lockq), "mon") /\ mpc' = "checking"
    /\ turn' = IF Tail(lockq) = <<>> THEN "mon" ELSE "loop"
    /\ UNCHANGED <<mainFrame, mainpc, mq, dropped>>

Monitor == MonitorAsk \/ MonitorCheck \/ MonitorLook \/ MonitorRecover
-----------------------------------------------------------------------------
(* ParameterSynchronizer.sync_weights: pause(), the weights, then          *)
(* update_param_version() and resume() of the rollouter.                   *)

syncFrame == <<conf, fed, pending, hand, bound, task, raised, done,
               cancelq, mainpc, mpc, mq, dropped>>

SyncAsk ==
    /\ spc \in {"callPause", "callUpdate", "callResume"} /\ turn = "loop"
    /\ Ask("sync")
    /\ spc' = CASE spc = "callPause" -> "pause"
                [] spc = "callUpdate" -> "update"
                [] spc = "callResume" -> "resume"
    /\ UNCHANGED <<syncFrame, trainVars, ppc, ended, failed, staleness,
                   paused, trigger, version, count, srvPaused>>

(* Mutant: the servers are never told to cancel.                             *)
AlwaysGather == "gather"
AfterPause == IF conf.partial THEN "cancel" ELSE "gather"

Pause ==
    /\ spc = "pause" /\ Holds("sync") /\ Yield
    /\ paused' = TRUE
    /\ spc' = AfterPause
    /\ UNCHANGED <<syncFrame, trainVars, lockq, ppc, ended, failed, staleness,
                   trigger, version, count, srvPaused>>

PauseServers ==
    /\ spc = "cancel" /\ turn = "loop"
    /\ srvPaused' = TRUE /\ spc' = "gather"
    /\ UNCHANGED <<syncFrame, trainVars, turn, lockq, ppc, ended, failed,
                   staleness, paused, trigger, version, count>>

\* gather(*active_tasks, return_exceptions=True) and clear()
PauseGathered ==
    /\ spc = "gather" /\ turn = "loop" /\ Unfinished = {}
    /\ ended' = 0 /\ failed' = 0 /\ spc' = "kv"
    /\ UNCHANGED <<syncFrame, trainVars, turn, lockq, ppc, staleness, paused,
                   trigger, version, count, srvPaused>>

PauseReturns ==
    /\ spc = "kv" /\ Holds("sync") /\ Release /\ Yield
    /\ trigger' = FALSE /\ spc' = "weights"
    /\ UNCHANGED <<syncFrame, trainVars, ppc, ended, failed, staleness,
                   paused, version, count, srvPaused>>

\* The weights are on the rollout workers; the trainer does not wait for the
\* two calls that follow.
WeightsSynced ==
    /\ spc = "weights" /\ spc' = "callUpdate"
    /\ tpc' = IF closing THEN "last" ELSE "collect"
    /\ UNCHANGED <<syncFrame, turn, lockq, ppc, ended, failed, staleness,
                   paused, trigger, version, count, srvPaused, batch, local,
                   tver, closing, synced, trained>>

Queued == Len(mq)

\* len(active_tasks) + cancel_queue.qsize() is read, then the queue is asked.
UpdateRead ==
    /\ spc = "update" /\ Holds("sync") /\ Yield
    /\ version' = synced
    /\ count' = ActiveTasks + Len(cancelq) /\ spc' = "updating"
    /\ UNCHANGED <<syncFrame, trainVars, lockq, ppc, ended, failed, staleness,
                   paused, trigger, srvPaused>>

UpdateReturns ==
    /\ spc = "updating" /\ Holds("sync") /\ Release /\ Yield
    /\ staleness' = count + Queued /\ count' = 0 /\ spc' = "callResume"
    /\ UNCHANGED <<syncFrame, trainVars, ppc, ended, failed, paused, trigger,
                   version, srvPaused>>

ResumeServers ==
    /\ spc = "resume" /\ Holds("sync") /\ conf.partial /\ srvPaused /\ Yield
    /\ srvPaused' = FALSE
    /\ UNCHANGED <<syncFrame, trainVars, lockq, ppc, ended, failed, staleness,
                   paused, trigger, version, count, spc>>

Resume ==
    /\ spc = "resume" /\ Holds("sync") /\ ~srvPaused /\ Release /\ Yield
    /\ paused' = FALSE /\ trigger' = TRUE /\ NotifyAll /\ spc' = "idle"
    /\ UNCHANGED <<syncFrame, trainVars, ended, failed, staleness, version,
                   count, srvPaused>>

Sync == \/ SyncAsk \/ Pause \/ PauseServers \/ PauseGathered \/ PauseReturns
        \/ WeightsSynced \/ UpdateRead \/ UpdateReturns \/ ResumeServers
        \/ Resume
-----------------------------------------------------------------------------
(* FullyAsyncTrainer.fit.                                                  *)

trainFrame == <<conf, turn, lockq, fed, pending, procVars, task, ended, failed,
                raised, roVars, mainpc, mpc, count, srvPaused, dropped>>

\* get_sample; a batch the end marker cuts short is given up.
Collect ==
    /\ tpc = "collect" /\ mq # <<>>
    /\ mq' = Tail(mq)
    /\ \/ /\ IsMarker(Head(mq))
          /\ closing' = TRUE /\ tpc' = "closing" /\ UNCHANGED batch
       \/ /\ ~IsMarker(Head(mq))
          /\ batch' = batch \union {Head(mq)}
          /\ tpc' = IF Cardinality(batch') = conf.required THEN "train"
                                                      ELSE "collect"
          /\ UNCHANGED closing
    /\ UNCHANGED <<trainFrame, done, spc, local, tver, synced, trained>>

Train ==
    /\ tpc = "train"
    /\ trained' = trained \union batch /\ batch' = {}
    /\ done' = [s \in Samples |-> IF s \in batch THEN NOBODY ELSE done[s]]
    /\ \/ /\ local < conf.trigger
          /\ local' = local + 1 /\ tpc' = "collect" /\ UNCHANGED tver
       \/ /\ local >= conf.trigger
          /\ local' = 1 /\ tver' = tver + 1 /\ tpc' = "wait"
    /\ UNCHANGED <<trainFrame, mq, spc, closing, synced>>

\* wait_last_valid, then sync_weights
StartSync ==
    /\ tpc = "wait" /\ spc = "idle"
    /\ spc' = "callPause" /\ tpc' = "syncing" /\ synced' = tver
    /\ UNCHANGED <<trainFrame, done, mq, batch, local, tver, closing, trained>>

\* The last synchronisation, for validation
Close ==
    /\ tpc = "closing" /\ spc = "idle"
    /\ \/ /\ tver % TestFreq # 0 \/ local > 1
          /\ tver' = tver + 1 /\ local' = 1 /\ tpc' = "wait"
       \/ /\ tver % TestFreq = 0 /\ local = 1
          /\ tpc' = "done" /\ UNCHANGED <<tver, local>>
    /\ UNCHANGED <<trainFrame, done, mq, spc, batch, closing, synced, trained>>

Last == /\ tpc = "last" /\ spc = "idle" /\ tpc' = "done"
        /\ UNCHANGED <<trainFrame, done, mq, spc, batch, local, tver, closing,
                       synced, trained>>

Trainer == Collect \/ Train \/ StartSync \/ Close \/ Last
-----------------------------------------------------------------------------
(* Where a sample is, and what the parts count.                            *)

InSeq(q) == {q[i] : i \in DOMAIN q}

Generating == {s \in Samples : task[s] \notin {"none", "sent"}}

\* Started and not yet in the hands of the trainer.
InFlight == Generating \union InSeq(cancelq) \union (InSeq(mq) \intersect Samples)
              \union ({hand} \intersect Samples)

\* The places a sample can be in.
PlaceNames == {"feed", "pending", "hand", "task", "cancelled", "queue", "batch",
               "trained", "dropped", "raised"}
IsAt(s, p) ==
    CASE p = "feed" -> s > fed
      [] p = "pending" -> s \in InSeq(pending)
      [] p = "hand" -> s = hand
      [] p = "task" -> s \in Generating
      [] p = "cancelled" -> s \in InSeq(cancelq)
      [] p = "queue" -> s \in InSeq(mq)
      [] p = "batch" -> s \in batch
      [] p = "trained" -> s \in trained
      [] p = "dropped" -> s \in dropped
      [] p = "raised" -> s \in raised
Places(s) == {p \in PlaceNames : IsAt(s, p)}

NoRepeats(q) == \A i, j \in DOMAIN q : q[i] = q[j] => i = j
-----------------------------------------------------------------------------
Finished == /\ tpc = "done" /\ mpc = "ended" /\ UNCHANGED vars

Next == \/ Feed \/ Processor \/ Main \/ Monitor \/ Sync \/ Trainer
        \/ \E s \in Samples : Task(s) \/ TaskRaises(s)
        \/ Finished

\* A callback that is ready stays in the loop's queue while others run, and a
\* lock is handed over in order: whoever can run again and again does.
Fairness ==
    /\ SF_vars(Feed) /\ SF_vars(Processor) /\ SF_vars(Main) /\ SF_vars(Sync)
    /\ SF_vars(Monitor) /\ WF_vars(Trainer)
    /\ \A s \in Samples : SF_vars(Task(s))

Spec == Init /\ [][Next]_vars /\ Fairness
-----------------------------------------------------------------------------
(* Properties.                                                             *)

\* Types of the variables.
TypeOK ==
    /\ conf \in Configs
    /\ turn \in {"loop", "proc", "mon", "sync", "main"}
    /\ lockq \in Seq({"proc", "mon", "sync", "main"})
    /\ fed \in 0 .. Total + 1 /\ pending \in Seq(0 .. Total)
    /\ ppc \in {"top", "get", "took", "pausing", "drain", "collect", "waiting",
               "idle", "submit", "asleep", "woken", "ended", "died"}
    /\ hand \in 0 .. Total + 1 /\ bound \in BOOLEAN
    /\ task \in [Samples -> {"none", "created", "gen", "refused", "put",
                             "sent"}]
    /\ ended \in Nat /\ failed \in Nat
    /\ cancelq \in Seq(Samples) /\ staleness \in Nat /\ paused \in BOOLEAN
    /\ trigger \in BOOLEAN /\ version \in Nat
    /\ mainpc \in {"run", "marked", "locking", "stopped"}
    /\ mpc \in {"check", "checking", "sleep", "recover", "ended"}
    /\ spc \in {"idle", "callPause", "pause", "cancel", "gather", "kv",
               "weights", "callUpdate", "update", "updating", "callResume",
               "resume"}
    /\ count \in Nat /\ srvPaused \in BOOLEAN
    /\ mq \in Seq(0 .. Total)
    /\ tpc \in {"collect", "train", "wait", "syncing", "closing", "last", "done"}
    /\ batch \subseteq Samples /\ local \in Nat /\ tver \in Nat
    /\ closing \in BOOLEAN /\ synced \in Nat
    /\ trained \subseteq Samples /\ dropped \subseteq 0 .. Total
    /\ raised \subseteq Samples
    /\ done \in [Samples -> Nat]

\* Through pauses, cancellations and resubmissions a sample is in exactly one
\* place: it is never trained twice, never both cancelled and queued, and none
\* disappears unless its generation raised or the full queue pushed it out.
SampleInOnePlace ==
    /\ NoRepeats(mq) /\ NoRepeats(cancelq) /\ NoRepeats(pending)
    /\ \A s \in Samples : Cardinality(Places(s)) = 1

\* Never more samples are on their way than the staleness budget, plus the one
\* in the processor's hands that update_param_version does not count.
FreshnessBound == Cardinality(InFlight) <= MaxRequired + 1

\* How many parameter versions a trained sample is behind.  None when
\* staleness_threshold is 0.  Otherwise a synchronisation waits for what is
\* being generated, and the queue may hold MaxRequired - 1 samples ahead of it;
\* without partial rollout a sample can be started in the middle of a
\* synchronisation (NoTaskDuringSync), which adds one version.
LagBound ==
    LET perSync == conf.required * conf.trigger
        queued == (MaxRequired - 1) \div perSync
        limit == CASE MaxRequired = perSync -> 0
                   [] MaxRequired > perSync /\ conf.partial -> 1 + queued
                   [] OTHER -> 2 + queued
    IN tpc = "train" => \A s \in batch : tver - done[s] <= limit

\* With partial rollout no server generates while the weights are replaced and
\* until the new version is announced, whoever lifted the pause meanwhile.
NoGenerationDuringSync ==
    conf.partial /\ spc \in {"weights", "callUpdate", "update", "updating",
                             "callResume"} =>
        \A s \in Samples : task[s] # "gen"

\* The full queue pushes out finished samples, but no more than one for every
\* synchronisation (the sample in the processor's hands that is not counted)
\* and one for the end marker.
DropsBounded ==
    Cardinality(dropped \ {DONE})
        <= version + (IF mainpc = "run" THEN 0 ELSE 1)

\* Without partial rollout every run ends, with the trainer and the rollouter
\* both finished, whatever generations fail and wherever the synchronisations
\* fall.
TrainingEnds == ~conf.partial => <>(tpc = "done" /\ mpc = "ended")

\* README: when a synchronisation is triggered the rollouter waits for its
\* ongoing tasks "and [does] not add new tasks".
NoTaskDuringSync ==
    ~conf.partial /\ spc = "weights" => Unfinished = {}

\* fully_async_rollouter.py: the monitor loop is there to "Trigger rollout
\* recovery"; a paused rollouter does not leave a waiting trainer without
\* samples for ever.
RolloutRecovers ==
    (ppc = "asleep" /\ tpc = "collect") ~> (ppc # "asleep" \/ tpc # "collect")
=============================================================================
