------------------------------ MODULE PaperSearch ------------------------------
(***************************************************************************)
(* One trajectory of the paper-search agent flow                           *)
(* (src/recipe/paper_search/paper_search_agent_flow.py).                   *)
(*                                                                         *)
(* In every step the language model emits tool calls; the flow turns them  *)
(* into coroutines that run concurrently under asyncio.gather and share a  *)
(* paper pool, the `expand' flags of its entries and the history of search *)
(* queries.  A call checks that shared state, awaits the retrieval         *)
(* service, awaits the relevance classifier, and then adds what it keeps   *)
(* to the pool and is rewarded for it.  Between two awaits a coroutine is  *)
(* not interrupted (one event loop), so every segment is one action.       *)
(*                                                                         *)
(* Data is abstract: queries and papers are model values, a service answer *)
(* is the set of papers it names (repeated and empty identifiers, which    *)
(* the code skips, make no difference to a set), the order of papers in an *)
(* answer is irrelevant because one coroutine adds them all in one segment.*)
(* Scores are integers in units of 0.5, the size of the penalty.           *)
(***************************************************************************)
EXTENDS Integers, Sequences, FiniteSets, Functions

CONSTANTS
  Queries,           \* search queries the model can ask
  Papers,            \* paper identifiers
  Score,             \* relevance of a paper to the user query; 0: below 0.01
  MaxSteps,          \* max_steps
  MaxParallelCalls,  \* max_parallel_calls
  MaxEmittedCalls,   \* bound on the tool calls in one model response
  RewardTopK,        \* reward_top_k
  SearchCost,        \* search_cost
  ExpandCost,        \* expand_cost
  UseDiscreteReward, \* use_discrete_reward
  RewardThreshold    \* score_threshold of the discrete reward

ASSUME ConstantsAssumption ==
  /\ IsFiniteSet(Papers)
  /\ Score \in [Papers -> Nat]
  /\ MaxSteps \in Nat
  /\ MaxParallelCalls \in Nat
  /\ MaxEmittedCalls \in Nat
  /\ RewardTopK \in Nat
  /\ SearchCost \in Nat
  /\ ExpandCost \in Nat
  /\ UseDiscreteReward \in BOOLEAN
  /\ RewardThreshold \in Nat

VARIABLES
  pool,      \* keys of paper_pool.papers
  expanded,  \* papers whose entry has expand = True
  history,   \* keys of history_search_queries (the counts are never read)
  trace,     \* per step, its calls; the last one is in flight while "acting"
  status     \* control point of run(): "choosing", "acting" or "done"

vars == <<pool, expanded, history, trace, status>>

Phases == {"skipped", "created", "fetching", "scoring", "penalised", "failed", "scored"}

(* A tool call the model can emit.  An unusable call is one with an unknown *)
(* name, arguments that do not decode, or an empty query or identifier.     *)
ToolCalls == [kind : {"search"}, arg : Queries]
               \cup [kind : {"expand"}, arg : Papers]
               \cup [kind : {"unusable"}, arg : {"none"}]

(* A call of a step: what was asked, how far its coroutine got, the papers  *)
(* it asks the classifier about, and the papers it added to the pool.       *)
Calls ==
  {c \in [kind : {"search", "expand", "unusable"}, arg : Queries \cup Papers \cup {"none"},
          phase : Phases, fresh : SUBSET Papers, kept : SUBSET Papers] :
     /\ c.kind = "search" => c.arg \in Queries
     /\ c.kind = "expand" => c.arg \in Papers}

step == Len(trace)
Here == DOMAIN trace[step]

TypeOK ==
  /\ pool \in SUBSET Papers
  /\ expanded \in SUBSET Papers
  /\ history \in SUBSET Queries
  /\ trace \in Seq(Seq(Calls)) /\ Len(trace) <= MaxSteps
  /\ \A s \in DOMAIN trace : Len(trace[s]) <= MaxParallelCalls
  /\ status \in {"choosing", "acting", "done"}
  /\ status = "acting" => step > 0

Settled(c) == c.phase \in {"skipped", "penalised", "failed", "scored"}

(* The call passed its entry check and went to the retrieval service.       *)
Admitted(c) == c.phase \in {"fetching", "scoring", "failed", "scored"}

--------------------------------------------------------------------------------

Init ==
  /\ pool = {}
  /\ expanded = {}
  /\ history = {}
  /\ trace = <<>>
  /\ status = "choosing"

(* The response has no tool call: the flow records a last step and breaks.  *)
FinalStep ==
  /\ status = "choosing"
  /\ step < MaxSteps
  /\ trace' = Append(trace, <<>>)
  /\ status' = "done"
  /\ UNCHANGED <<pool, expanded, history>>

(* The while condition fails.                                               *)
ExhaustSteps ==
  /\ status = "choosing"
  /\ step >= MaxSteps
  /\ status' = "done"
  /\ UNCHANGED <<pool, expanded, history, trace>>

(* The entry of a tool call among the step's calls: unusable ones are       *)
(* skipped and get no coroutine.                                            *)
Coroutine(t) ==
  [kind |-> t.kind, arg |-> t.arg,
   phase |-> IF t.kind = "unusable" THEN "skipped" ELSE "created",
   fresh |-> {}, kept |-> {}]

(* Only the first max_parallel_calls calls of the response count, and an    *)
(* unusable one among them makes no room for a later one.                   *)
TasksOf(emitted) ==
  [i \in 1 .. (IF Len(emitted) < MaxParallelCalls THEN Len(emitted)
                                                  ELSE MaxParallelCalls)
     |-> Coroutine(emitted[i])]

Dispatch(emitted) ==
  /\ status = "choosing"
  /\ step < MaxSteps
  /\ trace' = Append(trace, TasksOf(emitted))
  /\ status' = "acting"
  /\ UNCHANGED <<pool, expanded, history>>

(* gather puts the coroutines on the ready queue in order, so the event     *)
(* loop runs the first segment of each, in order, before it polls for the   *)
(* answer of any.                                                           *)
MyTurnToStart(i) ==
  /\ status = "acting"
  /\ trace[step][i].phase = "created"
  /\ \A j \in Here : j < i => trace[step][j].phase # "created"

(* Mutant: answers are handled while later calls of the step wait to start. *)
SomeStarted == status = "acting" /\ trace[step] # <<>>

AllStarted ==
  /\ status = "acting"
  /\ \A j \in Here : trace[step][j].phase # "created"

Move(i, phase, fresh, kept) ==
  trace' = [trace EXCEPT ![step][i] =
              [trace[step][i] EXCEPT !.phase = phase, !.fresh = fresh, !.kept = kept]]

StartSearch(i) ==
  /\ MyTurnToStart(i)
  /\ trace[step][i].kind = "search"
  /\ IF trace[step][i].arg \in history
     THEN Move(i, "penalised", {}, {})
     ELSE Move(i, "fetching", {}, {})
  /\ UNCHANGED <<pool, expanded, history, status>>

(* Mutant: an expand does not look at the flag.                             *)
StartExpandAgain(i) ==
  LET p == trace[step][i].arg IN
  /\ MyTurnToStart(i)
  /\ trace[step][i].kind = "expand"
  /\ IF p \in pool
     THEN /\ Move(i, "fetching", {}, {})
          /\ expanded' = expanded \cup {p}
     ELSE /\ Move(i, "penalised", {}, {})
          /\ UNCHANGED expanded
  /\ UNCHANGED <<pool, history, status>>

(* The flag is set before the first await, under the pool lock.             *)
StartExpand(i) ==
  LET p == trace[step][i].arg IN
  /\ MyTurnToStart(i)
  /\ trace[step][i].kind = "expand"
  /\ IF p \in pool /\ p \notin expanded
     THEN /\ Move(i, "fetching", {}, {})
          /\ expanded' = expanded \cup {p}
     ELSE /\ Move(i, "penalised", {}, {})
          /\ UNCHANGED expanded
  /\ UNCHANGED <<pool, history, status>>

(* Mutant: a failed search is not written to the history.                   *)
FetchFailsForgotten(i) ==
  /\ AllStarted
  /\ trace[step][i].phase = "fetching"
  /\ Move(i, "failed", {}, {})
  /\ UNCHANGED <<pool, expanded, history, status>>

(* Mutant: a failed call is started over.                                   *)
FetchFailsRetried(i) ==
  /\ AllStarted
  /\ trace[step][i].phase = "fetching"
  /\ Move(i, "created", {}, {})
  /\ UNCHANGED <<pool, expanded, history, status>>

(* The service gave up on the request (after its retries).                  *)
FetchFails(i) ==
  LET c == trace[step][i] IN
  /\ AllStarted
  /\ c.phase = "fetching"
  /\ Move(i, "failed", {}, {})
  /\ history' = IF c.kind = "search" THEN history \cup {c.arg} ELSE history
  /\ UNCHANGED <<pool, expanded, status>>

(* The service answers with some papers.  The ones the pool does not hold   *)
(* now go to the classifier; an expand also skips the paper it expands.     *)
FetchAnswers(i, answer) ==
  LET c == trace[step][i]
      fresh == IF c.kind = "expand" THEN answer \ (pool \cup {c.arg})
                                    ELSE answer \ pool
  IN
  /\ AllStarted
  /\ c.phase = "fetching"
  /\ Move(i, "scoring", fresh, {})
  /\ UNCHANGED <<pool, expanded, history, status>>

(* Mutant: the pool is not looked at again after the await.                 *)
KeepsUnchecked(fresh, missed) == {p \in fresh \ missed : Score[p] >= 1}

(* What a call keeps: candidates scored at least 0.01 that are still not in *)
(* the pool; a candidate the classifier failed on counts as irrelevant.     *)
Keeps(fresh, missed) == {p \in fresh \ missed : Score[p] >= 1 /\ p \notin pool}

(* add_paper: a paper that is already in the pool stays as it is.           *)
AddPapers(kept) == pool' = pool \cup kept

ScoresArrive(i, missed) ==
  LET c == trace[step][i]
      kept == Keeps(c.fresh, missed)
  IN
  /\ AllStarted
  /\ c.phase = "scoring"
  /\ Move(i, "scored", {}, kept)
  /\ AddPapers(kept)
  /\ history' = IF c.kind = "search" THEN history \cup {c.arg} ELSE history
  /\ UNCHANGED <<expanded, status>>

(* gather returns, and the step with its reward is appended to self.steps.  *)
FinishStep ==
  /\ status = "acting"
  /\ \A i \in Here : Settled(trace[step][i])
  /\ status' = "choosing"
  /\ UNCHANGED <<pool, expanded, history, trace>>

Progress ==
  \/ FinalStep
  \/ ExhaustSteps
  \/ \E n \in 1 .. MaxEmittedCalls : \E emitted \in [1 .. n -> ToolCalls] :
        Dispatch(emitted)
  \/ status = "acting" /\ \E i \in Here :
        \/ StartSearch(i)
        \/ StartExpand(i)
        \/ FetchFails(i)
        \/ \E answer \in SUBSET Papers : FetchAnswers(i, answer)
        \/ \E missed \in SUBSET Papers : ScoresArrive(i, missed)
  \/ FinishStep

Done == status = "done" /\ UNCHANGED vars

Next == Progress \/ Done

(* Every await ends: the clients bound each attempt by a timeout and the    *)
(* number of attempts by max_retries, and the event loop runs what is ready.*)
Spec == Init /\ [][Next]_vars /\ WF_vars(Progress)

--------------------------------------------------------------------------------
(* Rewards, in units of 0.5.                                                *)

Value(p) ==
  IF UseDiscreteReward THEN IF Score[p] >= RewardThreshold THEN 2 ELSE 0
                       ELSE Score[p]

Worth(papers) == SumFunction([p \in papers |-> Value(p)])

TopK(kept) ==
  CHOOSE top \in SUBSET kept :
    /\ Cardinality(top) = IF Cardinality(kept) < RewardTopK
                          THEN Cardinality(kept) ELSE RewardTopK
    /\ \A p \in top, q \in kept \ top : Score[p] >= Score[q]

CallReward(c) ==
  CASE c.phase = "penalised" -> -1
    [] c.phase = "scored" /\ c.kept # {} ->
         Worth(TopK(c.kept)) - (IF c.kind = "search" THEN SearchCost ELSE ExpandCost)
    [] OTHER -> 0

StepReward(s) == SumFunction([i \in DOMAIN trace[s] |-> CallReward(trace[s][i])])

TrajectoryReward == SumFunction([s \in DOMAIN trace |-> StepReward(s)])

--------------------------------------------------------------------------------
(* Properties.                                                              *)

CallIds == UNION {{<<s, i>> : i \in DOMAIN trace[s]} : s \in DOMAIN trace}

Call(id) == trace[id[1]][id[2]]

(* Every paper of the pool earned its reward through exactly one call of    *)
(* the whole trajectory, although calls of one step find the same papers    *)
(* concurrently and each of them looked at the pool before its awaits.      *)
CreditedOnce ==
  /\ pool = UNION {Call(id).kept : id \in CallIds}
  /\ \A a, b \in CallIds : a # b => Call(a).kept \cap Call(b).kept = {}

(* The flag and the requests agree: a paper is flagged as expanded exactly  *)
(* when an expand of it reached the service, and no paper is expanded by    *)
(* two calls, whether of one step or of different steps.                    *)
ExpandedOnce ==
  LET Expands == {id \in CallIds : Call(id).kind = "expand" /\ Admitted(Call(id))}
  IN  /\ expanded = {Call(id).arg : id \in Expands}
      /\ \A a, b \in Expands : Call(a).arg = Call(b).arg => a = b

(* A query reaches the retrieval service in the calls of one step only:     *)
(* whatever became of them, a later step is penalised for asking again.     *)
(* (Two calls of ONE step may carry the same query: the history is written  *)
(* when a search ends, so neither sees the other.)                          *)
QueryInOneStep ==
  \A a, b \in CallIds :
    /\ Call(a).kind = "search" /\ Admitted(Call(a))
    /\ Call(b).kind = "search" /\ Admitted(Call(b))
    /\ Call(a).arg = Call(b).arg
    => a[1] = b[1]

(* An expand only reaches the service for a paper that an earlier step put  *)
(* in the pool, i.e. one the prompt of this step could list: what a         *)
(* concurrent search of the same step finds comes too late.                 *)
ExpandsWhatWasListed ==
  \A a \in CallIds :
    Call(a).kind = "expand" /\ Admitted(Call(a))
      => \E b \in CallIds : b[1] < a[1] /\ Call(a).arg \in Call(b).kept

(* The rewards of a trajectory never add up to more than the value of the   *)
(* papers it collected: repeating or racing calls earns nothing.           *)
RewardBackedByPool ==
  TrajectoryReward <= Worth(pool)

(* Every trajectory ends, whatever the model asks and the services answer.  *)
Terminates == <>(status = "done")

(* What makes the four properties above inductive: only a scored call keeps *)
(* papers; a query that was sent is in the history unless its call is still *)
(* in flight; and while a call of the step has not started, none of its     *)
(* calls has added to the pool.                                             *)
OnlyScoredKeeps == \A id \in CallIds : Call(id).phase # "scored" => Call(id).kept = {}

SearchesRemembered ==
  \A id \in CallIds :
    Call(id).kind = "search" /\ Admitted(Call(id)) =>
      \/ Call(id).arg \in history
      \/ id[1] = step /\ status = "acting" /\ ~ Settled(Call(id))

StartsBeforeAnswers ==
  status = "acting" /\ ~ AllStarted => \A i \in Here : trace[step][i].kept = {}

IInv ==
  /\ CreditedOnce
  /\ ExpandedOnce
  /\ QueryInOneStep
  /\ ExpandsWhatWasListed
  /\ OnlyScoredKeeps
  /\ SearchesRemembered
  /\ StartsBeforeAnswers

(* The flow implements the ledger of PaperLedger: calls are closed one at a *)
(* time, each credited with papers nobody was credited for, for good.       *)
(* Dispatch opens calls, except the skipped ones, which were never calls.   *)
Closed == {id \in CallIds : Settled(Call(id)) /\ Call(id).phase # "skipped"}

Credit == UNION {{<<id, p>> : p \in Call(id).kept} : id \in CallIds}

Ledger == INSTANCE PaperLedger WITH
  AllCalls <- (1 .. MaxSteps) \X (1 .. MaxParallelCalls),
  credit <- Credit, closed <- Closed

LedgerSpec == Ledger!LSpec

================================================================================
