-------------------------- MODULE PaperSearch_proofs --------------------------
(***************************************************************************)
(* Proofs about PaperSearch, for every set of queries and papers, every    *)
(* relevance score and every bound.                                        *)
(***************************************************************************)
EXTENDS PaperSearch, FoldFacts, TLAPS

USE DEF step, Here

(* A step that only replaces call i of the current step leaves the call     *)
(* identifiers and every other call as they were.                           *)
LEMMA MoveCalls ==
  ASSUME TypeOK, status = "acting", NEW i \in Here, NEW d \in Calls,
         trace' = [trace EXCEPT ![step][i] = d]
  PROVE  /\ trace' \in Seq(Seq(Calls)) /\ Len(trace') = Len(trace)
         /\ \A s \in DOMAIN trace : Len(trace'[s]) = Len(trace[s])
         /\ CallIds' = CallIds
         /\ <<step, i>> \in CallIds
         /\ \A id \in CallIds : id # <<step, i>> => Call(id)' = Call(id)
         /\ trace'[step][i] = d
         /\ \A j \in Here : j # i => trace'[step][j] = trace[step][j]
<1> DEFINE cs == [trace[step] EXCEPT ![i] = d]
<1>1. step \in DOMAIN trace /\ \A s \in DOMAIN trace : trace[s] \in Seq(Calls)
  BY DEF TypeOK
<1>2. /\ cs \in Seq(Calls) /\ Len(cs) = Len(trace[step]) /\ cs[i] = d
      /\ \A j \in Here : j # i => cs[j] = trace[step][j]
  BY <1>1
<1>3. trace' = [trace EXCEPT ![step] = cs]
  OBVIOUS
<1> HIDE DEF cs
<1>4. /\ trace' \in Seq(Seq(Calls)) /\ Len(trace') = Len(trace) /\ trace'[step] = cs
      /\ \A s \in DOMAIN trace : s # step => trace'[s] = trace[s]
  BY <1>1, <1>2, <1>3 DEF TypeOK
<1>5. DOMAIN trace' = DOMAIN trace
      /\ \A s \in DOMAIN trace : Len(trace'[s]) = Len(trace[s]) /\ DOMAIN trace'[s] = DOMAIN trace[s]
  BY <1>1, <1>2, <1>4 DEF TypeOK
<1>6. CallIds' = CallIds
  BY <1>5 DEF CallIds
<1>7. <<step, i>> \in CallIds
  BY <1>1 DEF CallIds
<1>8. ASSUME NEW id \in CallIds, id # <<step, i>>
      PROVE  Call(id)' = Call(id)
  <2>1. PICK s \in DOMAIN trace : \E j \in DOMAIN trace[s] : id = <<s, j>>
    BY DEF CallIds
  <2>2. PICK j \in DOMAIN trace[s] : id = <<s, j>>
    BY <2>1
  <2>3. CASE s = step
    BY <2>2, <2>3, <1>2, <1>4, <1>8 DEF Call
  <2>4. CASE s # step
    BY <2>2, <2>4, <1>4 DEF Call
  <2> QED BY <2>3, <2>4
<1> QED
  BY <1>2, <1>4, <1>5, <1>6, <1>7, <1>8

LEMMA TasksType ==
  ASSUME ConstantsAssumption, NEW n \in Nat, NEW emitted \in [1 .. n -> ToolCalls]
  PROVE  /\ TasksOf(emitted) \in Seq(Calls)
         /\ Len(TasksOf(emitted)) <= MaxParallelCalls
         /\ \A i \in DOMAIN TasksOf(emitted) :
              TasksOf(emitted)[i].kept = {} /\ TasksOf(emitted)[i].phase \in {"skipped", "created"}
<1> DEFINE m == IF Len(emitted) < MaxParallelCalls THEN Len(emitted) ELSE MaxParallelCalls
<1>1. emitted \in Seq(ToolCalls) /\ Len(emitted) = n
  OBVIOUS
<1>2. m \in Nat /\ m <= MaxParallelCalls /\ m <= n
  BY <1>1 DEF ConstantsAssumption
<1>3. ASSUME NEW t \in ToolCalls
      PROVE  Coroutine(t) \in Calls /\ Coroutine(t).kept = {} /\ Coroutine(t).phase \in {"skipped", "created"}
  BY DEF ToolCalls, Coroutine, Calls, Phases
<1>4. TasksOf(emitted) = [i \in 1 .. m |-> Coroutine(emitted[i])]
  BY DEF TasksOf
<1> HIDE DEF m
<1>5. \A i \in 1 .. m : emitted[i] \in ToolCalls
  BY <1>2
<1>6. TasksOf(emitted) \in [1 .. m -> Calls]
  BY <1>3, <1>4, <1>5
<1>7. TasksOf(emitted) \in Seq(Calls) /\ Len(TasksOf(emitted)) = m
  BY <1>2, <1>6
<1> QED
  BY <1>2, <1>3, <1>4, <1>5, <1>7

(* A step is appended: the old calls are as they were.                      *)
LEMMA AppendCalls ==
  ASSUME TypeOK, NEW cs \in Seq(Calls), trace' = Append(trace, cs)
  PROVE  /\ trace' \in Seq(Seq(Calls)) /\ Len(trace') = Len(trace) + 1
         /\ \A s \in DOMAIN trace : trace'[s] = trace[s]
         /\ trace'[step + 1] = cs
         /\ CallIds' = CallIds \cup {<<step + 1, i>> : i \in DOMAIN cs}
         /\ \A id \in CallIds : Call(id)' = Call(id) /\ id[1] \in DOMAIN trace
         /\ \A i \in DOMAIN cs : trace'[step + 1][i] = cs[i]
<1>1. trace \in Seq(Seq(Calls)) /\ DOMAIN trace = 1 .. Len(trace)
  BY DEF TypeOK
<1>2. /\ trace' \in Seq(Seq(Calls)) /\ Len(trace') = Len(trace) + 1
      /\ \A s \in DOMAIN trace : trace'[s] = trace[s]
      /\ trace'[step + 1] = cs
      /\ DOMAIN trace' = DOMAIN trace \cup {step + 1}
  BY <1>1
<1>3. CallIds' = CallIds \cup {<<step + 1, i>> : i \in DOMAIN cs}
  <2>1. \A s \in DOMAIN trace : s # step + 1
    BY <1>1, <1>2
  <2>2. \A s \in DOMAIN trace : DOMAIN trace'[s] = DOMAIN trace[s]
    BY <1>2
  <2>3. DOMAIN trace' = DOMAIN trace \cup {step + 1} /\ DOMAIN trace'[step + 1] = DOMAIN cs
    BY <1>2
  <2>4. ASSUME NEW id
        PROVE  id \in CallIds' <=> id \in CallIds \cup {<<step + 1, i>> : i \in DOMAIN cs}
    <3>1. id \in CallIds' <=> \E s \in DOMAIN trace' : \E i \in DOMAIN trace'[s] : id = <<s, i>>
      BY DEF CallIds
    <3>2. id \in CallIds <=> \E s \in DOMAIN trace : \E i \in DOMAIN trace[s] : id = <<s, i>>
      BY DEF CallIds
    <3> QED BY <2>1, <2>2, <2>3, <3>1, <3>2, Zenon
  <2> QED BY <2>4, Zenon
<1>4. \A id \in CallIds : Call(id)' = Call(id) /\ id[1] \in DOMAIN trace
  BY <1>2 DEF CallIds, Call
<1>5. \A i \in DOMAIN cs : trace'[step + 1][i] = cs[i]
  BY <1>2 DEF Call
<1> QED
  BY <1>2, <1>3, <1>4, <1>5

(* Every action of a call replaces its record by one with the same request. *)
Act(i) ==
  \/ StartSearch(i)
  \/ StartExpand(i)
  \/ FetchFails(i)
  \/ \E answer \in SUBSET Papers : FetchAnswers(i, answer)
  \/ \E missed \in SUBSET Papers : ScoresArrive(i, missed)

(* What an action of call i that ends with record d does to the state.      *)
Outcome(i, d) ==
  LET c == trace[step][i] IN
  /\ d.kind = c.kind /\ d.arg = c.arg
  /\ UNCHANGED status
  /\ \/ /\ MyTurnToStart(i) /\ c.kind = "search"
        /\ d.phase = IF c.arg \in history THEN "penalised" ELSE "fetching"
        /\ d.kept = {} /\ UNCHANGED <<pool, expanded, history>>
     \/ /\ MyTurnToStart(i) /\ c.kind = "expand" /\ c.arg \in pool \ expanded
        /\ d.phase = "fetching" /\ d.kept = {}
        /\ expanded' = expanded \cup {c.arg} /\ UNCHANGED <<pool, history>>
     \/ /\ MyTurnToStart(i) /\ c.kind = "expand" /\ c.arg \notin pool \ expanded
        /\ d.phase = "penalised" /\ d.kept = {}
        /\ UNCHANGED <<pool, expanded, history>>
     \/ /\ AllStarted /\ c.phase = "fetching" /\ d.phase = "failed" /\ d.kept = {}
        /\ history' = IF c.kind = "search" THEN history \cup {c.arg} ELSE history
        /\ UNCHANGED <<pool, expanded>>
     \/ /\ AllStarted /\ c.phase = "fetching" /\ d.phase = "scoring" /\ d.kept = {}
        /\ UNCHANGED <<pool, expanded, history>>
     \/ /\ AllStarted /\ c.phase = "scoring" /\ d.phase = "scored"
        /\ d.kept \in SUBSET (Papers \ pool) /\ pool' = pool \cup d.kept
        /\ history' = IF c.kind = "search" THEN history \cup {c.arg} ELSE history
        /\ UNCHANGED expanded

LEMMA ActOutcome ==
  ASSUME TypeOK, status = "acting", NEW i \in Here, Act(i)
  PROVE  \E d \in Calls :
           /\ trace' = [trace EXCEPT ![step][i] = d]
           /\ Outcome(i, d)
<1> DEFINE c == trace[step][i]
           Moved(phase, fresh, kept) ==
             [c EXCEPT !.phase = phase, !.fresh = fresh, !.kept = kept]
<1>1. c \in Calls
  BY DEF TypeOK
<1>2. \A phase \in Phases, fresh, kept \in SUBSET Papers :
        LET d == Moved(phase, fresh, kept)
        IN  /\ d \in Calls /\ d.kind = c.kind /\ d.arg = c.arg
            /\ d.phase = phase /\ d.kept = kept
  <2> TAKE phase \in Phases, fresh, kept \in SUBSET Papers
  <2> QED BY <1>1 DEF Calls
<1>3. \A phase, fresh, kept : Move(i, phase, fresh, kept) =>
        trace' = [trace EXCEPT ![step][i] = Moved(phase, fresh, kept)]
  BY DEF Move
<1> HIDE DEF Moved
<1>4. CASE StartSearch(i)
  <2> DEFINE phase == IF c.arg \in history THEN "penalised" ELSE "fetching"
             d == Moved(phase, {}, {})
  <2>1. phase \in Phases /\ trace' = [trace EXCEPT ![step][i] = d]
    BY <1>3, <1>4 DEF StartSearch, Phases
  <2>2. d \in Calls /\ d.kind = c.kind /\ d.arg = c.arg /\ d.phase = phase /\ d.kept = {}
    BY <1>2, <2>1
  <2> HIDE DEF d
  <2>3. Outcome(i, d)
    BY <1>4, <2>2 DEF StartSearch, Outcome
  <2> QED BY <2>1, <2>2, <2>3
<1>5. CASE StartExpand(i)
  <2> DEFINE phase == IF c.arg \in pool \ expanded THEN "fetching" ELSE "penalised"
             d == Moved(phase, {}, {})
  <2>1. phase \in Phases /\ trace' = [trace EXCEPT ![step][i] = d]
    BY <1>3, <1>5 DEF StartExpand, Phases
  <2>2. d \in Calls /\ d.kind = c.kind /\ d.arg = c.arg /\ d.phase = phase /\ d.kept = {}
    BY <1>2, <2>1
  <2> HIDE DEF d
  <2>3. Outcome(i, d)
    BY <1>5, <2>2 DEF StartExpand, Outcome
  <2> QED BY <2>1, <2>2, <2>3
<1>6. CASE FetchFails(i)
  <2> DEFINE d == Moved("failed", {}, {})
  <2>1. trace' = [trace EXCEPT ![step][i] = d]
    BY <1>3, <1>6 DEF FetchFails
  <2>2. d \in Calls /\ d.kind = c.kind /\ d.arg = c.arg /\ d.phase = "failed" /\ d.kept = {}
    BY <1>2 DEF Phases
  <2> HIDE DEF d
  <2>3. Outcome(i, d)
    BY <1>6, <2>2 DEF FetchFails, Outcome
  <2> QED BY <2>1, <2>2, <2>3
<1>7. ASSUME NEW answer \in SUBSET Papers, FetchAnswers(i, answer)
      PROVE  \E d \in Calls : trace' = [trace EXCEPT ![step][i] = d] /\ Outcome(i, d)
  <2> DEFINE fresh == IF c.kind = "expand" THEN answer \ (pool \cup {c.arg}) ELSE answer \ pool
             d == Moved("scoring", fresh, {})
  <2>1. fresh \in SUBSET Papers /\ trace' = [trace EXCEPT ![step][i] = d]
    BY <1>3, <1>7 DEF FetchAnswers
  <2>2. d \in Calls /\ d.kind = c.kind /\ d.arg = c.arg /\ d.phase = "scoring" /\ d.kept = {}
    BY <1>2, <2>1 DEF Phases
  <2> HIDE DEF d
  <2>3. Outcome(i, d)
    BY <1>7, <2>2 DEF FetchAnswers, Outcome
  <2> QED BY <2>1, <2>2, <2>3
<1>8. ASSUME NEW missed \in SUBSET Papers, ScoresArrive(i, missed)
      PROVE  \E d \in Calls : trace' = [trace EXCEPT ![step][i] = d] /\ Outcome(i, d)
  <2> DEFINE kept == Keeps(c.fresh, missed)
             d == Moved("scored", {}, kept)
  <2>1. kept \in SUBSET (Papers \ pool)
    BY <1>1 DEF Keeps, Calls
  <2>2. trace' = [trace EXCEPT ![step][i] = d]
    BY <1>3, <1>8 DEF ScoresArrive
  <2>3. d \in Calls /\ d.kind = c.kind /\ d.arg = c.arg /\ d.phase = "scored" /\ d.kept = kept
    BY <1>2, <2>1 DEF Phases
  <2>4. c.phase = "scoring" /\ AllStarted /\ pool' = pool \cup kept /\ UNCHANGED <<expanded, status>>
        /\ history' = IF c.kind = "search" THEN history \cup {c.arg} ELSE history
    BY <1>8 DEF ScoresArrive, AddPapers
  <2> HIDE DEF d, kept
  <2>5. Outcome(i, d)
    BY <2>1, <2>3, <2>4 DEF Outcome
  <2> QED BY <2>2, <2>3, <2>5
<1> QED
  BY <1>4, <1>5, <1>6, <1>7, <1>8 DEF Act

(* Type correctness. *)
THEOREM TypeCorrect == Spec => []TypeOK
<1>1. Init => TypeOK
  <2>1. <<>> \in Seq(Seq(Calls)) /\ Len(<<>>) = 0 /\ DOMAIN <<>> = {}
    OBVIOUS
  <2> QED BY <2>1, ConstantsAssumption DEF ConstantsAssumption, Init, TypeOK
<1>2. ASSUME TypeOK, [Next]_vars
      PROVE  TypeOK'
  <2>1. CASE UNCHANGED vars
    BY <1>2, <2>1 DEF vars, TypeOK
  <2>2. CASE FinalStep
    <3>1. <<>> \in Seq(Calls) /\ Len(<<>>) <= MaxParallelCalls
      BY ConstantsAssumption DEF ConstantsAssumption
    <3>2. trace' = Append(trace, <<>>) /\ step < MaxSteps
      BY <2>2 DEF FinalStep
    <3>3. /\ trace' \in Seq(Seq(Calls)) /\ Len(trace') = Len(trace) + 1
          /\ \A s \in DOMAIN trace : trace'[s] = trace[s]
          /\ trace'[step + 1] = <<>>
      BY <1>2, <3>1, <3>2, AppendCalls
    <3>4. Len(trace') <= MaxSteps /\ DOMAIN trace' = DOMAIN trace \cup {step + 1}
      BY <1>2, <3>2, <3>3, ConstantsAssumption DEF ConstantsAssumption, TypeOK
    <3> QED BY <1>2, <2>2, <3>1, <3>3, <3>4 DEF FinalStep, TypeOK
  <2>3. CASE ExhaustSteps
    BY <1>2, <2>3 DEF ExhaustSteps, TypeOK
  <2>4. ASSUME NEW n \in 1 .. MaxEmittedCalls, NEW emitted \in [1 .. n -> ToolCalls],
               Dispatch(emitted)
        PROVE  TypeOK'
    <3>1. TasksOf(emitted) \in Seq(Calls) /\ Len(TasksOf(emitted)) <= MaxParallelCalls
      BY TasksType, ConstantsAssumption
    <3>2. trace' = Append(trace, TasksOf(emitted)) /\ step < MaxSteps
      BY <2>4 DEF Dispatch
    <3>3. /\ trace' \in Seq(Seq(Calls)) /\ Len(trace') = Len(trace) + 1
          /\ \A s \in DOMAIN trace : trace'[s] = trace[s]
          /\ trace'[step + 1] = TasksOf(emitted)
      BY <1>2, <3>1, <3>2, AppendCalls
    <3>4. Len(trace') <= MaxSteps /\ DOMAIN trace' = DOMAIN trace \cup {step + 1} /\ Len(trace') > 0
      BY <1>2, <3>2, <3>3, ConstantsAssumption DEF ConstantsAssumption, TypeOK
    <3> QED BY <1>2, <2>4, <3>1, <3>3, <3>4 DEF Dispatch, TypeOK
  <2>5. ASSUME status = "acting", NEW i \in Here, Act(i)
        PROVE  TypeOK'
    <3>1. PICK d \in Calls : trace' = [trace EXCEPT ![step][i] = d] /\ Outcome(i, d)
      BY <1>2, <2>5, ActOutcome
    <3>2. /\ trace' \in Seq(Seq(Calls)) /\ Len(trace') = Len(trace)
          /\ \A s \in DOMAIN trace : Len(trace'[s]) = Len(trace[s])
      BY <1>2, <2>5, <3>1, MoveCalls
    <3>3. pool' \in SUBSET Papers /\ expanded' \in SUBSET Papers /\ history' \in SUBSET Queries
          /\ status' = status
      <4>1. trace[step][i] \in Calls
        BY <1>2, <2>5 DEF TypeOK
      <4> QED BY <1>2, <3>1, <4>1 DEF Outcome, TypeOK, Calls
    <3>4. DOMAIN trace' = DOMAIN trace /\ step > 0
      BY <1>2, <2>5, <3>2 DEF TypeOK
    <3>5. \A s \in DOMAIN trace' : Len(trace'[s]) <= MaxParallelCalls
      BY <1>2, <3>2, <3>4 DEF TypeOK
    <3> QED BY <1>2, <2>5, <3>2, <3>3, <3>4, <3>5 DEF TypeOK
  <2>6. CASE FinishStep
    BY <1>2, <2>6 DEF FinishStep, TypeOK
  <2> QED
    BY <1>2, <2>1, <2>2, <2>3, <2>4, <2>5, <2>6 DEF Next, Progress, Done, Act
<1> QED
  BY <1>1, <1>2, PTL DEF Spec

(* The inductive invariant survives a step that appends calls that have     *)
(* neither been admitted nor kept anything.                                 *)
LEMMA AppendKeepsIInv ==
  ASSUME TypeOK, IInv, NEW cs \in Seq(Calls), trace' = Append(trace, cs),
         \A i \in DOMAIN cs : cs[i].kept = {} /\ cs[i].phase \in {"skipped", "created"},
         status = "choosing", UNCHANGED <<pool, expanded, history>>
  PROVE  IInv'
<1> DEFINE New == {<<step + 1, i>> : i \in DOMAIN cs}
<1>1. /\ Len(trace') = Len(trace) + 1
      /\ trace'[step + 1] = cs
      /\ CallIds' = CallIds \cup New
      /\ \A id \in CallIds : Call(id)' = Call(id) /\ id[1] \in DOMAIN trace
      /\ \A i \in DOMAIN cs : trace'[step + 1][i] = cs[i]
  BY AppendCalls
<1>2. \A id \in New : Call(id)'.kept = {} /\ ~ Admitted(Call(id))'
  BY <1>1 DEF Call, Admitted
<1>3. \A id \in CallIds' : id \notin CallIds => Call(id)'.kept = {} /\ ~ Admitted(Call(id))'
  BY <1>1, <1>2
<1>4. \A id \in CallIds : Call(id)'.kept = Call(id).kept /\ (Admitted(Call(id))' <=> Admitted(Call(id)))
  BY <1>1 DEF Admitted
<1> HIDE DEF New
<1>5. CreditedOnce'
  BY <1>1, <1>3, <1>4 DEF IInv, CreditedOnce
<1>6. ExpandedOnce'
  BY <1>1, <1>3, <1>4 DEF IInv, ExpandedOnce
<1>7. QueryInOneStep'
  BY <1>1, <1>3, <1>4 DEF IInv, QueryInOneStep
<1>8. ExpandsWhatWasListed'
  BY <1>1, <1>3, <1>4 DEF IInv, ExpandsWhatWasListed
<1>9. OnlyScoredKeeps'
  BY <1>1, <1>3, <1>4 DEF IInv, OnlyScoredKeeps
<1>10. SearchesRemembered'
  BY <1>1, <1>3, <1>4 DEF IInv, SearchesRemembered
<1>11. StartsBeforeAnswers'
  BY <1>1 DEF StartsBeforeAnswers
<1> QED
  BY <1>5, <1>6, <1>7, <1>8, <1>9, <1>10, <1>11 DEF IInv

LEMMA ActKeepsIInv ==
  ASSUME TypeOK, IInv, status = "acting", NEW i \in Here, Act(i)
  PROVE  IInv'
<1>0. PICK me, c : me = <<step, i>> /\ c = trace[step][i]
  OBVIOUS
<1>1. PICK d \in Calls : trace' = [trace EXCEPT ![step][i] = d] /\ Outcome(i, d)
  BY ActOutcome
<1>2. /\ Len(trace') = Len(trace)
      /\ CallIds' = CallIds
      /\ me \in CallIds
      /\ \A id \in CallIds : id # me => Call(id)' = Call(id)
      /\ trace'[step][i] = d
      /\ \A j \in Here : j # i => trace'[step][j] = trace[step][j]
      /\ DOMAIN trace'[step] = DOMAIN trace[step]
  <2>1. step \in DOMAIN trace /\ trace[step] \in Seq(Calls)
    BY DEF TypeOK
  <2>2. /\ trace' \in Seq(Seq(Calls)) /\ Len(trace') = Len(trace)
        /\ \A s \in DOMAIN trace : Len(trace'[s]) = Len(trace[s])
        /\ CallIds' = CallIds
        /\ me \in CallIds
        /\ \A id \in CallIds : id # me => Call(id)' = Call(id)
        /\ trace'[step][i] = d
        /\ \A j \in Here : j # i => trace'[step][j] = trace[step][j]
    BY <1>0, <1>1, MoveCalls
  <2>3. trace'[step] \in Seq(Calls)
    BY <2>1, <2>2
  <2> QED BY <2>1, <2>2, <2>3
<1>3. Call(me)' = d /\ Call(me) = c /\ status' = status
  BY <1>0, <1>1, <1>2 DEF Call, Outcome
<1>4. d.kind = c.kind /\ d.arg = c.arg /\ c \in Calls
  BY <1>0, <1>1 DEF Outcome, TypeOK
<1>5. c.phase # "scored" /\ c.kept = {}
  BY <1>0, <1>1, <1>2, <1>3 DEF Outcome, IInv, OnlyScoredKeeps, MyTurnToStart

<1>6. d.kept \cap pool = {} /\ pool' = pool \cup d.kept
  BY <1>1 DEF Outcome
<1>7. CreditedOnce'
  <2>1. \A id \in CallIds : Call(id)'.kept = IF id = me THEN d.kept ELSE Call(id).kept
    BY <1>2, <1>3
  <2>2. \A id \in CallIds : Call(id).kept \subseteq pool
    BY DEF IInv, CreditedOnce
  <2>3. pool' = UNION {Call(id)'.kept : id \in CallIds}
    BY <1>2, <1>3, <1>5, <1>6, <2>1 DEF IInv, CreditedOnce
  <2>4. ASSUME NEW a \in CallIds, NEW b \in CallIds, a # b
        PROVE  Call(a)'.kept \cap Call(b)'.kept = {}
    BY <1>6, <2>1, <2>2, <2>4 DEF IInv, CreditedOnce
  <2> QED BY <1>2, <2>3, <2>4 DEF CreditedOnce
(* How the set of admitted calls changes: either it does not, or i starts.  *)
<1>8. \/ /\ Admitted(d) <=> Admitted(c)
         /\ expanded' = expanded
      \/ /\ c.kind = "search" /\ c.arg \notin history
         /\ Admitted(d) /\ ~ Admitted(c) /\ ~ Settled(d) /\ MyTurnToStart(i)
         /\ expanded' = expanded
      \/ /\ c.kind = "expand" /\ c.arg \in pool \ expanded
         /\ Admitted(d) /\ ~ Admitted(c) /\ MyTurnToStart(i)
         /\ expanded' = expanded \cup {c.arg}
  BY <1>0, <1>1 DEF Outcome, Admitted, Settled, MyTurnToStart
<1>9. \A id \in CallIds : id # me => (Admitted(Call(id))' <=> Admitted(Call(id)))
  BY <1>2 DEF Admitted
<1>10. /\ Admitted(Call(me))' <=> Admitted(d)
       /\ Admitted(Call(me)) <=> Admitted(c)
  BY <1>3 DEF Admitted
<1>11. \A id \in CallIds : Call(id)'.kind = Call(id).kind /\ Call(id)'.arg = Call(id).arg
  BY <1>2, <1>3, <1>4
<1>12. ExpandedOnce'
  <2> DEFINE E == {id \in CallIds : Call(id).kind = "expand" /\ Admitted(Call(id))}
  <2>1. expanded = {Call(id).arg : id \in E}
        /\ \A a, b \in E : Call(a).arg = Call(b).arg => a = b
    BY DEF IInv, ExpandedOnce
  <2>2. CASE c.kind = "expand" /\ c.arg \in pool \ expanded
             /\ Admitted(d) /\ ~ Admitted(c) /\ expanded' = expanded \cup {c.arg}
    <3>1. E' = E \cup {me} /\ me \notin E
      BY <1>2, <1>3, <1>9, <1>10, <1>11, <2>2
    <3>2. \A id \in E' : Call(id)'.arg = Call(id).arg
      BY <1>2, <1>11
    <3>3. Call(me).arg = c.arg /\ c.arg \notin expanded
      BY <1>3, <2>2
    <3>4. \A a, b \in E' : Call(a)'.arg = Call(b)'.arg => a = b
      BY <2>1, <3>1, <3>2, <3>3
    <3>5. expanded' = {Call(id)'.arg : id \in E'}
      BY <2>1, <2>2, <3>1, <3>2, <3>3
    <3> QED BY <3>4, <3>5 DEF ExpandedOnce
  <2>3. CASE expanded' = expanded /\ (c.kind = "search" \/ (Admitted(d) <=> Admitted(c)))
    <3>1. E' = E
      BY <1>2, <1>3, <1>9, <1>10, <1>11, <2>3
    <3>2. \A id \in E' : Call(id)'.arg = Call(id).arg
      BY <1>2, <1>11
    <3>3. expanded' = {Call(id)'.arg : id \in E'}
      BY <2>1, <2>3, <3>1, <3>2
    <3>4. \A a, b \in E' : Call(a)'.arg = Call(b)'.arg => a = b
      BY <2>1, <3>1, <3>2
    <3> QED BY <3>3, <3>4 DEF ExpandedOnce
  <2> QED BY <1>8, <2>2, <2>3
<1>14. QueryInOneStep'
  <2> DEFINE S(id) == Call(id).kind = "search" /\ Admitted(Call(id))
  <2>1. \A a, b \in CallIds : S(a) /\ S(b) /\ Call(a).arg = Call(b).arg => a[1] = b[1]
    BY DEF IInv, QueryInOneStep
  <2>2. me[1] = step
    BY <1>0
  <2>3. \A a \in CallIds : S(a) => Call(a).arg \in history \/ a[1] = step
    BY DEF IInv, SearchesRemembered
  <2>4. \A a \in CallIds : S(a)' /\ ~ S(a) => a = me /\ c.arg \notin history
    BY <1>3, <1>8, <1>9, <1>10, <1>11
  <2>5. \A a, b \in CallIds : S(a)' /\ S(b)' /\ Call(a).arg = Call(b).arg => a[1] = b[1]
    BY <1>3, <2>1, <2>2, <2>3, <2>4
  <2> QED BY <1>2, <1>11, <2>5 DEF QueryInOneStep
<1>15. OnlyScoredKeeps'
  <2>1. d.phase # "scored" => d.kept = {}
    BY <1>1 DEF Outcome
  <2> QED BY <1>2, <1>3, <2>1 DEF IInv, OnlyScoredKeeps
<1>16. SearchesRemembered'
  <2>1. history \subseteq history'
    BY <1>1 DEF Outcome
  <2>2. ASSUME NEW id \in CallIds, id # me,
               (Call(id).kind = "search" /\ Admitted(Call(id)))'
        PROVE  (Call(id).arg \in history \/ (id[1] = step /\ status = "acting" /\ ~ Settled(Call(id))))'
    BY <1>2, <1>3, <2>1, <2>2 DEF IInv, SearchesRemembered, Admitted, Settled
  <2>3. d.kind = "search" /\ Admitted(d) => d.arg \in history' \/ ~ Settled(d)
    BY <1>0, <1>1, <1>4 DEF Outcome, Admitted, Settled
  <2>4. me[1] = step
    BY <1>0
  <2>5. (Call(me).kind = "search" /\ Admitted(Call(me)) =>
           Call(me).arg \in history \/ (me[1] = step /\ status = "acting" /\ ~ Settled(Call(me))))'
    BY <1>2, <1>3, <2>3, <2>4 DEF Admitted, Settled
  <2> QED BY <1>2, <2>2, <2>5 DEF SearchesRemembered
<1>17. StartsBeforeAnswers'
  <2>1. CASE AllStarted
    <3>1. d.phase # "created"
      BY <1>1 DEF Outcome
    <3>2. AllStarted'
      BY <1>2, <1>3, <2>1, <3>1 DEF AllStarted
    <3> QED BY <3>2 DEF StartsBeforeAnswers
  <2>2. CASE ~ AllStarted
    <3>1. d.kept = {}
      BY <1>1, <2>2 DEF Outcome
    <3>2. \A j \in Here : trace[step][j].kept = {}
      BY <2>2 DEF IInv, StartsBeforeAnswers
    <3> QED BY <1>2, <3>1, <3>2 DEF StartsBeforeAnswers
  <2> QED BY <2>1, <2>2
<1>18. ExpandsWhatWasListed'
  <2> DEFINE X(id) == Call(id).kind = "expand" /\ Admitted(Call(id))
  <2>1. \A id \in CallIds : Call(id).kept \subseteq Call(id)'.kept
    BY <1>2, <1>3, <1>5
  <2>2. ASSUME NEW a \in CallIds, X(a)'
        PROVE  \E b \in CallIds : b[1] < a[1] /\ Call(a).arg \in Call(b).kept
    <3>1. CASE X(a)
      BY <3>1 DEF IInv, ExpandsWhatWasListed
    <3>2. CASE ~ X(a)
      <4>1. a = me /\ c.arg \in pool /\ MyTurnToStart(i)
        BY <1>3, <1>8, <1>9, <1>10, <1>11, <2>2, <3>2
      <4>2. ~ AllStarted
        BY <4>1 DEF MyTurnToStart, AllStarted
      <4>3. PICK b \in CallIds : c.arg \in Call(b).kept
        BY <4>1 DEF IInv, CreditedOnce
      <4>4. PICK s \in DOMAIN trace : \E j \in DOMAIN trace[s] : b = <<s, j>>
        BY DEF CallIds
      <4>5. PICK j \in DOMAIN trace[s] : b = <<s, j>>
        BY <4>4
      <4>6. s # step
        BY <4>2, <4>3, <4>5 DEF IInv, StartsBeforeAnswers, Call
      <4>7. s < step
        BY <4>6 DEF TypeOK
      <4> QED BY <1>3, <4>1, <4>3, <4>5, <4>7, <1>0
    <3> QED BY <3>1, <3>2
  <2> QED BY <1>2, <1>11, <2>1, <2>2 DEF ExpandsWhatWasListed
<1> QED
  BY <1>7, <1>12, <1>14, <1>15, <1>16, <1>17, <1>18 DEF IInv

(* A step that leaves the trace alone and ends the acting phase.            *)
LEMMA QuietKeepsIInv ==
  ASSUME TypeOK, IInv, UNCHANGED <<pool, expanded, history, trace>>, status' # "acting",
         status = "acting" => \A i \in Here : Settled(trace[step][i])
  PROVE  IInv'
<1>1. CallIds' = CallIds /\ \A id \in CallIds : Call(id)' = Call(id)
  BY DEF CallIds, Call
<1>2. SearchesRemembered'
  <2>1. ASSUME NEW id \in CallIds, id[1] = step, status = "acting" PROVE Settled(Call(id))
    BY <2>1 DEF CallIds, Call
  <2> QED BY <1>1, <2>1 DEF IInv, SearchesRemembered, Admitted, Settled
<1>3. StartsBeforeAnswers'
  BY DEF StartsBeforeAnswers
<1>4. CreditedOnce' /\ OnlyScoredKeeps'
  BY <1>1 DEF IInv, CreditedOnce, OnlyScoredKeeps
<1>5. ExpandedOnce' /\ QueryInOneStep' /\ ExpandsWhatWasListed'
  BY <1>1 DEF IInv, ExpandedOnce, QueryInOneStep, ExpandsWhatWasListed, Admitted
<1> QED
  BY <1>2, <1>3, <1>4, <1>5 DEF IInv

LEMMA NextKeepsIInv ==
  ASSUME TypeOK, IInv, [Next]_vars
  PROVE  IInv'
<1>1. CASE FinalStep
  <2>1. <<>> \in Seq(Calls) /\ DOMAIN <<>> = {}
    OBVIOUS
  <2>2. trace' = Append(trace, <<>>) /\ status = "choosing" /\ UNCHANGED <<pool, expanded, history>>
    BY <1>1 DEF FinalStep
  <2> QED BY <2>1, <2>2, AppendKeepsIInv
<1>2. CASE ExhaustSteps
  BY <1>2, QuietKeepsIInv DEF ExhaustSteps
<1>3. ASSUME NEW n \in 1 .. MaxEmittedCalls, NEW emitted \in [1 .. n -> ToolCalls],
             Dispatch(emitted)
      PROVE  IInv'
  <2>1. /\ TasksOf(emitted) \in Seq(Calls)
        /\ \A i \in DOMAIN TasksOf(emitted) :
             TasksOf(emitted)[i].kept = {} /\ TasksOf(emitted)[i].phase \in {"skipped", "created"}
    BY TasksType, ConstantsAssumption
  <2>2. /\ trace' = Append(trace, TasksOf(emitted)) /\ status = "choosing"
        /\ UNCHANGED <<pool, expanded, history>>
    BY <1>3 DEF Dispatch
  <2> QED BY <2>1, <2>2, AppendKeepsIInv
<1>4. ASSUME status = "acting", NEW i \in Here, Act(i)
      PROVE  IInv'
  BY <1>4, ActKeepsIInv
<1>5. CASE FinishStep
  BY <1>5, QuietKeepsIInv DEF FinishStep
<1>6. CASE UNCHANGED vars
  <2>1. CallIds' = CallIds /\ \A id \in CallIds : Call(id)' = Call(id)
    BY <1>6 DEF CallIds, Call, vars
  <2>2. CreditedOnce' /\ OnlyScoredKeeps' /\ SearchesRemembered' /\ StartsBeforeAnswers'
    BY <1>6, <2>1 DEF vars, IInv, CreditedOnce, OnlyScoredKeeps, SearchesRemembered,
                      StartsBeforeAnswers, Admitted, Settled, AllStarted
  <2>3. ExpandedOnce' /\ QueryInOneStep' /\ ExpandsWhatWasListed'
    BY <1>6, <2>1 DEF vars, IInv, ExpandedOnce, QueryInOneStep, ExpandsWhatWasListed, Admitted
  <2> QED BY <2>2, <2>3 DEF IInv
<1> QED
  BY <1>1, <1>2, <1>3, <1>4, <1>5, <1>6 DEF Next, Progress, Done, Act

(* Credit, expansion, queries and listing survive every segment of every   *)
(* coroutine, and every step of the loop.                                  *)
THEOREM InductiveInvariant == Spec => []IInv
<1>1. Init => IInv
  <2> SUFFICES ASSUME Init PROVE IInv
    OBVIOUS
  <2>1. CallIds = {}
    BY DEF Init, CallIds
  <2> QED
    BY <2>1 DEF Init, IInv, CreditedOnce, ExpandedOnce, QueryInOneStep, ExpandsWhatWasListed,
                OnlyScoredKeeps, SearchesRemembered, StartsBeforeAnswers
<1>2. TypeOK /\ IInv /\ [Next]_vars => IInv'
  BY NextKeepsIInv
<1> QED
  BY <1>1, <1>2, TypeCorrect, PTL DEF Spec

(* However the calls of a trajectory interleave, the pool is the disjoint   *)
(* union of what the calls kept: no paper is rewarded twice.                *)
THEOREM CreditSafe == Spec => []CreditedOnce
<1>1. IInv => CreditedOnce
  BY DEF IInv
<1> QED BY <1>1, InductiveInvariant, PTL

(* No paper is expanded by two calls, and the flags say which were.         *)
THEOREM ExpandSafe == Spec => []ExpandedOnce
<1>1. IInv => ExpandedOnce
  BY DEF IInv
<1> QED BY <1>1, InductiveInvariant, PTL

(* A query is sent in the calls of one step only.                           *)
THEOREM QuerySafe == Spec => []QueryInOneStep
<1>1. IInv => QueryInOneStep
  BY DEF IInv
<1> QED BY <1>1, InductiveInvariant, PTL

(* An expand is admitted only for a paper an earlier step added.            *)
THEOREM ListedSafe == Spec => []ExpandsWhatWasListed
<1>1. IInv => ExpandsWhatWasListed
  BY DEF IInv
<1> QED BY <1>1, InductiveInvariant, PTL

(* A step that appends calls that are skipped or created, none of which     *)
(* kept anything, is a stuttering step of the ledger.                       *)
LEMMA AppendStutters ==
  ASSUME TypeOK, NEW cs \in Seq(Calls), trace' = Append(trace, cs),
         \A i \in DOMAIN cs : cs[i].kept = {} /\ cs[i].phase \in {"skipped", "created"}
  PROVE  Credit' = Credit /\ Closed' = Closed
<1> DEFINE New == {<<step + 1, i>> : i \in DOMAIN cs}
<1>1. /\ Len(trace') = Len(trace) + 1
      /\ CallIds' = CallIds \cup New
      /\ \A id \in CallIds : Call(id)' = Call(id)
      /\ \A i \in DOMAIN cs : trace'[step + 1][i] = cs[i]
  BY AppendCalls
<1>2. \A id \in New : Call(id)'.kept = {} /\ Call(id)'.phase \in {"skipped", "created"}
  BY <1>1 DEF Call
<1> HIDE DEF New
<1>3. Credit' = Credit
  BY <1>1, <1>2 DEF Credit
<1>4. Closed' = Closed
  BY <1>1, <1>2 DEF Closed, Settled
<1> QED BY <1>3, <1>4

(* Every step of the flow is a step of the ledger or leaves it alone.       *)
THEOREM LedgerRefined == Spec => LedgerSpec
<1>1. Init => Ledger!LInit
  BY DEF Init, Ledger!LInit, Credit, Closed, CallIds
<1>2. ASSUME TypeOK, IInv, [Next]_vars
      PROVE  [Ledger!LNext]_<<Credit, Closed>>
  <2>1. CASE FinalStep
    <3>1. <<>> \in Seq(Calls) /\ DOMAIN <<>> = {} /\ trace' = Append(trace, <<>>)
      BY <2>1 DEF FinalStep
    <3> QED BY <1>2, <3>1, AppendStutters
  <2>2. ASSUME NEW n \in 1 .. MaxEmittedCalls, NEW emitted \in [1 .. n -> ToolCalls],
               Dispatch(emitted)
        PROVE  Credit' = Credit /\ Closed' = Closed
    <3>1. /\ TasksOf(emitted) \in Seq(Calls)
          /\ \A i \in DOMAIN TasksOf(emitted) :
               TasksOf(emitted)[i].kept = {} /\ TasksOf(emitted)[i].phase \in {"skipped", "created"}
      BY TasksType, ConstantsAssumption
    <3>2. trace' = Append(trace, TasksOf(emitted))
      BY <2>2 DEF Dispatch
    <3> QED BY <1>2, <3>1, <3>2, AppendStutters
  <2>3. CASE UNCHANGED trace
    <3>1. Credit' = Credit /\ Closed' = Closed
      BY <2>3 DEF Credit, Closed, CallIds, Call, Settled
    <3> QED BY <3>1
  <2>4. ASSUME status = "acting", NEW i \in Here, Act(i)
        PROVE  Ledger!LNext \/ (Credit' = Credit /\ Closed' = Closed)
    <3>0. PICK me, c : me = <<step, i>> /\ c = trace[step][i]
      OBVIOUS
    <3>1. PICK d \in Calls : trace' = [trace EXCEPT ![step][i] = d] /\ Outcome(i, d)
      BY <1>2, <2>4, ActOutcome
    <3>2. /\ CallIds' = CallIds
          /\ me \in CallIds
          /\ \A id \in CallIds : id # me => Call(id)' = Call(id)
          /\ trace'[step][i] = d
      BY <1>2, <2>4, <3>0, <3>1, MoveCalls
    <3>3. Call(me)' = d /\ Call(me) = c
      BY <3>0, <3>2 DEF Call
    <3>4. c.phase \in {"created", "fetching", "scoring"} /\ d.kept \cap pool = {} /\ d.kept \in SUBSET Papers
          /\ (d.kept # {} => d.phase = "scored") /\ d.phase # "skipped"
      BY <3>0, <3>1 DEF Outcome, MyTurnToStart, Calls
    <3>5. c.kept = {} /\ me \notin Closed
      BY <1>2, <3>2, <3>3, <3>4 DEF IInv, OnlyScoredKeeps, Closed, Settled
    <3>6. Credit' = Credit \cup ({me} \X d.kept)
      <4>1. \A id \in CallIds : Call(id)'.kept = IF id = me THEN d.kept ELSE Call(id).kept
        BY <3>2, <3>3
      <4> QED BY <3>2, <3>3, <3>5, <4>1 DEF Credit
    <3>7. CASE Settled(d)
      <4>1. Closed' = Closed \cup {me}
        BY <3>2, <3>3, <3>4, <3>7 DEF Closed, Settled
      <4>2. {x[2] : x \in Credit} \subseteq pool
        BY <1>2 DEF Credit, IInv, CreditedOnce
      <4>3. me \in (1 .. MaxSteps) \X (1 .. MaxParallelCalls)
        <5>1. step \in 1 .. MaxSteps /\ i \in 1 .. MaxParallelCalls
          BY <1>2, <2>4, ConstantsAssumption DEF ConstantsAssumption, TypeOK
        <5> QED BY <3>0, <5>1
      <4>4. Ledger!Close(me, d.kept)
        BY <3>4, <3>5, <3>6, <4>1, <4>2 DEF Ledger!Close, Ledger!Credited
      <4> QED BY <3>4, <4>3, <4>4 DEF Ledger!LNext
    <3>8. CASE ~ Settled(d)
      <4>1. Credit' = Credit
        BY <3>4, <3>6, <3>8 DEF Settled
      <4>2. Closed' = Closed
        BY <3>2, <3>3, <3>5, <3>8 DEF Closed, Settled
      <4> QED BY <4>1, <4>2
    <3> QED BY <3>7, <3>8
  <2> QED
    BY <1>2, <2>1, <2>2, <2>3, <2>4 DEF Next, Progress, Done, Act, ExhaustSteps, FinishStep, vars
<1> QED
  BY <1>1, <1>2, TypeCorrect, InductiveInvariant, PTL DEF Spec, LedgerSpec, Ledger!LSpec, Ledger!lvars

--------------------------------------------------------------------------------
(* Rewards.                                                                 *)

(* Of any number of papers that were kept there is a choice of the best.   *)
LEMMA BestExists ==
  ASSUME ConstantsAssumption, NEW kept \in SUBSET Papers, NEW k \in Nat,
         k <= Cardinality(kept)
  PROVE  \E top \in SUBSET kept :
           /\ Cardinality(top) = k
           /\ \A p \in top, q \in kept \ top : Score[p] >= Score[q]
<1> DEFINE Best(n, top) == /\ Cardinality(top) = n
                           /\ \A p \in top, q \in kept \ top : Score[p] >= Score[q]
           T == {n \in Nat : n <= k /\ ~\E top \in SUBSET kept : Best(n, top)}
<1>0. IsFiniteSet(kept) /\ Cardinality(kept) \in Nat /\ Score \in [Papers -> Nat]
  BY FS_Subset, FS_CardinalityType DEF ConstantsAssumption
<1> SUFFICES ASSUME ~\E top \in SUBSET kept : Best(k, top) PROVE FALSE
  OBVIOUS
<1>1. PICK m \in T : \A n \in T : m <= n
  <2>1. k \in T
    <3> HIDE DEF Best
    <3> QED OBVIOUS
  <2>2. T \subseteq Nat OBVIOUS
  <2> HIDE DEF T
  <2> QED BY <2>1, <2>2, NatLeast
<1>2. m \in Nat /\ m <= k /\ \A top \in SUBSET kept : ~Best(m, top) BY <1>1
<1>3. CASE m = 0
  <2>1. Best(0, {}) BY FS_EmptySet
  <2> HIDE DEF Best
  <2> QED BY <2>1, <1>2, <1>3
<1>4. CASE m # 0
  <2>1. PICK top \in SUBSET kept : Best(m - 1, top)
    <3>1. m - 1 \in Nat /\ m - 1 <= k /\ m - 1 \notin T
      <4>1. m - 1 \in Nat /\ m - 1 <= k /\ ~(m <= m - 1) BY <1>2, <1>4
      <4> HIDE DEF T
      <4> QED BY <4>1, <1>1
    <3> HIDE DEF Best
    <3> QED BY <3>1
  <2> DEFINE rest == kept \ top
  <2>2. IsFiniteSet(top) /\ IsFiniteSet(rest) BY <1>0, FS_Subset
  <2>3. rest # {}
    <3> SUFFICES ASSUME top = kept PROVE FALSE OBVIOUS
    <3> QED BY <2>1, <1>0, <1>2, <1>4
  <2>4. PICK q \in rest : \A x \in rest : Score[x] <= Score[q]
    <3> DEFINE f == [x \in rest |-> Score[x]]
    <3>1. f \in [rest -> Int] BY <1>0
    <3>2. \E q \in rest : \A x \in rest : f[x] <= f[q]
      <4> HIDE DEF f, rest
      <4> QED BY <3>1, <2>2, <2>3, Maximal
    <3> QED BY <3>2
  <2>5. Cardinality(top \cup {q}) = m
    <3>1. Cardinality(top \cup {q}) = Cardinality(top) + 1 BY <2>2, FS_AddElement
    <3> QED BY <3>1, <2>1, <1>2
  <2>6. \A p \in top \cup {q}, x \in kept \ (top \cup {q}) : Score[p] >= Score[x]
    <3>1. \A x \in kept : Score[x] \in Nat BY <1>0
    <3> QED BY <3>1, <2>1, <2>4
  <2>7. top \cup {q} \in SUBSET kept OBVIOUS
  <2> QED BY <2>5, <2>6, <2>7, <1>2
<1> QED BY <1>3, <1>4

LEMMA TopKKept ==
  ASSUME ConstantsAssumption, NEW kept \in SUBSET Papers
  PROVE  TopK(kept) \in SUBSET kept
<1> DEFINE k == IF Cardinality(kept) < RewardTopK THEN Cardinality(kept) ELSE RewardTopK
<1>1. Cardinality(kept) \in Nat /\ RewardTopK \in Nat
  BY FS_Subset, FS_CardinalityType DEF ConstantsAssumption
<1>2. k \in Nat /\ k <= Cardinality(kept) BY <1>1
<1>3. \E top \in SUBSET kept : /\ Cardinality(top) = k
                               /\ \A p \in top, q \in kept \ top : Score[p] >= Score[q]
  <2> HIDE DEF k
  <2> QED BY <1>2, BestExists
<1> QED BY <1>3 DEF TopK

(* What a set of papers is worth is the sum of one function on all papers. *)
LEMMA WorthIsSum ==
  ASSUME ConstantsAssumption
  PROVE  /\ [p \in Papers |-> Value(p)] \in [Papers -> Int]
         /\ \A p \in Papers : [q \in Papers |-> Value(q)][p] >= 0
         /\ \A S \in SUBSET Papers :
              Worth(S) = SumFunction([p \in S |-> [q \in Papers |-> Value(q)][p]])
<1>1. \A p \in Papers : Value(p) \in Nat
  BY DEF ConstantsAssumption, Value
<1>2. ASSUME NEW S \in SUBSET Papers
      PROVE  Worth(S) = SumFunction([p \in S |-> [q \in Papers |-> Value(q)][p]])
  <2>1. [p \in S |-> Value(p)] = [p \in S |-> [q \in Papers |-> Value(q)][p]] OBVIOUS
  <2> QED BY <2>1 DEF Worth
<1> QED BY <1>1, <1>2

(* A call is rewarded with no more than what it kept is worth.             *)
LEMMA CallBacked ==
  ASSUME ConstantsAssumption, NEW c \in Calls
  PROVE  CallReward(c) \in Int /\ CallReward(c) <= Worth(c.kept)
<1> DEFINE f == [p \in Papers |-> Value(p)]
<1>1. /\ f \in [Papers -> Int] /\ \A p \in Papers : f[p] >= 0
      /\ \A S \in SUBSET Papers : Worth(S) = SumFunction([p \in S |-> f[p]])
      /\ IsFiniteSet(Papers)
  BY WorthIsSum DEF ConstantsAssumption
<1> HIDE DEF f
<1>2. c.kept \in SUBSET Papers BY DEF Calls
<1>3. TopK(c.kept) \in SUBSET c.kept /\ TopK(c.kept) \in SUBSET Papers BY <1>2, TopKKept
<1>4. Worth(TopK(c.kept)) <= Worth(c.kept)
  <2> DEFINE U == TopK(c.kept)
             T == c.kept
  <2>1. U \in SUBSET T /\ T \in SUBSET Papers /\ U \in SUBSET Papers BY <1>2, <1>3
  <2> HIDE DEF U, T
  <2>2. SumFunction([y \in U |-> f[y]]) <= SumFunction([y \in T |-> f[y]])
    BY <1>1, <2>1, SumMonotone
  <2>3. Worth(U) <= Worth(T) BY <1>1, <2>1, <2>2
  <2> QED BY <2>3 DEF U, T
<1>5. \A S \in SUBSET Papers : Worth(S) \in Int /\ Worth(S) >= 0
  <2> TAKE S \in SUBSET Papers
  <2> DEFINE e == [p \in S |-> f[p]]
  <2>1. IsFiniteSet(S) BY <1>1, FS_Subset
  <2>2. e \in [S -> Int] /\ \A p \in S : e[p] >= 0 BY <1>1
  <2>3. Worth(S) = SumFunction(e) BY <1>1
  <2> HIDE DEF e
  <2> QED BY <2>1, <2>2, <2>3, SumInt, SumNonNegative
<1>6. PICK a \in Int, b \in Int : a = Worth(TopK(c.kept)) /\ b = Worth(c.kept) /\ a <= b /\ b >= 0
  BY <1>2, <1>3, <1>4, <1>5
<1>7. SearchCost \in Nat /\ ExpandCost \in Nat BY DEF ConstantsAssumption
<1>8. CASE c.phase = "penalised"
  BY <1>8, <1>6 DEF CallReward
<1>9. CASE c.phase = "scored" /\ c.kept # {}
  BY <1>9, <1>6, <1>7 DEF CallReward
<1>10. CASE ~(c.phase = "penalised") /\ ~(c.phase = "scored" /\ c.kept # {})
  BY <1>10, <1>6 DEF CallReward
<1> QED BY <1>8, <1>9, <1>10

StepKept(s) == UNION {trace[s][i].kept : i \in DOMAIN trace[s]}

LEMMA StepBacked ==
  ASSUME ConstantsAssumption, TypeOK, CreditedOnce, NEW s \in DOMAIN trace
  PROVE  /\ StepReward(s) \in Int /\ StepReward(s) <= Worth(StepKept(s))
         /\ StepKept(s) \in SUBSET Papers
<1> DEFINE f == [p \in Papers |-> Value(p)]
           S == DOMAIN trace[s]
           owned == [i \in S |-> trace[s][i].kept]
           e == [i \in S |-> CallReward(trace[s][i])]
<1>1. /\ f \in [Papers -> Int] /\ IsFiniteSet(Papers)
      /\ \A U \in SUBSET Papers : Worth(U) = SumFunction([p \in U |-> f[p]])
  BY WorthIsSum DEF ConstantsAssumption
<1>2. trace[s] \in Seq(Calls) BY DEF TypeOK
<1>3. IsFiniteSet(S)
  <2>1. Len(trace[s]) \in Int /\ S = 1..Len(trace[s]) BY <1>2
  <2> QED BY <2>1, FS_Interval
<1>4. \A i \in S : trace[s][i] \in Calls BY <1>2
<1>5. owned \in [S -> SUBSET Papers] BY <1>4 DEF Calls
<1>6. \A i, j \in S : i # j => owned[i] \cap owned[j] = {}
  <2> TAKE i, j \in S
  <2> HAVE i # j
  <2>1. <<s, i>> \in CallIds /\ <<s, j>> \in CallIds /\ <<s, i>> # <<s, j>> BY DEF CallIds
  <2>2. Call(<<s, i>>) = trace[s][i] /\ Call(<<s, j>>) = trace[s][j] BY DEF Call
  <2> QED BY <2>1, <2>2 DEF CreditedOnce
<1>7. e \in [S -> Int] /\ \A i \in S : e[i] <= SumFunction([p \in owned[i] |-> f[p]])
  <2>1. ASSUME NEW i \in S PROVE e[i] \in Int /\ e[i] <= SumFunction([p \in owned[i] |-> f[p]])
    <3>1. e[i] = CallReward(trace[s][i]) /\ owned[i] = trace[s][i].kept OBVIOUS
    <3>2. e[i] \in Int /\ e[i] <= Worth(owned[i]) BY <3>1, <1>4, CallBacked
    <3>3. owned[i] \in SUBSET Papers BY <1>5
    <3> HIDE DEF e, owned, f
    <3> QED BY <3>2, <3>3, <1>1
  <2> QED BY <2>1
<1>8. SumFunction(e) <= SumFunction([p \in UNION {owned[i] : i \in S} |-> f[p]])
  <2> HIDE DEF e, owned, f, S
  <2> QED BY <1>1, <1>3, <1>5, <1>6, <1>7, SumCover
<1>9. UNION {owned[i] : i \in S} = StepKept(s) BY DEF StepKept
<1>10. StepKept(s) \in SUBSET Papers
  <2>1. UNION {owned[i] : i \in S} \in SUBSET Papers
    <3> HIDE DEF owned, S
    <3> QED BY <1>5
  <2> QED BY <2>1, <1>9
<1>11. StepReward(s) = SumFunction(e) BY DEF StepReward
<1>12. SumFunction(e) \in Int
  <2> HIDE DEF e, S
  <2> QED BY <1>3, <1>7, SumInt
<1>13. Worth(StepKept(s)) = SumFunction([p \in UNION {owned[i] : i \in S} |-> f[p]])
  <2> HIDE DEF owned, f, S
  <2> QED BY <1>1, <1>9, <1>10
<1> HIDE DEF e, owned, f, S
<1> QED BY <1>8, <1>10, <1>11, <1>12, <1>13

LEMMA Backed ==
  ASSUME ConstantsAssumption, TypeOK, CreditedOnce
  PROVE  RewardBackedByPool
<1> DEFINE f == [p \in Papers |-> Value(p)]
           S == DOMAIN trace
           owned == [s \in S |-> StepKept(s)]
           e == [s \in S |-> StepReward(s)]
<1>1. /\ f \in [Papers -> Int] /\ IsFiniteSet(Papers)
      /\ \A U \in SUBSET Papers : Worth(U) = SumFunction([p \in U |-> f[p]])
  BY WorthIsSum DEF ConstantsAssumption
<1>2. IsFiniteSet(S)
  <2>1. Len(trace) \in Int /\ S = 1..Len(trace) BY DEF TypeOK
  <2> QED BY <2>1, FS_Interval
<1>3. owned \in [S -> SUBSET Papers] BY StepBacked
<1>4. \A s, t \in S : s # t => owned[s] \cap owned[t] = {}
  <2> TAKE s, t \in S
  <2> HAVE s # t
  <2>1. ASSUME NEW i \in DOMAIN trace[s], NEW j \in DOMAIN trace[t]
        PROVE  trace[s][i].kept \cap trace[t][j].kept = {}
    <3>1. <<s, i>> \in CallIds /\ <<t, j>> \in CallIds /\ <<s, i>> # <<t, j>> BY DEF CallIds
    <3>2. Call(<<s, i>>) = trace[s][i] /\ Call(<<t, j>>) = trace[t][j] BY DEF Call
    <3> QED BY <3>1, <3>2 DEF CreditedOnce
  <2> QED BY <2>1 DEF StepKept
<1>5. e \in [S -> Int] /\ \A s \in S : e[s] <= SumFunction([p \in owned[s] |-> f[p]])
  <2>1. ASSUME NEW s \in S PROVE e[s] \in Int /\ e[s] <= SumFunction([p \in owned[s] |-> f[p]])
    <3>1. e[s] = StepReward(s) /\ owned[s] = StepKept(s) OBVIOUS
    <3>2. e[s] \in Int /\ e[s] <= Worth(owned[s]) BY <3>1, StepBacked
    <3>3. owned[s] \in SUBSET Papers BY <1>3
    <3> HIDE DEF e, owned, f
    <3> QED BY <3>2, <3>3, <1>1
  <2> QED BY <2>1
<1>6. SumFunction(e) <= SumFunction([p \in UNION {owned[s] : s \in S} |-> f[p]])
  <2> HIDE DEF e, owned, f, S
  <2> QED BY <1>1, <1>2, <1>3, <1>4, <1>5, SumCover
<1>7. UNION {owned[s] : s \in S} = pool
  <2>1. pool = UNION {Call(id).kept : id \in CallIds} BY DEF CreditedOnce
  <2>2. \A s \in S : \A i \in DOMAIN trace[s] :
          <<s, i>> \in CallIds /\ Call(<<s, i>>) = trace[s][i]
    BY DEF CallIds, Call
  <2>3. \A id \in CallIds : \E s \in S : \E i \in DOMAIN trace[s] : id = <<s, i>>
    BY DEF CallIds
  <2>4. \A p : p \in pool <=> \E s \in S : \E i \in DOMAIN trace[s] : p \in trace[s][i].kept
    <3>1. \A p : p \in pool <=> \E id \in CallIds : p \in Call(id).kept BY <2>1
    <3>2. ASSUME NEW p, NEW id \in CallIds, p \in Call(id).kept
          PROVE  \E s \in S : \E i \in DOMAIN trace[s] : p \in trace[s][i].kept
      <4>0. PICK s \in S : \E i \in DOMAIN trace[s] : id = <<s, i>> BY <2>3
      <4>1. PICK i \in DOMAIN trace[s] : id = <<s, i>> BY <4>0
      <4>2. Call(id) = trace[s][i] BY <4>1, <2>2
      <4> QED BY <3>2, <4>2
    <3>3. ASSUME NEW p, NEW s \in S, NEW i \in DOMAIN trace[s], p \in trace[s][i].kept
          PROVE  \E id \in CallIds : p \in Call(id).kept
      BY <3>3, <2>2
    <3> HIDE DEF S
    <3> QED BY <3>1, <3>2, <3>3
  <2>5. \A p : p \in UNION {owned[s] : s \in S}
                <=> \E s \in S : \E i \in DOMAIN trace[s] : p \in trace[s][i].kept
    BY DEF StepKept
  <2> HIDE DEF owned, S
  <2> QED BY <2>4, <2>5
<1>8. TrajectoryReward = SumFunction(e) BY DEF TrajectoryReward
<1>9. Worth(pool) = SumFunction([p \in UNION {owned[s] : s \in S} |-> f[p]])
  <2>1. pool \in SUBSET Papers BY DEF TypeOK
  <2> HIDE DEF owned, f, S
  <2> QED BY <2>1, <1>1, <1>7
<1> HIDE DEF e, owned, f, S
<1> QED BY <1>6, <1>8, <1>9 DEF RewardBackedByPool

(* Whatever a trajectory is rewarded for is in its pool, and once.          *)
THEOREM RewardSafe == Spec => []RewardBackedByPool
<1>1. TypeOK /\ IInv => RewardBackedByPool
  BY ConstantsAssumption, Backed DEF IInv
<1> QED BY <1>1, TypeCorrect, InductiveInvariant, PTL

================================================================================
