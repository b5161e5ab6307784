------------------------ MODULE RetryingCalls_proofs ------------------------
(***************************************************************************)
(* Proofs about RetryingCalls, for any calls, permits and attempts.        *)
(***************************************************************************)
EXTENDS RetryingCalls, FiniteSetTheorems, SequenceTheorems, TLAPS

Types ==
    /\ kind \in [Calls -> Kinds]
    /\ pc \in [Calls -> {"ready", "waiting", "sent", "backoff"} \union Ended]
    /\ answers \in [Calls -> Seq(Answers)]
    /\ free \in [Pools -> Nat] /\ queue \in [Pools -> Seq(Calls)]

\* A call that has not ended may ask again.
Outcomes ==
    /\ OutcomeOfLastAnswer
    /\ \A c \in Calls : pc[c] \notin Ended =>
          /\ Len(answers[c]) < Attempts[kind[c]]
          /\ \A i \in 1 .. Len(answers[c]) :
                answers[c][i] \in RetriedBy[kind[c]]

Inv == Types /\ PermitsConserved /\ Outcomes
-----------------------------------------------------------------------------
(* A call asks for one permit at most, of an existing semaphore.           *)
LEMMA OnePool ==
    ASSUME NEW c \in Calls, kind \in [Calls -> Kinds]
    PROVE  /\ PoolsOf(c) \subseteq Pools
           /\ \A p, q \in PoolsOf(c) : p = q
<1>1. kind[c] \in {"list", "detail", "select", "reward"}
  BY DEF Kinds
<1>2. Permits["detail"] > 0 \/ Permits["detail"] = 0
  BY CallsAssumption DEF Pools
<1>3. CASE kind[c] = "detail" /\ Permits["detail"] > 0
  BY <1>3 DEF PoolsOf, Pools
<1>4. CASE kind[c] = "detail" /\ Permits["detail"] = 0
  BY <1>4, CallsAssumption DEF PoolsOf, Pools
<1>5. CASE kind[c] = "list"
  BY <1>5 DEF PoolsOf, Pools
<1>6. CASE kind[c] \in {"select", "reward"}
  BY <1>6 DEF PoolsOf, Pools
<1> QED BY <1>1, <1>2, <1>3, <1>4, <1>5, <1>6

(* The head of a sequence leads it, and the tail has its other elements.   *)
LEMMA HeadAndTail ==
    ASSUME NEW S, NEW s \in Seq(S), s # <<>>
    PROVE  /\ Len(s) \in Nat \ {0} /\ DOMAIN s = 1 .. Len(s)
           /\ Head(s) = s[1] /\ Head(s) \in S /\ Tail(s) \in Seq(S)
           /\ DOMAIN Tail(s) = 1 .. Len(s) - 1
           /\ \A i \in 1 .. Len(s) - 1 : Tail(s)[i] = s[i + 1]
OBVIOUS

(* What is appended is last, and the others stay where they are.           *)
LEMMA Appended ==
    ASSUME NEW S, NEW s \in Seq(S), NEW x \in S
    PROVE  /\ Append(s, x) \in Seq(S) /\ Len(Append(s, x)) = Len(s) + 1
           /\ DOMAIN Append(s, x) = 1 .. Len(s) + 1
           /\ Len(s) \in Nat /\ DOMAIN s = 1 .. Len(s)
           /\ \A i \in 1 .. Len(s) : Append(s, x)[i] = s[i]
           /\ Append(s, x)[Len(s) + 1] = x
OBVIOUS

(* A call that is woken waited for the semaphore a permit came back to.    *)
LEMMA WokenWaited ==
    ASSUME Types, PermitsConserved, NEW c \in Calls,
           NEW d \in Woken(PoolsOf(c))
    PROVE  /\ d \in Calls /\ pc[d] = "waiting"
           /\ \E p \in PoolsOf(c) : /\ p \in PoolsOf(d) /\ queue[p] # <<>>
                                    /\ d = Head(queue[p])
<1>1. PICK p \in PoolsOf(c) : queue[p] # <<>> /\ d = Head(queue[p])
  BY DEF Woken, Waiting
<1>2. p \in Pools
  BY <1>1, OnePool DEF Types
<1>3. queue[p] \in Seq(Calls)
  BY <1>2 DEF Types
<1>4. 1 \in DOMAIN queue[p] /\ d = queue[p][1] /\ d \in Calls
  BY <1>1, <1>3, HeadAndTail
<1>5. pc[d] = "waiting" /\ p \in PoolsOf(d)
  BY <1>2, <1>4 DEF PermitsConserved
<1> QED BY <1>1, <1>4, <1>5

(* Whether a call is retried depends on its own answers only.              *)
LEMMA AfterType ==
    ASSUME Types, NEW c \in Calls, NEW a \in Answers
    PROVE  /\ After(c, a) \in {"backoff"} \union Ended
           /\ After(c, a) = "returned" => a = "ok"
           /\ After(c, a) = "raised" =>
                 a # "ok" /\ ~(a \in RetriedBy[kind[c]] /\ AttemptsLeft(c))
           /\ After(c, a) = "backoff" =>
                 a \in RetriedBy[kind[c]] /\ AttemptsLeft(c)
BY DEF After, Ended
-----------------------------------------------------------------------------
(* Type correctness of every step.                                         *)
LEMMA TypesInit == Init => Types
BY CallsAssumption DEF Init, Types, Kinds, Pools

LEMMA TypesNext == Types /\ PermitsConserved /\ [Next]_vars => Types'
<1> SUFFICES ASSUME Types, PermitsConserved, [Next]_vars PROVE Types'
  OBVIOUS
<1>1. ASSUME NEW c \in Calls, Send(c) PROVE Types'
  <2>1. PoolsOf(c) \subseteq Pools
    BY OnePool DEF Types
  <2>2. free' \in [Pools -> Nat]
    BY <1>1 DEF Send, Types
  <2> QED BY <1>1, <2>2 DEF Send, Types
<1>2. ASSUME NEW c \in Calls, Wait(c) PROVE Types'
  <2>1. PICK p \in PoolsOf(c) :
           queue' = [queue EXCEPT ![p] = Append(queue[p], c)]
    BY <1>2 DEF Wait
  <2>2. p \in Pools
    BY OnePool DEF Types
  <2>3. queue' \in [Pools -> Seq(Calls)]
    BY <2>1, <2>2, Appended DEF Types
  <2> QED BY <1>2, <2>3 DEF Wait, Types
<1>3. ASSUME NEW c \in Calls, NEW a \in Answers, Answer(c, a) PROVE Types'
  <2>1. free' \in [Pools -> Nat]
    BY <1>3 DEF Answer, Freed, Types
  <2>2. queue' \in [Pools -> Seq(Calls)]
    <3>1. ASSUME NEW p \in Pools
          PROVE  queue[p] # <<>> => Tail(queue[p]) \in Seq(Calls)
      BY HeadAndTail DEF Types
    <3> QED BY <1>3, <3>1 DEF Answer, Advanced, Waiting, Types
  <2>3. answers' \in [Calls -> Seq(Answers)]
    <3>1. Append(answers[c], a) \in Seq(Answers)
      BY Appended DEF Types
    <3> QED BY <1>3, <3>1 DEF Answer, Types
  <2>4. pc' \in [Calls -> {"ready", "waiting", "sent", "backoff"} \union Ended]
    BY <1>3, AfterType DEF Answer, Types
  <2> QED BY <1>3, <2>1, <2>2, <2>3, <2>4 DEF Answer, Types
<1>4. ASSUME NEW c \in Calls, Wake(c) PROVE Types'
  BY <1>4 DEF Wake, Types
<1>5. ASSUME UNCHANGED vars PROVE Types'
  BY <1>5 DEF vars, Types
<1> QED BY <1>1, <1>2, <1>3, <1>4, <1>5 DEF Next, Step
-----------------------------------------------------------------------------
(* The outcomes.                                                           *)
LEMMA OutcomesInit == Init => Outcomes
BY CallsAssumption DEF Init, Outcomes, OutcomeOfLastAnswer, Ended, Kinds

\* Calls whose answers do not change, and that do not end now.
LEMMA OutcomesKept ==
    ASSUME Types, Outcomes, kind' = kind, NEW c \in Calls,
           answers'[c] = answers[c],
           pc'[c] = pc[c] \/ (pc[c] \notin Ended /\ pc'[c] \notin Ended)
    PROVE  /\ Len(answers'[c]) <= Attempts[kind'[c]]
           /\ \A i \in 1 .. Len(answers'[c]) - 1 :
                 answers'[c][i] \in RetriedBy[kind'[c]]
           /\ pc'[c] = "returned" => /\ Len(answers'[c]) > 0
                                     /\ answers'[c][Len(answers'[c])] = "ok"
           /\ pc'[c] = "raised" =>
                 /\ Len(answers'[c]) > 0
                 /\ answers'[c][Len(answers'[c])] # "ok"
                 /\ answers'[c][Len(answers'[c])] \in RetriedBy[kind'[c]] =>
                       Len(answers'[c]) = Attempts[kind'[c]]
           /\ pc'[c] \notin Ended =>
                 /\ Len(answers'[c]) < Attempts[kind'[c]]
                 /\ \A i \in 1 .. Len(answers'[c]) :
                       answers'[c][i] \in RetriedBy[kind'[c]]
BY DEF Outcomes, OutcomeOfLastAnswer, Ended

LEMMA OutcomesNext == Inv /\ [Next]_vars => Outcomes'
<1> SUFFICES ASSUME Inv, [Next]_vars PROVE Outcomes'
  OBVIOUS
<1> USE DEF Inv
<1>1. ASSUME NEW c \in Calls, Send(c) \/ Wait(c) \/ Wake(c) PROVE Outcomes'
  <2>1. kind' = kind /\ answers' = answers
    BY <1>1 DEF Send, Wait, Wake
  <2>2. \A d \in Calls : pc'[d] = pc[d] \/ (/\ pc[d] \notin Ended
                                            /\ pc'[d] \notin Ended)
    BY <1>1 DEF Send, Wait, Wake, Ended, Types
  <2> QED BY <2>1, <2>2, OutcomesKept DEF Outcomes, OutcomeOfLastAnswer
<1>2. ASSUME NEW c \in Calls, NEW a \in Answers, Answer(c, a) PROVE Outcomes'
  <2> DEFINE n == Len(answers[c])
  <2>1. /\ kind' = kind /\ pc[c] = "sent" /\ pc'[c] = After(c, a)
        /\ answers'[c] = Append(answers[c], a)
    BY <1>2 DEF Answer, Types
  <2>2. ASSUME NEW d \in Calls \ {c}
        PROVE  /\ answers'[d] = answers[d]
               /\ pc'[d] = pc[d] \/ (/\ pc[d] \notin Ended
                                     /\ pc'[d] \notin Ended)
    <3>1. answers'[d] = answers[d]
      BY <1>2 DEF Answer, Types
    <3>2. CASE d \in Woken(Back(c, a))
      <4>1. pc[d] = "waiting"
        BY <3>2, WokenWaited DEF Back
      <4>2. pc'[d] = "sent"
        BY <1>2, <3>2 DEF Answer
      <4> QED BY <3>1, <4>1, <4>2 DEF Ended
    <3>3. CASE d \notin Woken(Back(c, a))
      BY <1>2, <3>1, <3>3 DEF Answer
    <3> QED BY <3>2, <3>3
  <2>3. /\ n \in Nat /\ n < Attempts[kind[c]] /\ Attempts[kind[c]] \in Nat
        /\ \A i \in 1 .. n : answers[c][i] \in RetriedBy[kind[c]]
    <3>1. n \in Nat
      <4>1. answers[c] \in Seq(Answers)
        BY DEF Types
      <4> QED BY <4>1
    <3>2. Attempts[kind[c]] \in Nat
      BY CallsAssumption DEF Types
    <3>3. pc[c] \notin Ended
      BY <2>1 DEF Ended
    <3> QED BY <3>1, <3>2, <3>3 DEF Outcomes
  <2>4. /\ Len(answers'[c]) = n + 1 /\ answers'[c][n + 1] = a
        /\ \A i \in 1 .. n : answers'[c][i] = answers[c][i]
    BY <2>1, Appended DEF Types
  <2>5. /\ After(c, a) \in {"backoff"} \union Ended
        /\ After(c, a) = "returned" => a = "ok"
        /\ After(c, a) = "raised" =>
              a # "ok" /\ ~(a \in RetriedBy[kind[c]] /\ n + 1 < Attempts[kind[c]])
        /\ After(c, a) = "backoff" =>
              a \in RetriedBy[kind[c]] /\ n + 1 < Attempts[kind[c]]
    BY AfterType DEF AttemptsLeft
  <2>6. /\ Len(answers'[c]) <= Attempts[kind'[c]]
        /\ \A i \in 1 .. Len(answers'[c]) - 1 :
              answers'[c][i] \in RetriedBy[kind'[c]]
        /\ pc'[c] = "returned" => /\ Len(answers'[c]) > 0
                                  /\ answers'[c][Len(answers'[c])] = "ok"
        /\ pc'[c] = "raised" =>
              /\ Len(answers'[c]) > 0
              /\ answers'[c][Len(answers'[c])] # "ok"
              /\ answers'[c][Len(answers'[c])] \in RetriedBy[kind'[c]] =>
                    Len(answers'[c]) = Attempts[kind'[c]]
        /\ pc'[c] \notin Ended =>
              /\ Len(answers'[c]) < Attempts[kind'[c]]
              /\ \A i \in 1 .. Len(answers'[c]) :
                    answers'[c][i] \in RetriedBy[kind'[c]]
    BY <2>1, <2>3, <2>4, <2>5 DEF Ended
  <2> QED BY <2>1, <2>2, <2>6, OutcomesKept DEF Outcomes, OutcomeOfLastAnswer
<1>3. ASSUME UNCHANGED vars PROVE Outcomes'
  BY <1>3 DEF vars, Outcomes, OutcomeOfLastAnswer
<1> QED BY <1>1, <1>2, <1>3 DEF Next, Step
-----------------------------------------------------------------------------
(* The permits.                                                            *)
LEMMA PermitsInit == Init => PermitsConserved
<1> SUFFICES ASSUME Init PROVE PermitsConserved
  OBVIOUS
<1>1. ASSUME NEW p \in Pools
      PROVE  /\ free[p] + Cardinality(Holders(p)) = Permits[p]
             /\ queue[p] = <<>>
  <2>1. Holders(p) = {}
    BY DEF Holders, Init
  <2> QED BY <2>1, FS_EmptySet, CallsAssumption DEF Init
<1> QED BY <1>1 DEF PermitsConserved, Init

\* The conjuncts of PermitsConserved, for one semaphore and in the next state.
NextPermits(p) ==
    /\ free'[p] + Cardinality(Holders(p)') = Permits[p]
    /\ queue'[p] # <<>> => free'[p] = 0
    /\ \A c \in Calls : pc'[c] = "waiting" /\ p \in PoolsOf(c)' <=>
                        \E i \in DOMAIN queue'[p] : queue'[p][i] = c
    /\ \A i, j \in DOMAIN queue'[p] : queue'[p][i] = queue'[p][j] => i = j

(* A call more, or one less, under way.                                    *)
LEMMA HoldersFinite ==
    ASSUME NEW p \in Pools
    PROVE  /\ IsFiniteSet(Holders(p)) /\ Cardinality(Holders(p)) \in Nat
           /\ \A c \in Calls \ Holders(p) :
                 Cardinality(Holders(p) \union {c}) = Cardinality(Holders(p)) + 1
           /\ \A c \in Holders(p) :
                 /\ IsFiniteSet(Holders(p) \ {c})
                 /\ Cardinality(Holders(p) \ {c}) = Cardinality(Holders(p)) - 1
<1>1. IsFiniteSet(Holders(p))
  BY CallsAssumption, FS_Subset DEF Holders
<1> QED BY <1>1, FS_CardinalityType, FS_AddElement, FS_RemoveElement

LEMMA SendPermits ==
    ASSUME Inv, NEW c \in Calls, Send(c), NEW p \in Pools
    PROVE  NextPermits(p)
<1> USE DEF Inv
<1>0. /\ kind' = kind /\ queue' = queue /\ pc[c] = "ready"
      /\ \A d \in Calls : pc'[d] = IF d = c THEN "sent" ELSE pc[d]
      /\ free[p] \in Nat /\ free \in [Pools -> Nat]
  BY DEF Send, Types, Ended
<1>1. \A d \in Calls : PoolsOf(d)' = PoolsOf(d)
  BY <1>0 DEF PoolsOf
<1>2. /\ queue'[p] # <<>> => free[p] = 0
      /\ \A i, j \in DOMAIN queue'[p] : queue'[p][i] = queue'[p][j] => i = j
      /\ \A d \in Calls : pc'[d] = "waiting" /\ p \in PoolsOf(d)' <=>
                          \E i \in DOMAIN queue'[p] : queue'[p][i] = d
  BY <1>0, <1>1 DEF PermitsConserved
<1>3. CASE p \in PoolsOf(c)
  <2>1. free'[p] = free[p] - 1 /\ queue[p] = <<>>
    BY <1>3 DEF Send
  <2>2. Holders(p)' = Holders(p) \union {c} /\ c \notin Holders(p)
    BY <1>0, <1>1, <1>3 DEF Holders
  <2>3. Cardinality(Holders(p)') = Cardinality(Holders(p)) + 1
    BY <2>2, HoldersFinite
  <2>4. free'[p] + Cardinality(Holders(p)') = Permits[p]
    <3>1. /\ Cardinality(Holders(p)) \in Nat
          /\ free[p] + Cardinality(Holders(p)) = Permits[p]
      BY HoldersFinite DEF PermitsConserved
    <3> QED BY <1>0, <2>1, <2>3, <3>1
  <2>5. queue'[p] = <<>>
    BY <1>0, <2>1
  <2> QED BY <1>2, <2>4, <2>5 DEF NextPermits
<1>4. CASE p \notin PoolsOf(c)
  <2>1. free'[p] = free[p]
    BY <1>4 DEF Send
  <2>2. Holders(p)' = Holders(p)
    BY <1>0, <1>1, <1>4 DEF Holders
  <2> QED BY <1>2, <2>1, <2>2 DEF NextPermits, PermitsConserved
<1> QED BY <1>3, <1>4

LEMMA WaitPermits ==
    ASSUME Inv, NEW c \in Calls, Wait(c), NEW p \in Pools
    PROVE  NextPermits(p)
<1> USE DEF Inv
<1>0. /\ kind' = kind /\ free' = free /\ pc[c] = "ready"
      /\ \A d \in Calls : pc'[d] = IF d = c THEN "waiting" ELSE pc[d]
  BY DEF Wait, Types, Ended
<1>1. \A d \in Calls : PoolsOf(d)' = PoolsOf(d)
  BY <1>0 DEF PoolsOf
<1>2. Holders(p)' = Holders(p)
  BY <1>0, <1>1 DEF Holders
<1>3. PICK q \in PoolsOf(c) : /\ free[q] = 0 \/ queue[q] # <<>>
                              /\ queue' = [queue EXCEPT ![q] = Append(@, c)]
  BY DEF Wait
<1>4. ~\E i \in DOMAIN queue[p] : queue[p][i] = c
  BY <1>0 DEF PermitsConserved
<1>5. q \in Pools /\ (p \in PoolsOf(c) <=> p = q)
  BY <1>3, OnePool DEF Types
<1>6. CASE p = q
  <2>1. /\ queue[p] \in Seq(Calls) /\ queue'[p] = Append(queue[p], c)
    BY <1>3, <1>5, <1>6 DEF Types
  <2> DEFINE n == Len(queue[p])
  <2>2. /\ n \in Nat /\ DOMAIN queue[p] = 1 .. n /\ DOMAIN queue'[p] = 1 .. n + 1
        /\ \A i \in 1 .. n : queue'[p][i] = queue[p][i]
        /\ queue'[p][n + 1] = c
    BY <2>1, Appended
  <2>3. free'[p] = 0
    BY <1>0, <1>3, <1>6 DEF PermitsConserved
  <2>4. \A i, j \in DOMAIN queue'[p] : queue'[p][i] = queue'[p][j] => i = j
    <3>1. \A i \in 1 .. n + 1 : i \in 1 .. n \/ i = n + 1
      BY <2>2
    <3>2. \A i, j \in 1 .. n : queue[p][i] = queue[p][j] => i = j
      BY <2>2 DEF PermitsConserved
    <3> QED BY <3>1, <3>2, <2>2, <1>4
  <2>5. ASSUME NEW d \in Calls
        PROVE  pc'[d] = "waiting" /\ p \in PoolsOf(d)' <=>
               \E i \in DOMAIN queue'[p] : queue'[p][i] = d
    <3>1. CASE d = c
      <4>1. n + 1 \in DOMAIN queue'[p]
        BY <2>2
      <4> QED BY <3>1, <4>1, <2>2, <1>0, <1>1, <1>3, <1>6
    <3>2. CASE d # c
      <4>1. (\E i \in DOMAIN queue'[p] : queue'[p][i] = d) <=>
            \E i \in DOMAIN queue[p] : queue[p][i] = d
        BY <3>2, <2>2
      <4> QED BY <3>2, <4>1, <1>0, <1>1 DEF PermitsConserved
    <3> QED BY <3>1, <3>2
  <2> QED BY <1>0, <1>2, <2>3, <2>4, <2>5 DEF NextPermits, PermitsConserved
<1>7. CASE p # q
  <2>1. queue'[p] = queue[p] /\ p \notin PoolsOf(c)
    BY <1>3, <1>5, <1>7 DEF Types
  <2> QED BY <1>0, <1>1, <1>2, <2>1 DEF NextPermits, PermitsConserved
<1> QED BY <1>6, <1>7

LEMMA AnswerPermits ==
    ASSUME Inv, NEW c \in Calls, NEW a \in Answers, Answer(c, a),
           NEW p \in Pools
    PROVE  NextPermits(p)
<1> USE DEF Inv
<1> DEFINE W == Woken(PoolsOf(c))
<1>0. /\ kind' = kind /\ pc[c] = "sent" /\ free[p] \in Nat
      /\ pc' = [d \in Calls |-> IF d = c THEN After(c, a)
                                ELSE IF d \in W THEN "sent" ELSE pc[d]]
      /\ free'[p] = IF p \in PoolsOf(c) /\ queue[p] = <<>>
                    THEN free[p] + 1 ELSE free[p]
      /\ queue'[p] = IF p \in PoolsOf(c) /\ queue[p] # <<>>
                     THEN Tail(queue[p]) ELSE queue[p]
      /\ queue[p] \in Seq(Calls)
  BY DEF Answer, Back, Freed, Advanced, Waiting, Types
<1>1. \A d \in Calls : PoolsOf(d)' = PoolsOf(d)
  BY <1>0 DEF PoolsOf
<1>2. After(c, a) \notin {"sent", "waiting"}
  BY AfterType DEF Ended
<1>3. \A d \in W : d \in Calls /\ pc[d] = "waiting" /\ d # c
  BY WokenWaited, <1>0
<1>4. CASE p \notin PoolsOf(c)
  <2>1. \A d \in W : p \notin PoolsOf(d)
    <3> TAKE d \in W
    <3>1. PICK q \in PoolsOf(c) : q \in PoolsOf(d)
      BY WokenWaited
    <3> QED BY <3>1, <1>3, <1>4, OnePool DEF Types
  <2>2. Holders(p)' = Holders(p)
    BY <1>0, <1>1, <1>2, <1>4, <2>1 DEF Holders
  <2>3. \A d \in Calls : pc'[d] = "waiting" /\ p \in PoolsOf(d)' <=>
                         pc[d] = "waiting" /\ p \in PoolsOf(d)
    BY <1>0, <1>1, <1>2, <1>4, <2>1
  <2> QED BY <1>0, <1>4, <2>2, <2>3 DEF NextPermits, PermitsConserved
<1>5. CASE p \in PoolsOf(c) /\ queue[p] = <<>>
  <2>1. W = {}
    <3>1. PoolsOf(c) = {p}
      <4>1. kind \in [Calls -> Kinds]
        BY DEF Types
      <4>2. \A q, r \in PoolsOf(c) : q = r
        BY <4>1, OnePool
      <4>3. p \in PoolsOf(c)
        BY <1>5
      <4> HIDE DEF Inv
      <4> QED BY <4>2, <4>3
    <3> QED BY <1>5, <3>1 DEF Woken, Waiting
  <2>2. Holders(p)' = Holders(p) \ {c} /\ c \in Holders(p)
    BY <1>0, <1>1, <1>2, <1>5, <2>1 DEF Holders
  <2>3. Cardinality(Holders(p)') = Cardinality(Holders(p)) - 1
    BY <2>2, HoldersFinite
  <2>4. \A d \in Calls : pc'[d] = "waiting" /\ p \in PoolsOf(d)' <=>
                         pc[d] = "waiting" /\ p \in PoolsOf(d)
    BY <1>0, <1>1, <1>2, <2>1
  <2> QED BY <1>0, <1>5, <2>3, <2>4, HoldersFinite
          DEF NextPermits, PermitsConserved
<1>6. CASE p \in PoolsOf(c) /\ queue[p] # <<>>
  <2> DEFINE h == Head(queue[p])
             n == Len(queue[p])
  <2>1. /\ n \in Nat \ {0} /\ DOMAIN queue[p] = 1 .. n /\ h = queue[p][1]
        /\ h \in Calls /\ queue'[p] = Tail(queue[p])
        /\ DOMAIN queue'[p] = 1 .. n - 1
        /\ \A i \in 1 .. n - 1 : queue'[p][i] = queue[p][i + 1]
    BY <1>0, <1>6, HeadAndTail
  <2>2. W = {h}
    <3>1. PoolsOf(c) = {p}
      <4>1. kind \in [Calls -> Kinds]
        BY DEF Types
      <4>2. \A q, r \in PoolsOf(c) : q = r
        BY <4>1, OnePool
      <4>3. p \in PoolsOf(c)
        BY <1>6
      <4> HIDE DEF Inv
      <4> QED BY <4>2, <4>3
    <3> QED BY <1>6, <3>1 DEF Woken, Waiting
  <2>3. pc[h] = "waiting" /\ p \in PoolsOf(h) /\ h # c
    BY <2>1, <1>0 DEF PermitsConserved
  <2>4. Holders(p)' = (Holders(p) \ {c}) \union {h}
    BY <1>0, <1>1, <1>2, <2>1, <2>2, <2>3 DEF Holders
  <2>5. c \in Holders(p) /\ h \notin Holders(p)
    BY <1>0, <1>6, <2>3 DEF Holders
  <2>6. Cardinality(Holders(p)') = Cardinality(Holders(p))
    <3>1. /\ IsFiniteSet(Holders(p) \ {c}) /\ h \notin Holders(p) \ {c}
          /\ Cardinality(Holders(p) \ {c}) = Cardinality(Holders(p)) - 1
          /\ Cardinality(Holders(p)) \in Nat
      BY <2>5, HoldersFinite
    <3>2. Cardinality((Holders(p) \ {c}) \union {h}) =
             Cardinality(Holders(p) \ {c}) + 1
      BY <3>1, FS_AddElement
    <3> QED BY <2>4, <3>1, <3>2
  <2>7. \A i, j \in 1 .. n : queue[p][i] = queue[p][j] => i = j
    BY <2>1 DEF PermitsConserved
  <2>8. \A i, j \in DOMAIN queue'[p] : queue'[p][i] = queue'[p][j] => i = j
    <3> TAKE i, j \in DOMAIN queue'[p]
    <3> HAVE queue'[p][i] = queue'[p][j]
    <3>1. i + 1 \in 1 .. n /\ j + 1 \in 1 .. n
      BY <2>1
    <3>2. queue[p][i + 1] = queue[p][j + 1]
      BY <2>1
    <3>3. i + 1 = j + 1
      BY <3>1, <3>2, <2>7
    <3> QED BY <3>3, <2>1
  <2>9. ASSUME NEW d \in Calls
        PROVE  (\E i \in DOMAIN queue'[p] : queue'[p][i] = d) <=>
               d # h /\ \E i \in DOMAIN queue[p] : queue[p][i] = d
    <3>1. ASSUME NEW i \in DOMAIN queue'[p], queue'[p][i] = d
          PROVE  d # h /\ \E j \in DOMAIN queue[p] : queue[p][j] = d
      <4>1. i + 1 \in 1 .. n /\ 1 \in 1 .. n /\ i + 1 # 1
        BY <2>1
      <4>2. queue[p][i + 1] = d
        BY <2>1, <3>1
      <4> QED BY <4>1, <4>2, <2>1, <2>7
    <3>2. ASSUME NEW i \in DOMAIN queue[p], queue[p][i] = d, d # h
          PROVE  \E j \in DOMAIN queue'[p] : queue'[p][j] = d
      <4>1. i # 1
        BY <2>1, <3>2
      <4>2. i - 1 \in 1 .. n - 1 /\ (i - 1) + 1 = i
        BY <2>1, <4>1
      <4>3. queue'[p][i - 1] = queue[p][(i - 1) + 1]
        BY <2>1, <4>2
      <4> QED BY <2>1, <3>2, <4>2, <4>3
    <3> QED BY <3>1, <3>2
  <2>10. \A d \in Calls : pc'[d] = "waiting" /\ p \in PoolsOf(d)' <=>
                          d # h /\ pc[d] = "waiting" /\ p \in PoolsOf(d)
    BY <1>0, <1>1, <1>2, <2>2, <2>3
  <2>11. free[p] = 0 /\ free'[p] = free[p]
    BY <1>0, <1>6 DEF PermitsConserved
  <2> QED BY <2>6, <2>8, <2>9, <2>10, <2>11 DEF NextPermits, PermitsConserved
<1> QED BY <1>4, <1>5, <1>6

LEMMA WakePermits ==
    ASSUME Inv, NEW c \in Calls, Wake(c) \/ UNCHANGED vars, NEW p \in Pools
    PROVE  NextPermits(p)
<1>1. /\ kind' = kind /\ queue' = queue /\ free' = free
      /\ \A d \in Calls : pc'[d] = pc[d] \/ {pc'[d], pc[d]} = {"ready", "backoff"}
  BY DEF Wake, vars, Inv, Types
<1>2. \A d \in Calls : PoolsOf(d)' = PoolsOf(d)
  BY <1>1 DEF PoolsOf
<1>3. \A d \in Calls : /\ pc'[d] = "waiting" <=> pc[d] = "waiting"
                       /\ pc'[d] = "sent" <=> pc[d] = "sent"
  BY <1>1
<1>4. Holders(p)' = Holders(p)
  BY <1>2, <1>3 DEF Holders
<1> QED BY <1>1, <1>2, <1>3, <1>4 DEF NextPermits, PermitsConserved, Inv

LEMMA PermitsNext == Inv /\ [Next]_vars => PermitsConserved'
<1> SUFFICES ASSUME Inv, [Next]_vars, NEW p \in Pools PROVE NextPermits(p)
  BY DEF PermitsConserved, NextPermits
<1>1. CASE \E c \in Calls : Step(c)
  BY <1>1, SendPermits, WaitPermits, AnswerPermits, WakePermits DEF Step
<1>2. CASE UNCHANGED vars /\ Calls # {}
  BY <1>2, WakePermits
<1>3. CASE UNCHANGED vars /\ Calls = {}
  BY <1>3 DEF vars, NextPermits, PermitsConserved, Inv, Holders, PoolsOf
<1> QED BY <1>1, <1>2, <1>3 DEF Next
-----------------------------------------------------------------------------
LEMMA InvHolds == Spec => []Inv
<1>1. Init => Inv
  BY TypesInit, PermitsInit, OutcomesInit DEF Inv
<1>2. Inv /\ [Next]_vars => Inv'
  BY TypesNext, PermitsNext, OutcomesNext DEF Inv
<1> QED BY <1>1, <1>2, PTL DEF Spec

(* Permits are used by requests under way only, and none is lost.          *)
THEOREM Permitted == Spec => []PermitsConserved
<1>1. Inv => PermitsConserved
  BY DEF Inv
<1> QED BY <1>1, InvHolds, PTL

(* A call comes to what its last request came to, and gives up for a reason. *)
THEOREM LastAnswerCounts == Spec => []OutcomeOfLastAnswer
<1>1. Inv => OutcomeOfLastAnswer
  BY DEF Inv, Outcomes
<1> QED BY <1>1, InvHolds, PTL
=============================================================================
