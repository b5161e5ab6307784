--------------------------- MODULE RetryingCalls ---------------------------
(***************************************************************************)
(* The requests of one trajectory to the services: PaperSearchClient       *)
(* ("list" and "detail"), SelectorClient ("select") and the reward model   *)
(* ("reward"), each retried by its own loop.  The paper clients hold a      *)
(* permit of a semaphore while a request is under way and give it back     *)
(* before they sleep.  The services are external: any answer, none too.    *)
(***************************************************************************)
EXTENDS Integers, Sequences, FiniteSets

CONSTANTS
    Calls,      \* the calls that may run at the same time
    Mixes,      \* what kinds of calls they are: each mix gives the kind of each
    Permits,    \* max_concurrency, max_detail_concurrency; 0: no semaphore
    Attempts    \* max_retries + 1, or max_retries of _post_request

Kinds == {"list", "detail", "select", "reward"}
Pools == {"list", "detail"}

ASSUME CallsAssumption ==
    /\ IsFiniteSet(Calls)
    /\ Mixes \subseteq [Calls -> Kinds]
    /\ Permits \in [Pools -> Nat] /\ Attempts \in [Kinds -> Nat \ {0}]

VARIABLES
    kind,       \* the mix
    pc,         \* where each call is
    answers,    \* what its requests came to, in order: their number is attempt
    free,       \* the semaphores' values
    queue       \* and their waiters

vars == <<kind, pc, answers, free, queue>>

\* 200 with a usable body, 200 without, 429, other 4xx, 503, other 5xx (for the
\* selector 500, 502 and 504: it takes the rest like an other 4xx), and an
\* exception: no connection, a broken one, a timeout.
Answers == {"ok", "garbled", "limited", "refused", "busy", "error", "lost"}

RetriedBy == [k \in Kinds |->
    CASE k \in {"list", "detail"} -> {"busy", "lost"}
      [] k = "select" -> {"limited", "busy", "error", "lost"}
      [] k = "reward" -> {"garbled", "busy", "error", "lost"}]

\* A detail request without a semaphore of its own uses the other one.
PoolsOf(c) ==
    CASE kind[c] = "detail" /\ Permits["detail"] > 0 -> {"detail"}
      [] kind[c] = "detail" /\ Permits["detail"] = 0 ->
            {p \in {"list"} : Permits[p] > 0}
      [] kind[c] = "list" -> {p \in {"list"} : Permits[p] > 0}
      [] kind[c] \in {"select", "reward"} -> {}

Ended == {"returned", "raised"}
-----------------------------------------------------------------------------
(* asyncio.Semaphore, external: a permit given back goes to the call that  *)
(* has waited longest, which sends its request when it runs next.          *)

(* Mutant: nobody is woken.                                                *)
Unwoken(p) == <<>>
Waiting(p) == queue[p]

\* free, queue and who sends next when a permit of every pool in ps is back.
Freed(ps) == [p \in Pools |-> IF p \in ps /\ Waiting(p) = <<>>
                              THEN free[p] + 1 ELSE free[p]]
Advanced(ps) == [p \in Pools |-> IF p \in ps /\ Waiting(p) # <<>>
                                 THEN Tail(queue[p]) ELSE queue[p]]
Woken(ps) == {Head(queue[p]) : p \in {q \in ps : Waiting(q) # <<>>}}
-----------------------------------------------------------------------------
Init ==
    /\ kind \in Mixes
    /\ pc = [c \in Calls |-> "ready"] /\ answers = [c \in Calls |-> <<>>]
    /\ free = Permits /\ queue = [p \in Pools |-> <<>>]

\* The start of an attempt, up to the request or the queue for a permit.
Send(c) ==
    /\ pc[c] = "ready"
    /\ \A p \in PoolsOf(c) : free[p] > 0 /\ queue[p] = <<>>
    /\ pc' = [pc EXCEPT ![c] = "sent"]
    /\ free' = [p \in Pools |-> IF p \in PoolsOf(c) THEN free[p] - 1
                                                    ELSE free[p]]
    /\ UNCHANGED <<kind, answers, queue>>

Wait(c) ==
    /\ pc[c] = "ready"
    /\ \E p \in PoolsOf(c) :
          /\ free[p] = 0 \/ queue[p] # <<>>
          /\ queue' = [queue EXCEPT ![p] = Append(@, c)]
    /\ pc' = [pc EXCEPT ![c] = "waiting"]
    /\ UNCHANGED <<kind, answers, free>>

(* Mutant: an exception skips the release.                                 *)
BackUnlessLost(c, a) == IF a = "lost" THEN {} ELSE PoolsOf(c)
\* finally: semaphore.release()
Back(c, a) == PoolsOf(c)

(* Mutant: one request more than there are attempts.                       *)
OneMore(c) == Len(answers[c]) <= Attempts[kind[c]]
AttemptsLeft(c) == Len(answers[c]) + 1 < Attempts[kind[c]]

\* A bad status that is not retried is returned; raise_for_status raises then,
\* and so does the caller that cannot use the body.
After(c, a) ==
    CASE a \in RetriedBy[kind[c]] /\ AttemptsLeft(c) -> "backoff"
      [] a = "ok" -> "returned"
      [] a # "ok" /\ ~(a \in RetriedBy[kind[c]] /\ AttemptsLeft(c)) -> "raised"

Answer(c, a) ==
    LET ps == Back(c, a)
    IN /\ pc[c] = "sent" /\ UNCHANGED kind
       /\ answers' = [answers EXCEPT ![c] = Append(@, a)]
       /\ free' = Freed(ps) /\ queue' = Advanced(ps)
       /\ pc' = [d \in Calls |-> IF d = c THEN After(c, a)
                                 ELSE IF d \in Woken(ps) THEN "sent" ELSE pc[d]]

\* The delay, a Retry-After of the service included, is over.
Wake(c) ==
    /\ pc[c] = "backoff" /\ pc' = [pc EXCEPT ![c] = "ready"]
    /\ UNCHANGED <<kind, answers, free, queue>>

Step(c) == Send(c) \/ Wait(c) \/ Wake(c) \/ \E a \in Answers : Answer(c, a)

Next == \E c \in Calls : Step(c)

\* Coroutines run and delays end.  httpx gives every request a timeout, so that
\* it comes to something; a request to the reward model has none.
Fairness ==
    \A c \in Calls :
        /\ WF_vars(Send(c) \/ Wait(c) \/ Wake(c))
        /\ WF_vars(kind[c] # "reward" /\ \E a \in Answers : Answer(c, a))

Spec == Init /\ [][Next]_vars /\ Fairness
-----------------------------------------------------------------------------
(* Properties.                                                             *)

Holders(p) == {c \in Calls : pc[c] = "sent" /\ p \in PoolsOf(c)}

\* A semaphore is used up only by requests under way, however they end: never
\* more of them than permits, no permit is lost to an exception or a sleeping
\* call, and no call waits, or waits twice, while one is free.
PermitsConserved ==
    \A p \in Pools :
        /\ free[p] + Cardinality(Holders(p)) = Permits[p]
        /\ queue[p] # <<>> => free[p] = 0
        /\ \A c \in Calls : pc[c] = "waiting" /\ p \in PoolsOf(c) <=>
                            \E i \in DOMAIN queue[p] : queue[p][i] = c
        /\ \A i, j \in DOMAIN queue[p] : queue[p][i] = queue[p][j] => i = j

\* What a call comes to is what its last request came to, and it gives up for
\* one of two reasons: an answer that asking again would not change, or the
\* last of its attempts.
OutcomeOfLastAnswer ==
    \A c \in Calls :
        LET n == Len(answers[c])
            last == answers[c][n]
        IN /\ n <= Attempts[kind[c]]
           /\ \A i \in 1 .. n - 1 : answers[c][i] \in RetriedBy[kind[c]]
           /\ pc[c] = "returned" => n > 0 /\ last = "ok"
           /\ pc[c] = "raised" =>
                 /\ n > 0 /\ last # "ok"
                 /\ last \in RetriedBy[kind[c]] => n = Attempts[kind[c]]

\* Every call ends, whatever the services do and however many calls share the
\* permits; only a request to the reward model may stay unanswered for ever.
CallsEnd ==
    \A c \in Calls :
        <>[](pc[c] \in Ended \/ (kind[c] = "reward" /\ pc[c] = "sent"))
=============================================================================
