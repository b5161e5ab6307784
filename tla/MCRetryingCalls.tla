-------------------------- MODULE MCRetryingCalls --------------------------
EXTENDS RetryingCalls

\* Three calls for one permit, one of them by the fallback; and one call of
\* each of the loops.
MCMixes == {<<"list", "list", "detail">>, <<"list", "select", "reward">>}
MCPermits == [p \in {"list", "detail"} |-> IF p = "list" THEN 1 ELSE 0]
MCAttempts == [k \in Kinds |-> IF k = "reward" THEN 3 ELSE 2]
=============================================================================
