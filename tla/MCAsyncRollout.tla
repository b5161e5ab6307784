--------------------------- MODULE MCAsyncRollout ---------------------------
EXTENDS AsyncRollout

Conf(r, t, m, c, p) == [required : {r}, trigger : {t}, maxRequired : {m},
                        maxConcurrent : {c}, partial : p]

\* staleness_threshold 0, 0.5 and 1; more and fewer slots than the budget.
MCConfigs == Conf(1, 1, 1, 1, BOOLEAN) \union Conf(2, 1, 3, 1, BOOLEAN)
             \union Conf(1, 2, 2, 2, {TRUE}) \union Conf(1, 1, 2, 1, {FALSE})
             \union Conf(1, 1, 2, 2, BOOLEAN)

LongConfigs == MCConfigs \union Conf(2, 1, 3, 3, BOOLEAN)

SyncConfigs == Conf(1, 1, 2, 2, {FALSE})
HangConfigs == Conf(1, 1, 2, 2, {TRUE})
=============================================================================
