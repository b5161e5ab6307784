----------------------------- MODULE MCEnvFlows -----------------------------
EXTENDS EnvFlows

\* "m" is both a colour and a size of p1.
MCOptions == [p \in {"p1", "p2", "p3"} |->
    CASE p = "p1" -> <<{"red", "m"}, {"m", "l"}>>
      [] p = "p2" -> <<{"red"}, {}>>
      [] p = "p3" -> <<{}, {}>>]
\* Two pages, one page, no result.
MCResults == [q \in {"many", "one", "none"} |->
    CASE q = "many" -> <<"p1", "p2", "p3">>
      [] q = "one" -> <<"p2">>
      [] q = "none" -> <<>>]
MCGoalOptions == <<{"red"}, {"l"}>>
MCMaxSteps == [k \in {"webshop", "alfworld", "hotpotqa"} |->
    CASE k = "webshop" -> 7 [] k = "alfworld" -> 7 [] k = "hotpotqa" -> 4]
MCTexts == [w \in {"question", "more", "other"} |->
    CASE w = "question" -> {"t1", "t2"}
      [] w = "more" -> {"t2", "t3"}
      [] w = "other" -> {}]
=============================================================================
