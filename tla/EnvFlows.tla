------------------------------ MODULE EnvFlows ------------------------------
(***************************************************************************)
(* The flows of the other recipes: WebShop, ALFWorld and HotpotQA.  Each is *)
(* a loop of generate, parse, act, append a row; `kind' says which one runs.*)
(* A trajectory shares nothing with the others, so that one iteration of   *)
(* the loop is one step.  The ALFWorld game and the search index are       *)
(* external: any answer they can give is taken.                            *)
(***************************************************************************)
EXTENDS WebShopEngine

CONSTANTS
    MaxSteps,     \* max_steps of each flow
    GameTurns,    \* max_episode_steps of an ALFWorld game
    Question,     \* the HotpotQA question
    Texts,        \* Texts[q]: the passages the index has for a query
    MaxCalls      \* max_parallel_calls

ASSUME FlowsAssumption ==
    /\ MaxSteps \in [{"webshop", "alfworld", "hotpotqa"} -> Nat \ {0}]
    /\ GameTurns \in Nat \ {0} /\ MaxCalls \in Nat \ {0}
    /\ Question \in DOMAIN Texts

VARIABLES
    kind,     \* which flow
    num,      \* num_steps
    over,     \* "no", or how the loop was left
    env,      \* the state of the environment: env_state, the game, passages
    shown,    \* the observation: what it shows of env, and the reports about
              \* invalid calls wrapped around it (HotpotQA: tool_feedback_lines)
    acts,     \* available_actions
    log,      \* the executor's own list of ALFWorld commands
    hist,     \* recent_history, history_actions
    rows      \* the reward of each row

vars == <<kind, num, over, env, shown, acts, log, hist, rows>>

Loop == over = "no" /\ num < MaxSteps[kind] /\ num' = num + 1 /\ UNCHANGED kind
Row(r) == rows' = Append(rows, r)
Reported == shown' = [shown EXCEPT !.reports = @ + 1]
-----------------------------------------------------------------------------
(* WebShopAgentFlow.run                                                    *)

ShopInit ==
    /\ env = Home /\ shown = [of |-> Page(Home), reports |-> 0]
    /\ acts = Listed(Home) /\ hist = <<>>

(* Mutant: a product that satisfies the goal is rewarded when it is seen.  *)
RewardOnSight(s) == IF Satisfied(s) THEN "success" ELSE "zero"
RewardOf(s) == IF s.page = "done" /\ Satisfied(s) THEN "success" ELSE "zero"

\* No call, several calls, another tool, or no command.
ShopInvalid ==
    /\ Reported /\ Row("penalty")
    /\ hist' = Append(hist, "invalid")
    /\ UNCHANGED <<over, env, acts, log>>

\* The observation is a new one, whatever was wrapped around the last.
ShopActs == \E c \in Commands :
    /\ env' = Step(env, c) /\ acts' = Listed(env')
    /\ shown' = [of |-> Page(env'), reports |-> 0]
    /\ over' = IF env'.page = "done" THEN "done" ELSE "no"
    /\ Row(RewardOf(env'))
    /\ hist' = Append(hist, "valid")
    /\ UNCHANGED log

(* Mutant: the error is what the model sees next.                          *)
ShowError == shown' = [shown EXCEPT !.of = <<"error">>]
ShowSame == UNCHANGED shown

\* The request fails, whether the server got it or not.
ShopFails ==
    /\ ShowSame /\ Row("zero")
    /\ UNCHANGED <<over, env, acts, log, hist>>

ShopStep == kind = "webshop" /\ Loop /\ (ShopInvalid \/ ShopActs \/ ShopFails)
-----------------------------------------------------------------------------
(* AlfworldAgentFlow.run; the game is external.                            *)

AlfInit ==
    /\ env = [turn |-> 0, won |-> FALSE]
    /\ shown = [of |-> 0, reports |-> 0] /\ acts = {} /\ hist = <<>>

(* Mutant: the executor returns its list, not a copy of it.                *)
LogShared == log' = Append(log, "invalid")
LogCopied == UNCHANGED log

AlfInvalid ==
    /\ Reported /\ Row("zero")
    /\ hist' = Append(hist, "invalid") /\ LogCopied
    /\ UNCHANGED <<over, env, acts>>

\* The game answers any command, admissible or not; it ends when it is won or
\* out of turns.  The row of the reward repeats the last prompt and response.
AlfActs == \E won \in BOOLEAN :
    /\ env' = [turn |-> env.turn + 1, won |-> won]
    /\ shown' = [of |-> env'.turn, reports |-> 0]
    /\ log' = Append(log, "valid") /\ hist' = log'
    /\ \/ /\ won \/ env'.turn = GameTurns
          /\ over' = "done"
          /\ rows' = rows \o <<"zero", IF won THEN "success" ELSE "zero">>
       \/ /\ ~won /\ env'.turn # GameTurns
          /\ Row("zero") /\ UNCHANGED over
    /\ UNCHANGED acts

\* An error of the game ends the trajectory; the command is in the log.
AlfRaises ==
    /\ log' = Append(log, "valid") /\ over' = "raised"
    /\ UNCHANGED <<env, shown, acts, hist, rows>>

AlfStep == kind = "alfworld" /\ Loop /\ (AlfInvalid \/ AlfActs \/ AlfRaises)
-----------------------------------------------------------------------------
(* HotpotQAAgentFlow.run; the index is external.                           *)

Words == DOMAIN Texts
CallSeqs == UNION {[1 .. k -> Words] : k \in 1 .. MaxCalls}
Known(ps) == {p.text : p \in ps}

(* Mutant: a passage found again is listed again.                          *)
FreshInBatch(ps, qs, i) ==
    Texts[qs[i]] \ UNION {Texts[qs[j]] : j \in 1 .. i - 1}
\* What the query at i adds to the passages and to the queries before it.
Fresh(ps, qs, i) ==
    {t \in Texts[qs[i]] : /\ t \notin Known(ps)
                          /\ \A j \in 1 .. i - 1 : t \notin Texts[qs[j]]}

\* _ingest_results of the queries, in their order
Ingested(ps, qs) ==
    ps \union UNION {{[query |-> qs[i], text |-> t] : t \in Fresh(ps, qs, i)} :
                        i \in DOMAIN qs}

\* A search that fails is remembered like one that finds nothing.
HotInit == \E first \in {<<>>, <<Question>>} :
    /\ env \in {{}, Ingested({}, first)} /\ hist = first
    /\ shown = [of |-> "state", reports |-> 0] /\ acts = {}

HotSearches == \E qs \in CallSeqs :
    /\ env' \in {env, Ingested(env, qs)}
    /\ hist' = hist \o qs /\ Row("zero")
    /\ UNCHANGED <<over, shown, acts, log>>

\* Calls with no usable query; the report of it is optional.
HotInvalid ==
    /\ Reported \/ UNCHANGED shown
    /\ Row("zero") /\ UNCHANGED <<over, env, acts, log, hist>>

\* No call at all is the answer, a call that cannot be parsed too.
HotAnswers ==
    /\ Reported \/ UNCHANGED shown
    /\ Row("judged") /\ over' = "answered"
    /\ UNCHANGED <<env, acts, log, hist>>

HotStep == kind = "hotpotqa" /\ Loop
           /\ (HotSearches \/ HotInvalid \/ HotAnswers)
-----------------------------------------------------------------------------
Init ==
    /\ num = 0 /\ over = "no" /\ rows = <<>> /\ log = <<>>
    /\ \/ kind = "webshop" /\ ShopInit
       \/ kind = "alfworld" /\ AlfInit
       \/ kind = "hotpotqa" /\ HotInit

Ended == (over # "no" \/ num = MaxSteps[kind]) /\ UNCHANGED vars

Next == ShopStep \/ AlfStep \/ HotStep \/ Ended

Spec == Init /\ [][Next]_vars
-----------------------------------------------------------------------------
(* Properties.                                                             *)

\* The prompt is about the state the next action is tried in: after any mix of
\* failed requests, invalid calls and refused clicks the page is the page of
\* env_state, and the listed actions are those of that page.
PromptIsCurrent ==
    over = "no" =>
        /\ kind = "webshop" => shown.of = Page(env) /\ acts = Listed(env)
        /\ kind = "alfworld" => shown.of = env.turn

LeadsWhereItSays(s, t, next) ==
    /\ t \in Products => Page(next) = <<"item", t, NothingChosen>>
    /\ t \in Values => /\ next.page = "item" /\ next.asin = s.asin
                       /\ \E n \in 1 .. Names : next.chosen[n] = t
    /\ t = "next >" => OnPage(next) # {}
    /\ t \in {"back to item", "buy now"} =>
          next.asin = s.asin /\ next.asin # None

\* Every action a page lists is accepted, and leads where its name says: a
\* product to its page with nothing chosen, a value to an option that has it, the
\* next page to results, and buying to a product that was being looked at.
ListedActionsWork ==
    kind = "webshop" => \A c \in Listed(env) :
        /\ ~Refuses(env, c)
        /\ c[1] = "click" => LeadsWhereItSays(env, c[2], Step(env, c))

\* What is bought has options of its own only, through searches, subpages and
\* other products looked at in between.
OptionsOfProduct ==
    kind = "webshop" /\ env.asin # None =>
        \A n \in 1 .. Names :
            env.chosen[n] \in Options[env.asin][n] \union {None}

Paid == {"success", "judged"}
Earned == CASE kind = "webshop" -> over = "done" /\ Satisfied(env)
            [] kind = "alfworld" -> over = "done" /\ env.won
            [] kind = "hotpotqa" -> over = "answered"

\* A trajectory is rewarded in one row, its last, and exactly when it earned it:
\* the goal was bought, the game won, an answer given.  An ALFWorld game that
\* ends has a row more than it has steps.
RewardWhereEarned ==
    /\ {i \in DOMAIN rows : rows[i] \in Paid} =
          IF Earned THEN {Len(rows)} ELSE {}
    /\ over # "raised" =>
          Len(rows) = IF kind = "alfworld" /\ over = "done" THEN num + 1 ELSE num

\* The history in an ALFWorld prompt is the commands the game has executed,
\* followed by the invalid calls since the last of them.
HistoryOfGame ==
    kind = "alfworld" /\ over # "raised" =>
        /\ Len(hist) >= env.turn
        /\ \A i \in DOMAIN hist : hist[i] = "valid" <=> i <= env.turn

\* A passage is listed once, under a query the history shows, whichever queries
\* of whichever calls found it.
PassagesOnce ==
    kind = "hotpotqa" =>
        /\ \A p, q \in env : p.text = q.text => p = q
        /\ \A p \in env : \E i \in DOMAIN hist : hist[i] = p.query
=============================================================================
