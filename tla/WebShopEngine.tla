--------------------------- MODULE WebShopEngine ---------------------------
(***************************************************************************)
(* The WebShop environment (recipe/webshop/env/engine.py).  The server     *)
(* keeps no session: a step is a function of the state the client sends    *)
(* with it, so that a request that is lost or answered in vain changes     *)
(* nothing.  Names, queries and option values are strings.                 *)
(***************************************************************************)
EXTENDS Naturals, Sequences

CONSTANTS
    Products, Queries, Values,
    Names,        \* option names are 1 .. Names, in the order of a product
    Options,      \* Options[p][n]: the values product p has for option n
    Results,      \* Results[q]: the products a query finds, best first
    Window,       \* PRODUCT_WINDOW
    Good,         \* products whose type, attributes and price satisfy the goal
    GoalOptions   \* GoalOptions[n]: the values of option n the goal accepts

None == ""
\* "features" is one more of them.
Subpages == {"description", "reviews"}
Controls == {"buy now", "back to search", "back to item", "next >", "< prev"}

ASSUME ShopAssumption ==
    /\ Names \in Nat /\ Window \in Nat \ {0}
    /\ Options \in [Products -> [1 .. Names -> SUBSET Values]]
    /\ Results \in [Queries -> Seq(Products)]
    /\ Good \subseteq Products
    /\ GoalOptions \in [1 .. Names -> SUBSET Values]
    /\ None \notin Products \union Queries \union Values
    /\ Products \intersect (Values \union Subpages \union Controls) = {}
    /\ Values \intersect (Subpages \union Controls) = {}

Commands == ({"search"} \X (Queries \union {None}))
            \union ({"click"} \X (Products \union Values \union Subpages
                                    \union Controls))
            \union {<<"unparsed", None>>}

NothingChosen == [n \in 1 .. Names |-> None]

\* EnvState
Home == [page |-> "home", query |-> None, num |-> 0, asin |-> None,
         sub |-> None, chosen |-> NothingChosen]

Hits(q) == IF q = None THEN <<>> ELSE Results[q]
OnPage(s) == {Hits(s.query)[i] : i \in {j \in DOMAIN Hits(s.query) :
                                           (j - 1) \div Window = s.num}}
Offered(p) == UNION {Options[p][n] : n \in 1 .. Names}

\* _option_lookup: a value two options share belongs to the last of them.
OptionOf(p, v) == CHOOSE n \in 1 .. Names :
                     /\ v \in Options[p][n]
                     /\ \A m \in n + 1 .. Names : v \notin Options[p][m]
-----------------------------------------------------------------------------
(* Mutant: one page too many.                                              *)
HasNextOrLast(s) == s.num * Window < Len(Hits(s.query))
HasNext(s) == (s.num + 1) * Window < Len(Hits(s.query))

\* available_actions
Listed(s) ==
    LET clicks ==
            CASE s.page = "results" ->
                    OnPage(s) \union {t \in {"< prev"} : s.num > 0}
                              \union {t \in {"next >"} : HasNext(s)}
              [] s.page = "item" ->
                    Subpages \union Offered(s.asin)
                             \union {"back to search", "buy now"}
              [] s.page = "subpage" ->
                    {"back to item", "back to search", "buy now"}
              [] s.page \in {"home", "done"} -> {}
    IN IF s.page = "done" THEN {}
       ELSE ({"search"} \X Queries) \union ({"click"} \X clicks)

\* _render_current: what of the state can be read on the page.
Page(s) == CASE s.page = "home" -> <<"home">>
             [] s.page = "results" -> <<"results", s.query, s.num>>
             [] s.page = "item" -> <<"item", s.asin, s.chosen>>
             [] s.page = "subpage" -> <<"subpage", s.asin, s.sub>>
             [] s.page = "done" -> <<"Episode complete.">>

\* compute_reward >= 0.999
Satisfied(s) == /\ s.asin \in Good
                /\ \A n \in 1 .. Names :
                      GoalOptions[n] # {} => s.chosen[n] \in GoalOptions[n]
-----------------------------------------------------------------------------
(* Mutant: the options chosen for another product are kept.                *)
KeepChosen(s) == s.chosen
ChosenFor(s) == NothingChosen

\* The clicks, in the order the code tries them.
Accepts(s, t) ==
    \/ t \in Products \union {"buy now", "back to search", "back to item"}
    \/ t \in {"next >", "< prev"} /\ s.page = "results"
    \/ t \in Subpages /\ s.asin # None
    \/ s.asin # None /\ t \in Offered(s.asin)

Clicked(s, t) ==
    CASE t = "buy now" -> [s EXCEPT !.page = "done"]
      [] t = "back to search" ->
            [s EXCEPT !.page = IF s.query = None THEN "home" ELSE "results",
                      !.sub = None]
      [] t = "back to item" /\ s.asin = None -> s
      [] t = "back to item" /\ s.asin # None ->
            [s EXCEPT !.page = "item", !.sub = None]
      [] t = "next >" -> [s EXCEPT !.num = @ + 1]
      [] t = "< prev" -> [s EXCEPT !.num = IF @ = 0 THEN 0 ELSE @ - 1]
      [] t \in Products ->
            [s EXCEPT !.page = "item", !.asin = t, !.sub = None,
                      !.chosen = ChosenFor(s)]
      [] t \in Subpages -> [s EXCEPT !.page = "subpage", !.sub = t]
      [] t \in Values ->
            [s EXCEPT !.page = "item", !.sub = None,
                      !.chosen[OptionOf(s.asin, t)] = t]

\* A search forgets the product, but not the options chosen for it.
Searched(s, q) == [s EXCEPT !.page = "results", !.query = q, !.num = 0,
                            !.asin = None, !.sub = None]

Refuses(s, c) == c[1] = "unparsed" \/ (c[1] = "click" /\ ~Accepts(s, c[2]))

\* WebShopEngine.step
Step(s, c) == CASE Refuses(s, c) -> s
                [] c[1] = "search" -> Searched(s, c[2])
                [] c[1] = "click" /\ ~Refuses(s, c) -> Clicked(s, c[2])
=============================================================================
