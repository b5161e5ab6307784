--------------------------- MODULE EnvFlows_proofs ---------------------------
(***************************************************************************)
(* Proofs about EnvFlows, for any shop, any limits and any index.          *)
(***************************************************************************)
EXTENDS EnvFlows, WellFoundedInduction, TLAPS

EnvStates ==
    [page : {"home", "results", "item", "subpage", "done"},
     query : Queries \union {None}, num : Nat, asin : Products \union {None},
     sub : Subpages \union {None},
     chosen : [1 .. Names -> Values \union {None}]]

OwnOptions(s) ==
    s.asin # None => \A n \in 1 .. Names :
                        s.chosen[n] \in Options[s.asin][n] \union {None}

OfProduct(s) == s.page \in {"item", "subpage"} => s.asin # None

ShopInv == /\ env \in EnvStates /\ OwnOptions(env) /\ OfProduct(env)
           /\ over \in {"no", "done"}

Turns(k) == [i \in 1 .. k |-> "valid"]

AlfInv ==
    /\ env \in [turn : Nat, won : BOOLEAN]
    /\ over \in {"no", "done", "raised"}
    /\ over # "raised" => log = Turns(env.turn)
    /\ hist \in Seq({"valid", "invalid"}) /\ log \in Seq({"valid", "invalid"})

HotInv ==
    /\ env \in SUBSET [query : Words, text : UNION {Texts[w] : w \in Words}]
    /\ hist \in Seq(Words) /\ over \in {"no", "answered"}

Rewards == {"zero", "penalty", "success", "judged"}

Inv ==
    /\ kind \in {"webshop", "alfworld", "hotpotqa"}
    /\ num \in Nat /\ rows \in Seq(Rewards)
    /\ shown = [of |-> shown.of, reports |-> shown.reports]
    /\ kind = "webshop" => ShopInv
    /\ kind = "alfworld" => AlfInv
    /\ kind = "hotpotqa" => HotInv
    /\ PromptIsCurrent /\ RewardWhereEarned
    /\ HistoryOfGame /\ PassagesOnce
-----------------------------------------------------------------------------
(* Of the options that offer a value, there is a last one: it is the one a *)
(* click on the value sets.                                                *)
LEMMA LastOption ==
    ASSUME NEW p \in Products, NEW v \in Offered(p)
    PROVE  OptionOf(p, v) \in 1 .. Names /\ v \in Options[p][OptionOf(p, v)]
<1> DEFINE T == {n \in Nat : n < Names /\ v \in Options[p][Names - n]}
<1>1. Names \in Nat
  BY ShopAssumption
<1>2. PICK m \in 1 .. Names : v \in Options[p][m]
  BY DEF Offered
<1>3. Names - m \in T
  <2>1. Names - (Names - m) = m /\ Names - m \in Nat /\ Names - m < Names
    BY <1>1
  <2> QED BY <2>1, <1>2
<1>4. \E x \in T : \A y \in T : ~(<<y, x>> \in OpToRel(<, Nat))
  <2>1. T \subseteq Nat /\ T # {}
    BY <1>3
  <2> HIDE DEF T
  <2> QED BY <2>1, NatLessThanWellFounded, WFMin
<1>5. PICK x \in T : \A y \in T : ~(<<y, x>> \in OpToRel(<, Nat))
  BY <1>4
<1>6. \A y \in T : ~(y < x)
  BY <1>5 DEF OpToRel
<1>7. /\ Names - x \in 1 .. Names /\ v \in Options[p][Names - x]
      /\ \A n \in (Names - x) + 1 .. Names : v \notin Options[p][n]
  <2>1. Names - x \in 1 .. Names
    BY <1>1
  <2>2. ASSUME NEW n \in (Names - x) + 1 .. Names, v \in Options[p][n]
        PROVE  FALSE
    <3>1. Names - n \in Nat /\ Names - n < x /\ Names - n < Names
          /\ Names - (Names - n) = n
      BY <1>1, <2>1
    <3> QED BY <3>1, <2>2, <1>6
  <2> QED BY <2>1, <2>2
<1> QED BY <1>7 DEF OptionOf

(* The names of things the shop shows do not clash.                        *)
LEMMA NamesApart ==
    /\ None \notin Products /\ None \notin Values
    /\ \A t \in Products : /\ t \notin Values /\ t \notin Subpages
                           /\ t \notin Controls
    /\ \A t \in Values : t \notin Subpages /\ t \notin Controls
    /\ \A t \in Subpages : t \notin Controls
BY ShopAssumption DEF Subpages, Controls, None

LEMMA OfferedValues ==
    ASSUME NEW p \in Products
    PROVE  Offered(p) \subseteq Values
BY ShopAssumption DEF Offered

(* The home page has no product and nothing chosen.                        *)
LEMMA HomeState == Home \in EnvStates /\ OwnOptions(Home) /\ OfProduct(Home)
BY ShopAssumption DEF Home, EnvStates, OwnOptions, OfProduct, NothingChosen

(* A click keeps the state well-formed, and its choices those of its       *)
(* product.                                                                *)
LEMMA ClickedState ==
    ASSUME NEW s \in EnvStates, OwnOptions(s),
           NEW t \in Products \union Values \union Subpages \union Controls,
           Accepts(s, t)
    PROVE  Clicked(s, t) \in EnvStates /\ OwnOptions(Clicked(s, t))
<1>1. CASE t \in Controls
  <2>1. /\ t \notin Products /\ t \notin Values /\ t \notin Subpages
        /\ t \in {"buy now", "back to search", "back to item", "next >", "< prev"}
    BY <1>1, NamesApart DEF Controls
  <2>2. CASE t = "buy now"
    BY <2>1, <2>2 DEF Clicked, EnvStates, OwnOptions
  <2>3. CASE t = "back to search"
    <3>1. Clicked(s, t) =
             [s EXCEPT !.page = IF s.query = None THEN "home" ELSE "results",
                       !.sub = None]
      BY <2>1, <2>3 DEF Clicked
    <3> QED BY <3>1 DEF EnvStates, OwnOptions
  <2>4. CASE t = "back to item"
    <3>1. Clicked(s, t) = IF s.asin = None THEN s
                          ELSE [s EXCEPT !.page = "item", !.sub = None]
      BY <2>1, <2>4 DEF Clicked
    <3> QED BY <3>1 DEF EnvStates, OwnOptions
  <2>5. CASE t = "next >"
    <3>1. Clicked(s, t) = [s EXCEPT !.num = s.num + 1]
      BY <2>1, <2>5 DEF Clicked
    <3> QED BY <3>1 DEF EnvStates, OwnOptions
  <2>6. CASE t = "< prev"
    <3>1. Clicked(s, t) = [s EXCEPT !.num = IF s.num = 0 THEN 0 ELSE s.num - 1]
      BY <2>1, <2>6 DEF Clicked
    <3> QED BY <3>1 DEF EnvStates, OwnOptions
  <2> QED BY <2>1, <2>2, <2>3, <2>4, <2>5, <2>6
<1>2. CASE t \in Products
  <2>1. Clicked(s, t) = [s EXCEPT !.page = "item", !.asin = t, !.sub = None,
                                  !.chosen = NothingChosen]
    BY <1>2, NamesApart DEF Clicked, ChosenFor, Controls
  <2>2. NothingChosen \in [1 .. Names -> Values \union {None}]
    BY DEF NothingChosen
  <2>3. Clicked(s, t) \in EnvStates
    BY <1>2, <2>1, <2>2 DEF EnvStates
  <2>4. Clicked(s, t).chosen = NothingChosen
    BY <2>1 DEF EnvStates
  <2> QED BY <2>3, <2>4 DEF OwnOptions, NothingChosen
<1>3. CASE t \in Subpages
  <2>1. Clicked(s, t) = [s EXCEPT !.page = "subpage", !.sub = t]
    BY <1>3, NamesApart DEF Clicked, Controls
  <2> QED BY <1>3, <2>1 DEF EnvStates, OwnOptions
<1>4. CASE t \in Values
  <2> DEFINE n == OptionOf(s.asin, t)
  <2>1. /\ Clicked(s, t) = [s EXCEPT !.page = "item", !.sub = None,
                                     !.chosen[n] = t]
    BY <1>4, NamesApart DEF Clicked, Controls
  <2>2. s.asin # None /\ t \in Offered(s.asin) /\ s.asin \in Products
    BY <1>4, NamesApart DEF Accepts, Controls, EnvStates
  <2>3. n \in 1 .. Names /\ t \in Options[s.asin][n]
    BY <2>2, LastOption
  <2> HIDE DEF n
  <2>4. s.chosen \in [1 .. Names -> Values \union {None}]
    BY DEF EnvStates
  <2>5. Clicked(s, t) \in EnvStates
    <3> DEFINE chosen == [s.chosen EXCEPT ![n] = t]
    <3>1. chosen \in [1 .. Names -> Values \union {None}]
      BY <1>4, <2>3, <2>4
    <3>2. Clicked(s, t) = [s EXCEPT !.page = "item", !.sub = None,
                                    !.chosen = chosen]
      BY <2>1
    <3> HIDE DEF chosen
    <3> QED BY <3>1, <3>2 DEF EnvStates
  <2>6. OwnOptions(Clicked(s, t))
    <3>1. Clicked(s, t).asin = s.asin
      BY <2>1 DEF EnvStates
    <3>2. \A m \in 1 .. Names :
             Clicked(s, t).chosen[m] = IF m = n THEN t ELSE s.chosen[m]
      BY <2>1, <2>3, <2>4 DEF EnvStates
    <3> QED BY <2>2, <2>3, <3>1, <3>2 DEF OwnOptions
  <2> QED BY <2>5, <2>6
<1> QED BY <1>1, <1>2, <1>3, <1>4

(* So does every action the server is sent.                                *)
LEMMA StepState ==
    ASSUME NEW s \in EnvStates, OwnOptions(s), NEW c \in Commands
    PROVE  Step(s, c) \in EnvStates /\ OwnOptions(Step(s, c))
<1>1. CASE Refuses(s, c)
  <2>1. c[1] = "unparsed" \/ c[1] = "click"
    BY <1>1 DEF Refuses
  <2>2. Step(s, c) = s
    BY <1>1, <2>1 DEF Step
  <2> QED BY <2>2
<1>2. CASE ~Refuses(s, c) /\ c[1] = "search"
  <2>1. c[2] \in Queries \union {None}
    BY <1>2 DEF Commands
  <2>2. Step(s, c) = Searched(s, c[2])
    BY <1>2 DEF Step
  <2>3. Searched(s, c[2]) = [s EXCEPT !.page = "results", !.query = c[2],
                                      !.num = 0, !.asin = None, !.sub = None]
    BY DEF Searched
  <2> DEFINE q == c[2]
  <2>4. q \in Queries \union {None}
    BY <2>1
  <2> HIDE DEF q
  <2>5. [s EXCEPT !.page = "results", !.query = q, !.num = 0, !.asin = None,
                  !.sub = None] \in EnvStates
    BY <2>4 DEF EnvStates
  <2>6. [s EXCEPT !.page = "results", !.query = q, !.num = 0, !.asin = None,
                  !.sub = None].asin = None
    BY DEF EnvStates
  <2> QED BY <2>2, <2>3, <2>5, <2>6 DEF OwnOptions, q
<1>3. CASE ~Refuses(s, c) /\ c[1] = "click"
  <2>1. /\ c[2] \in Products \union Values \union Subpages \union Controls
        /\ Accepts(s, c[2])
    BY <1>3 DEF Commands, Refuses
  <2>2. Step(s, c) = Clicked(s, c[2])
    BY <1>3 DEF Step
  <2> QED BY <2>1, <2>2, ClickedState
<1>4. c[1] \in {"search", "click", "unparsed"}
  BY DEF Commands
<1>5. c[1] = "unparsed" => Refuses(s, c)
  BY DEF Refuses
<1>6. CASE c[1] = "unparsed"
  BY <1>1, <1>5, <1>6
<1>7. CASE c[1] = "search" \/ c[1] = "click"
  BY <1>1, <1>2, <1>3, <1>7
<1> QED BY <1>4, <1>6, <1>7

(* A page about a product has one.                                         *)
LEMMA StepProduct ==
    ASSUME NEW s \in EnvStates, OfProduct(s), NEW c \in Commands
    PROVE  OfProduct(Step(s, c))
<1>1. CASE Refuses(s, c)
  <2>1. c[1] = "unparsed" \/ c[1] = "click"
    BY <1>1 DEF Refuses
  <2>2. Step(s, c) = s
    BY <1>1, <2>1 DEF Step
  <2> QED BY <2>2
<1>2. CASE ~Refuses(s, c) /\ c[1] = "search"
  <2>1. Step(s, c) = Searched(s, c[2])
    BY <1>2 DEF Step
  <2>2. Searched(s, c[2]).page = "results"
    BY DEF Searched, EnvStates
  <2> QED BY <2>1, <2>2 DEF OfProduct
<1>3. CASE ~Refuses(s, c) /\ c[1] = "click"
  <2> DEFINE t == c[2]
  <2>1. /\ t \in Products \union Values \union Subpages \union Controls
        /\ Accepts(s, t) /\ Step(s, c) = Clicked(s, t)
    BY <1>3 DEF Commands, Refuses, Step
  <2> HIDE DEF t
  <2>2. CASE t \in Products
    <3>1. Clicked(s, t).asin = t
      BY <2>2, NamesApart DEF Clicked, Controls, EnvStates
    <3> QED BY <2>1, <2>2, <3>1, NamesApart DEF OfProduct
  <2>3. CASE t \in Subpages
    <3>1. s.asin # None
      BY <2>1, <2>3, NamesApart DEF Accepts, Controls
    <3>2. Clicked(s, t).asin = s.asin
      BY <2>3, NamesApart DEF Clicked, Controls, EnvStates
    <3> QED BY <2>1, <3>1, <3>2 DEF OfProduct
  <2>4. CASE t \in Values
    <3>1. s.asin # None
      BY <2>1, <2>4, NamesApart DEF Accepts, Controls
    <3>2. Clicked(s, t).asin = s.asin
      BY <2>4, NamesApart DEF Clicked, Controls, EnvStates
    <3> QED BY <2>1, <3>1, <3>2 DEF OfProduct
  <2>5. CASE t \in Controls
    <3>1. /\ t \notin Products /\ t \notin Values /\ t \notin Subpages
          /\ t \in {"buy now", "back to search", "back to item", "next >", "< prev"}
      BY <2>5, NamesApart DEF Controls
    <3>2. CASE t = "buy now"
      <4>1. Clicked(s, t).page = "done"
        BY <3>1, <3>2 DEF Clicked, EnvStates
      <4> QED BY <2>1, <4>1 DEF OfProduct
    <3>3. CASE t = "back to search"
      <4>1. Clicked(s, t).page \in {"home", "results"}
        BY <3>1, <3>3 DEF Clicked, EnvStates
      <4> QED BY <2>1, <4>1 DEF OfProduct
    <3>4. CASE t = "back to item"
      <4>1. Clicked(s, t) = IF s.asin = None THEN s
                            ELSE [s EXCEPT !.page = "item", !.sub = None]
        BY <3>1, <3>4 DEF Clicked
      <4>2. Clicked(s, t).asin = s.asin
            /\ (s.asin = None => Clicked(s, t) = s)
        BY <4>1 DEF EnvStates
      <4> QED BY <2>1, <4>2 DEF OfProduct
    <3>5. CASE t \in {"next >", "< prev"}
      <4>1. s.page = "results"
        <5>1. s.asin # None => t \notin Offered(s.asin)
          BY <3>1, OfferedValues DEF EnvStates
        <5> QED BY <2>1, <3>1, <3>5, <5>1 DEF Accepts
      <4>2. Clicked(s, t).page = s.page
        BY <3>1, <3>5 DEF Clicked, EnvStates
      <4> QED BY <2>1, <4>1, <4>2 DEF OfProduct
    <3> QED BY <3>1, <3>2, <3>3, <3>4, <3>5
  <2> QED BY <2>1, <2>2, <2>3, <2>4, <2>5
<1>4. c[1] \in {"search", "click", "unparsed"}
  BY DEF Commands
<1>5. c[1] = "unparsed" => Refuses(s, c)
  BY DEF Refuses
<1> QED BY <1>1, <1>2, <1>3, <1>4, <1>5
-----------------------------------------------------------------------------
(* A row more at the end.                                                  *)
LEMMA RowAdded ==
    ASSUME rows \in Seq(Rewards), NEW r \in Rewards, Row(r)
    PROVE  /\ rows' \in Seq(Rewards) /\ Len(rows') = Len(rows) + 1
           /\ Len(rows) \in Nat
           /\ DOMAIN rows = 1 .. Len(rows) /\ DOMAIN rows' = 1 .. Len(rows) + 1
           /\ \A i \in 1 .. Len(rows) : rows'[i] = rows[i]
           /\ rows'[Len(rows) + 1] = r
BY DEF Row

(* A step adds one row, which is paid exactly when the trajectory has       *)
(* earned it.                                                              *)
LEMMA RowOfStep ==
    ASSUME Inv, Loop, NEW r \in Rewards, Row(r), r \in Paid <=> Earned',
           ~(kind = "alfworld" /\ over' = "done")
    PROVE  RewardWhereEarned' /\ num' \in Nat /\ rows' \in Seq(Rewards)
<1>1. /\ rows \in Seq(Rewards) /\ num \in Nat /\ num' = num + 1
      /\ over = "no" /\ kind' = kind
      /\ kind \in {"webshop", "alfworld", "hotpotqa"}
  BY DEF Inv, Loop
<1>2. /\ rows' \in Seq(Rewards) /\ Len(rows') = Len(rows) + 1
      /\ Len(rows) \in Nat
      /\ DOMAIN rows = 1 .. Len(rows) /\ DOMAIN rows' = 1 .. Len(rows) + 1
      /\ \A i \in 1 .. Len(rows) : rows'[i] = rows[i]
      /\ rows'[Len(rows) + 1] = r
  BY <1>1, RowAdded
<1>3. ~Earned
  BY <1>1 DEF Earned
<1>4. {i \in DOMAIN rows : rows[i] \in Paid} = {} /\ Len(rows) = num
  BY <1>1, <1>3 DEF Inv, RewardWhereEarned, Earned, Paid
<1>5. {i \in DOMAIN rows' : rows'[i] \in Paid} =
         IF Earned' THEN {Len(rows')} ELSE {}
  BY <1>2, <1>4
<1>6. Len(rows') = num'
  BY <1>1, <1>2, <1>4
<1> QED BY <1>1, <1>2, <1>5, <1>6 DEF RewardWhereEarned

LEMMA ShopNext ==
    ASSUME Inv, ShopStep
    PROVE  Inv'
<1>0. /\ kind = "webshop" /\ kind' = kind /\ over = "no" /\ ShopInv /\ Loop
      /\ shown = [of |-> shown.of, reports |-> shown.reports]
      /\ shown.of = Page(env) /\ acts = Listed(env)
  BY DEF ShopStep, Loop, Inv, PromptIsCurrent
<1>1. ASSUME ShopInv', RewardWhereEarned', num' \in Nat, rows' \in Seq(Rewards),
             shown' = [of |-> shown'.of, reports |-> shown'.reports],
             shown'.of = Page(env') /\ acts' = Listed(env')
      PROVE  Inv'
  BY <1>0, <1>1 DEF Inv, PromptIsCurrent, HistoryOfGame, PassagesOnce
<1>2. CASE ShopInvalid
  <2>1. ShopInv'
    BY <1>0, <1>2 DEF ShopInvalid, ShopInv
  <2>2. shown'.of = shown.of /\ shown' = [of |-> shown'.of,
                                          reports |-> shown'.reports]
    BY <1>0, <1>2 DEF ShopInvalid, Reported
  <2>3. ~Earned' /\ Row("penalty")
    BY <1>0, <1>2 DEF ShopInvalid, Earned
  <2>4. RewardWhereEarned' /\ num' \in Nat /\ rows' \in Seq(Rewards)
    BY <1>0, <2>3, RowOfStep DEF Rewards, Paid
  <2> QED BY <1>0, <1>1, <1>2, <2>1, <2>2, <2>4 DEF ShopInvalid
<1>3. CASE ShopActs
  <2>1. PICK c \in Commands :
           /\ env' = Step(env, c) /\ acts' = Listed(env')
           /\ shown' = [of |-> Page(env'), reports |-> 0]
           /\ over' = IF env'.page = "done" THEN "done" ELSE "no"
           /\ Row(RewardOf(env'))
    BY <1>3 DEF ShopActs
  <2>2. ShopInv'
    BY <1>0, <2>1, StepState, StepProduct DEF ShopInv
  <2>3. RewardOf(env') \in Rewards /\ (RewardOf(env') \in Paid <=> Earned')
    BY <1>0, <2>1 DEF RewardOf, Rewards, Paid, Earned
  <2>4. RewardWhereEarned' /\ num' \in Nat /\ rows' \in Seq(Rewards)
    <3> DEFINE r == RewardOf(env')
    <3>1. r \in Rewards /\ Row(r) /\ (r \in Paid <=> Earned')
      BY <2>1, <2>3
    <3> HIDE DEF r
    <3> QED BY <1>0, <3>1, RowOfStep
  <2>5. shown'.of = Page(env') /\ shown'.reports = 0
    BY <2>1
  <2> QED BY <1>1, <2>1, <2>2, <2>4, <2>5
<1>4. CASE ShopFails
  <2>1. ShopInv'
    BY <1>0, <1>4 DEF ShopFails, ShopInv
  <2>2. ~Earned' /\ Row("zero")
    BY <1>0, <1>4 DEF ShopFails, Earned
  <2>3. RewardWhereEarned' /\ num' \in Nat /\ rows' \in Seq(Rewards)
    BY <1>0, <2>2, RowOfStep DEF Rewards, Paid
  <2> QED BY <1>0, <1>1, <1>4, <2>1, <2>3 DEF ShopFails, ShowSame
<1> QED BY <1>2, <1>3, <1>4 DEF ShopStep
-----------------------------------------------------------------------------
(* A command more at the end of a history.                                 *)
LEMMA HistoryAdded ==
    ASSUME NEW S, NEW h \in Seq(S), NEW x \in S
    PROVE  /\ Append(h, x) \in Seq(S) /\ Len(Append(h, x)) = Len(h) + 1
           /\ Len(h) \in Nat /\ DOMAIN h = 1 .. Len(h)
           /\ DOMAIN Append(h, x) = 1 .. Len(h) + 1
           /\ \A i \in 1 .. Len(h) : Append(h, x)[i] = h[i]
           /\ Append(h, x)[Len(h) + 1] = x
OBVIOUS

(* The executed commands are one more.                                     *)
LEMMA TurnMore ==
    ASSUME NEW k \in Nat
    PROVE  Append(Turns(k), "valid") = Turns(k + 1)
<1> DEFINE S == {"valid", "invalid"}
<1>1. Turns(k) \in Seq(S) /\ Len(Turns(k)) = k
  <2>1. Turns(k) \in [1 .. k -> S]
    BY DEF Turns
  <2> QED BY <2>1
<1>2. Append(Turns(k), "valid") \in Seq(S) /\ "valid" \in S
  BY <1>1
<1>3. /\ Len(Append(Turns(k), "valid")) = k + 1
      /\ DOMAIN Append(Turns(k), "valid") = 1 .. k + 1
      /\ \A i \in 1 .. k : Append(Turns(k), "valid")[i] = Turns(k)[i]
      /\ Append(Turns(k), "valid")[k + 1] = "valid"
  BY <1>1, <1>2, HistoryAdded
<1>4. \A i \in 1 .. k + 1 : Append(Turns(k), "valid")[i] = "valid"
  <2>1. \A i \in 1 .. k + 1 : i \in 1 .. k \/ i = k + 1
    OBVIOUS
  <2>2. \A i \in 1 .. k : Turns(k)[i] = "valid"
    BY DEF Turns
  <2> QED BY <1>3, <2>1, <2>2
<1>5. Turns(k + 1) \in [1 .. k + 1 -> S] /\ Len(Turns(k + 1)) = k + 1
      /\ \A i \in 1 .. k + 1 : Turns(k + 1)[i] = "valid"
  <2>1. Turns(k + 1) \in [1 .. k + 1 -> S] /\ k + 1 \in Nat
    BY DEF Turns
  <2> QED BY <2>1 DEF Turns
<1>6. Append(Turns(k), "valid") \in [1 .. k + 1 -> S]
  <2> DEFINE s == Append(Turns(k), "valid")
  <2>1. s \in Seq(S) /\ Len(s) = k + 1
    BY <1>2, <1>3
  <2> HIDE DEF s, S
  <2>2. s \in [1 .. k + 1 -> S]
    BY <2>1
  <2> QED BY <2>2 DEF s
<1> HIDE DEF S
<1> QED BY <1>4, <1>5, <1>6

LEMMA AlfNext ==
    ASSUME Inv, AlfStep
    PROVE  Inv'
<1> DEFINE S == {"valid", "invalid"}
<1>0. /\ kind = "alfworld" /\ kind' = kind /\ over = "no" /\ Loop
      /\ num' = num + 1 /\ num \in Nat
      /\ shown = [of |-> shown.of, reports |-> shown.reports]
      /\ shown.of = env.turn
      /\ env \in [turn : Nat, won : BOOLEAN] /\ env.turn \in Nat
      /\ log = Turns(env.turn) /\ log \in Seq(S) /\ hist \in Seq(S)
      /\ Len(hist) >= env.turn
      /\ \A i \in DOMAIN hist : hist[i] = "valid" <=> i <= env.turn
  BY DEF AlfStep, Loop, Inv, AlfInv, PromptIsCurrent, HistoryOfGame
<1>1. ASSUME AlfInv', RewardWhereEarned', rows' \in Seq(Rewards),
             shown' = [of |-> shown'.of, reports |-> shown'.reports],
             over' = "no" => shown'.of = env'.turn,
             HistoryOfGame'
      PROVE  Inv'
  BY <1>0, <1>1 DEF Inv, PromptIsCurrent, PassagesOnce
<1>2. CASE AlfInvalid
  <2>1. /\ env' = env /\ over' = over /\ log' = log /\ Row("zero")
        /\ hist' = Append(hist, "invalid")
        /\ shown' = [shown EXCEPT !.reports = @ + 1]
    BY <1>2 DEF AlfInvalid, LogCopied, Reported
  <2>2. AlfInv'
    BY <1>0, <2>1, HistoryAdded DEF AlfInv
  <2>3. RewardWhereEarned' /\ rows' \in Seq(Rewards)
    <3>1. ~Earned'
      BY <1>0, <2>1 DEF Earned
    <3> QED BY <1>0, <2>1, <3>1, RowOfStep DEF Rewards, Paid
  <2>4. HistoryOfGame'
    <3> DEFINE n == Len(hist)
    <3>1. /\ n \in Nat /\ DOMAIN hist = 1 .. n /\ Len(hist') = n + 1
          /\ DOMAIN hist' = 1 .. n + 1
          /\ \A i \in 1 .. n : hist'[i] = hist[i]
          /\ hist'[n + 1] = "invalid"
      BY <1>0, <2>1, HistoryAdded
    <3>2. \A i \in 1 .. n + 1 : i \in 1 .. n \/ i = n + 1
      BY <3>1
    <3>3. \A i \in DOMAIN hist' : hist'[i] = "valid" <=> i <= env.turn
      BY <1>0, <3>1, <3>2
    <3> QED BY <1>0, <2>1, <3>1, <3>3 DEF HistoryOfGame
  <2>5. shown'.of = shown.of /\ shown' = [of |-> shown'.of,
                                          reports |-> shown'.reports]
    BY <1>0, <2>1
  <2> QED BY <1>0, <1>1, <2>1, <2>2, <2>3, <2>4, <2>5
<1>3. CASE AlfActs
  <2>1. PICK won \in BOOLEAN :
           /\ env' = [turn |-> env.turn + 1, won |-> won]
           /\ shown' = [of |-> env'.turn, reports |-> 0]
           /\ log' = Append(log, "valid") /\ hist' = log'
           /\ \/ /\ over' = "done"
                 /\ rows' = rows \o <<"zero",
                                      IF won THEN "success" ELSE "zero">>
              \/ /\ Row("zero") /\ UNCHANGED over
    BY <1>3 DEF AlfActs
  <2>2. /\ env' \in [turn : Nat, won : BOOLEAN] /\ env'.turn = env.turn + 1
        /\ env'.won = won /\ over' \in {"no", "done"}
    BY <1>0, <2>1
  <2>3. log' = Turns(env'.turn) /\ log' \in Seq(S) /\ hist' = log'
    BY <1>0, <2>1, <2>2, TurnMore, HistoryAdded
  <2>4. AlfInv'
    BY <2>2, <2>3 DEF AlfInv
  <2>5. HistoryOfGame'
    <3>1. /\ Len(hist') = env'.turn /\ env'.turn \in Nat
          /\ \A i \in DOMAIN hist' : i <= env'.turn /\ hist'[i] = "valid"
      BY <1>0, <2>2, <2>3 DEF Turns
    <3> QED BY <3>1 DEF HistoryOfGame
  <2>6. RewardWhereEarned' /\ rows' \in Seq(Rewards)
    <3>1. CASE over' = "done" /\ rows' = rows \o
                  <<"zero", IF won THEN "success" ELSE "zero">>
      <4> DEFINE r == IF won THEN "success" ELSE "zero"
                 n == Len(rows)
      <4>1. rows \in Seq(Rewards) /\ "zero" \in Rewards /\ r \in Rewards
        BY DEF Inv, Rewards
      <4> HIDE DEF r
      <4>2. rows' = Append(Append(rows, "zero"), r)
        BY <3>1, <4>1 DEF r
      <4>3. /\ Append(rows, "zero") \in Seq(Rewards)
            /\ Len(Append(rows, "zero")) = n + 1 /\ n \in Nat
            /\ DOMAIN rows = 1 .. n
            /\ \A i \in 1 .. n : Append(rows, "zero")[i] = rows[i]
            /\ Append(rows, "zero")[n + 1] = "zero"
        BY <4>1, HistoryAdded
      <4>4. /\ rows' \in Seq(Rewards) /\ Len(rows') = (n + 1) + 1
            /\ DOMAIN rows' = 1 .. (n + 1) + 1
            /\ \A i \in 1 .. n + 1 : rows'[i] = Append(rows, "zero")[i]
            /\ rows'[(n + 1) + 1] = r
        BY <4>1, <4>2, <4>3, HistoryAdded
      <4>5. ~Earned
        BY <1>0 DEF Earned
      <4>6. {i \in DOMAIN rows : rows[i] \in Paid} = {} /\ n = num
        BY <1>0, <4>5 DEF Inv, RewardWhereEarned
      <4>7. \A i \in 1 .. n + 1 : rows'[i] \notin Paid
        <5>1. \A i \in 1 .. n + 1 : i \in 1 .. n \/ i = n + 1
          BY <4>3
        <5>2. "zero" \notin Paid
          BY DEF Paid
        <5> QED BY <4>3, <4>4, <4>6, <5>1, <5>2
      <4>8. (r \in Paid <=> won) /\ (Earned' <=> won)
        BY <1>0, <2>2, <3>1 DEF r, Paid, Earned
      <4>9. \A i \in DOMAIN rows' : i \in 1 .. n + 1 \/ i = (n + 1) + 1
        BY <4>3, <4>4
      <4>10. {i \in DOMAIN rows' : rows'[i] \in Paid} =
                IF Earned' THEN {Len(rows')} ELSE {}
        <5>1. (n + 1) + 1 \in DOMAIN rows'
          BY <4>3, <4>4
        <5> QED BY <4>4, <4>7, <4>8, <4>9, <5>1
      <4>11. Len(rows') = num' + 1
        BY <1>0, <4>4, <4>6
      <4> QED BY <1>0, <3>1, <4>4, <4>10, <4>11 DEF RewardWhereEarned
    <3>2. CASE Row("zero") /\ UNCHANGED over
      <4>1. ~Earned'
        BY <1>0, <3>2 DEF Earned
      <4> QED BY <1>0, <3>2, <4>1, RowOfStep DEF Rewards, Paid
    <3> QED BY <2>1, <3>1, <3>2
  <2> QED BY <1>1, <2>1, <2>4, <2>5, <2>6
<1>4. CASE AlfRaises
  <2>1. /\ over' = "raised" /\ log' = Append(log, "valid")
        /\ UNCHANGED <<env, shown, acts, hist, rows>>
    BY <1>4 DEF AlfRaises
  <2>2. AlfInv'
    BY <1>0, <2>1, HistoryAdded DEF AlfInv
  <2>3. RewardWhereEarned' /\ rows' \in Seq(Rewards)
    BY <1>0, <2>1 DEF RewardWhereEarned, Earned, Inv
  <2> QED BY <1>0, <1>1, <2>1, <2>2, <2>3 DEF HistoryOfGame
<1> QED BY <1>2, <1>3, <1>4 DEF AlfStep
-----------------------------------------------------------------------------
(* The passages of a batch of queries are new, and each is listed once,    *)
(* under the first query that finds it.                                    *)
LEMMA IngestedOnce ==
    ASSUME NEW ps, NEW qs \in Seq(Words),
           \A p, q \in ps : p.text = q.text => p = q,
           ps \in SUBSET [query : Words, text : UNION {Texts[w] : w \in Words}]
    PROVE  /\ Ingested(ps, qs) \in
                 SUBSET [query : Words, text : UNION {Texts[w] : w \in Words}]
           /\ \A p, q \in Ingested(ps, qs) : p.text = q.text => p = q
           /\ \A p \in Ingested(ps, qs) :
                 p \in ps \/ \E i \in DOMAIN qs : qs[i] = p.query
<1>1. DOMAIN qs = 1 .. Len(qs) /\ Len(qs) \in Nat /\ \A i \in DOMAIN qs : qs[i] \in Words
  OBVIOUS
<1>2. ASSUME NEW p \in Ingested(ps, qs)
      PROVE  \/ p \in ps
             \/ \E i \in DOMAIN qs : \E t \in Fresh(ps, qs, i) :
                   p = [query |-> qs[i], text |-> t]
  BY DEF Ingested
<1>3. ASSUME NEW i \in DOMAIN qs, NEW t \in Fresh(ps, qs, i)
      PROVE  /\ t \in Texts[qs[i]] /\ \A p \in ps : p.text # t
             /\ \A j \in 1 .. i - 1 : t \notin Texts[qs[j]]
  BY DEF Fresh, Known
<1>4. Ingested(ps, qs) \in
         SUBSET [query : Words, text : UNION {Texts[w] : w \in Words}]
  <2>1. ASSUME NEW p \in Ingested(ps, qs)
        PROVE  p \in [query : Words, text : UNION {Texts[w] : w \in Words}]
    BY <1>1, <1>2, <1>3
  <2> QED BY <2>1
<1>5. ASSUME NEW p \in Ingested(ps, qs), NEW q \in Ingested(ps, qs),
             p.text = q.text
      PROVE  p = q
  <2>1. CASE p \in ps /\ q \in ps
    BY <1>5, <2>1
  <2>2. ASSUME NEW i \in DOMAIN qs, NEW t \in Fresh(ps, qs, i),
               p = [query |-> qs[i], text |-> t],
               NEW j \in DOMAIN qs, NEW u \in Fresh(ps, qs, j),
               q = [query |-> qs[j], text |-> u]
        PROVE  p = q
    <3>1. t = u
      BY <1>5, <2>2
    <3>2. ~(i < j) /\ ~(j < i)
      <4>1. i \in 1 .. Len(qs) /\ j \in 1 .. Len(qs)
        BY <1>1
      <4>2. t \in Texts[qs[i]] /\ u \in Texts[qs[j]]
        BY <1>3
      <4>3. (i < j => i \in 1 .. j - 1) /\ (j < i => j \in 1 .. i - 1)
        BY <1>1, <4>1
      <4> QED BY <1>3, <3>1, <4>2, <4>3
    <3>3. i = j
      BY <1>1, <3>2
    <3> QED BY <2>2, <3>1, <3>3
  <2>3. CASE p \in ps /\ q \notin ps
    BY <1>2, <1>3, <1>5, <2>3
  <2>4. CASE p \notin ps /\ q \in ps
    BY <1>2, <1>3, <1>5, <2>4
  <2>5. CASE p \notin ps /\ q \notin ps
    BY <1>2, <2>2, <2>5
  <2> QED BY <2>1, <2>3, <2>4, <2>5
<1>6. ASSUME NEW p \in Ingested(ps, qs)
      PROVE  p \in ps \/ \E i \in DOMAIN qs : qs[i] = p.query
  BY <1>2
<1> QED BY <1>4, <1>5, <1>6

LEMMA HotNext ==
    ASSUME Inv, HotStep
    PROVE  Inv'
<1> DEFINE P == [query : Words, text : UNION {Texts[w] : w \in Words}]
<1>0. /\ kind = "hotpotqa" /\ kind' = kind /\ over = "no" /\ Loop
      /\ shown = [of |-> shown.of, reports |-> shown.reports]
      /\ env \in SUBSET P /\ hist \in Seq(Words)
      /\ \A p, q \in env : p.text = q.text => p = q
      /\ \A p \in env : \E i \in DOMAIN hist : hist[i] = p.query
  BY DEF HotStep, Loop, Inv, HotInv, PassagesOnce
<1>1. ASSUME HotInv', RewardWhereEarned', num' \in Nat, rows' \in Seq(Rewards),
             shown' = [of |-> shown'.of, reports |-> shown'.reports],
             PassagesOnce'
      PROVE  Inv'
  BY <1>0, <1>1 DEF Inv, PromptIsCurrent, HistoryOfGame
<1>2. CASE HotSearches
  <2>1. PICK qs \in CallSeqs :
           /\ env' \in {env, Ingested(env, qs)}
           /\ hist' = hist \o qs /\ Row("zero") /\ UNCHANGED <<over, shown>>
    BY <1>2 DEF HotSearches
  <2>2. qs \in Seq(Words)
    BY FlowsAssumption DEF CallSeqs
  <2>3. /\ hist' \in Seq(Words)
        /\ \A i \in DOMAIN hist : i \in DOMAIN hist' /\ hist'[i] = hist[i]
        /\ \A i \in DOMAIN qs : /\ Len(hist) + i \in DOMAIN hist'
                                /\ hist'[Len(hist) + i] = qs[i]
    BY <1>0, <2>1, <2>2
  <2>4. /\ env' \in SUBSET P
        /\ \A p, q \in env' : p.text = q.text => p = q
        /\ \A p \in env' : p \in env \/ \E i \in DOMAIN qs : qs[i] = p.query
    BY <1>0, <2>1, <2>2, IngestedOnce
  <2>5. \A p \in env' : \E i \in DOMAIN hist' : hist'[i] = p.query
    BY <1>0, <2>3, <2>4
  <2>6. HotInv' /\ PassagesOnce'
    BY <1>0, <2>1, <2>3, <2>4, <2>5 DEF HotInv, PassagesOnce
  <2>7. RewardWhereEarned' /\ num' \in Nat /\ rows' \in Seq(Rewards)
    <3>1. ~Earned'
      BY <1>0, <2>1 DEF Earned
    <3> QED BY <1>0, <2>1, <3>1, RowOfStep DEF Rewards, Paid
  <2> QED BY <1>0, <1>1, <2>1, <2>6, <2>7
<1>3. CASE HotInvalid \/ HotAnswers
  <2>1. /\ Reported \/ UNCHANGED shown
        /\ UNCHANGED <<env, hist>>
        /\ \/ Row("zero") /\ UNCHANGED over
           \/ Row("judged") /\ over' = "answered"
    BY <1>3 DEF HotInvalid, HotAnswers
  <2>2. HotInv' /\ PassagesOnce'
    BY <1>0, <2>1 DEF HotInv, PassagesOnce
  <2>3. RewardWhereEarned' /\ num' \in Nat /\ rows' \in Seq(Rewards)
    <3>1. CASE Row("zero") /\ UNCHANGED over
      <4>1. ~Earned'
        BY <1>0, <3>1 DEF Earned
      <4> QED BY <1>0, <3>1, <4>1, RowOfStep DEF Rewards, Paid
    <3>2. CASE Row("judged") /\ over' = "answered"
      <4>1. Earned'
        BY <1>0, <3>2 DEF Earned
      <4> QED BY <1>0, <3>2, <4>1, RowOfStep DEF Rewards, Paid
    <3> QED BY <2>1, <3>1, <3>2
  <2>4. shown' = [of |-> shown'.of, reports |-> shown'.reports]
    BY <1>0, <2>1 DEF Reported
  <2> QED BY <1>1, <2>2, <2>3, <2>4
<1> QED BY <1>2, <1>3 DEF HotStep
-----------------------------------------------------------------------------
LEMMA InvInit == Init => Inv
<1> SUFFICES ASSUME Init PROVE Inv
  OBVIOUS
<1>1. /\ num = 0 /\ over = "no" /\ rows = <<>> /\ log = <<>>
      /\ rows \in Seq(Rewards) /\ kind \in {"webshop", "alfworld", "hotpotqa"}
  BY DEF Init
<1>2. RewardWhereEarned
  <2>1. ~Earned
    BY <1>1 DEF Earned
  <2>2. DOMAIN rows = {} /\ Len(rows) = 0
    BY <1>1
  <2> QED BY <1>1, <2>1, <2>2 DEF RewardWhereEarned
<1>3. CASE kind = "webshop" /\ ShopInit
  BY <1>1, <1>2, <1>3, HomeState
     DEF Inv, ShopInit, ShopInv, PromptIsCurrent, HistoryOfGame, PassagesOnce
<1>4. CASE kind = "alfworld" /\ AlfInit
  <2>1. <<>> = Turns(0)
    BY DEF Turns
  <2>2. AlfInv /\ HistoryOfGame
    BY <1>1, <1>4, <2>1 DEF AlfInit, AlfInv, HistoryOfGame
  <2> QED BY <1>1, <1>2, <1>4, <2>2
          DEF Inv, AlfInit, PromptIsCurrent, PassagesOnce
<1>5. CASE kind = "hotpotqa" /\ HotInit
  <2>1. PICK first \in {<<>>, <<Question>>} :
           /\ env \in {{}, Ingested({}, first)} /\ hist = first
           /\ shown = [of |-> "state", reports |-> 0]
    BY <1>5 DEF HotInit
  <2>2. first \in Seq(Words)
    <3>1. Question \in Words
      BY FlowsAssumption DEF Words
    <3>2. <<Question>> \in Seq(Words) /\ <<>> \in Seq(Words)
      BY <3>1
    <3> QED BY <2>1, <3>2
  <2>3. HotInv /\ PassagesOnce
    BY <1>1, <2>1, <2>2, IngestedOnce DEF HotInv, PassagesOnce
  <2> QED BY <1>1, <1>2, <1>5, <2>1, <2>3
          DEF Inv, PromptIsCurrent, HistoryOfGame
<1> QED BY <1>3, <1>4, <1>5 DEF Init

LEMMA InvNext == Inv /\ [Next]_vars => Inv'
<1> SUFFICES ASSUME Inv, [Next]_vars PROVE Inv'
  OBVIOUS
<1>1. CASE UNCHANGED vars
  BY <1>1 DEF vars, Inv, ShopInv, OwnOptions, OfProduct, AlfInv, HotInv, PromptIsCurrent,
              RewardWhereEarned, Earned, HistoryOfGame, PassagesOnce
<1> QED BY <1>1, ShopNext, AlfNext, HotNext DEF Next, Ended

LEMMA InvHolds == Spec => []Inv
<1> QED BY InvInit, InvNext, PTL DEF Spec

(* The prompt is about the state the next action is tried in.              *)
THEOREM CurrentPrompt == Spec => []PromptIsCurrent
<1>1. Inv => PromptIsCurrent
  BY DEF Inv
<1> QED BY <1>1, InvHolds, PTL

(* What is bought has options of its own only.                             *)
THEOREM OptionsOwn == Spec => []OptionsOfProduct
<1>1. Inv => OptionsOfProduct
  BY DEF Inv, ShopInv, OwnOptions, OptionsOfProduct
<1> QED BY <1>1, InvHolds, PTL

(* One row is rewarded, the last, when the trajectory earned it.           *)
THEOREM RewardEarned == Spec => []RewardWhereEarned
<1>1. Inv => RewardWhereEarned
  BY DEF Inv
<1> QED BY <1>1, InvHolds, PTL

(* The history of a game is what the game executed.                        *)
THEOREM GameHistory == Spec => []HistoryOfGame
<1>1. Inv => HistoryOfGame
  BY DEF Inv
<1> QED BY <1>1, InvHolds, PTL

(* A passage is listed once, under a query of the history.                 *)
THEOREM ListedOnce == Spec => []PassagesOnce
<1>1. Inv => PassagesOnce
  BY DEF Inv
<1> QED BY <1>1, InvHolds, PTL
-----------------------------------------------------------------------------
(* The products on a page are products of the shop.                        *)
LEMMA OnPageProducts ==
    ASSUME NEW s \in EnvStates
    PROVE  OnPage(s) \subseteq Products
<1>1. Hits(s.query) \in Seq(Products)
  BY ShopAssumption DEF Hits, EnvStates
<1> QED BY <1>1 DEF OnPage

(* A next page that is listed has a product on it.                         *)
LEMMA NextHasResults ==
    ASSUME NEW s \in EnvStates, HasNext(s)
    PROVE  OnPage([s EXCEPT !.num = @ + 1]) # {}
<1> DEFINE k == s.num + 1
           i == k * Window + 1
           next == [s EXCEPT !.num = @ + 1]
<1>1. Hits(s.query) \in Seq(Products)
  BY ShopAssumption DEF Hits, EnvStates
<1>2. k \in Nat /\ Window \in Nat \ {0} /\ k * Window \in Nat
  BY ShopAssumption DEF EnvStates
<1>3. k * Window < Len(Hits(s.query))
  BY DEF HasNext
<1>4. i \in DOMAIN Hits(s.query)
  BY <1>1, <1>2, <1>3
<1>5. (i - 1) \div Window = k
  <2>1. i - 1 = k * Window
    BY <1>2
  <2>2. (k * Window) \div Window = k
    BY <1>2
  <2> QED BY <2>1, <2>2
<1>6. next.query = s.query /\ next.num = k
  BY DEF EnvStates
<1> QED BY <1>4, <1>5, <1>6 DEF OnPage

(* A value that a product offers, in one of the options it offers it for.  *)
LEMMA ValueChosen ==
    ASSUME NEW s \in EnvStates, OwnOptions(s), s.asin # None,
           NEW t \in Offered(s.asin)
    PROVE  /\ t \in Values /\ ~Refuses(s, <<"click", t>>)
           /\ Clicked(s, t).page = "item" /\ Clicked(s, t).asin = s.asin
           /\ \E n \in 1 .. Names : Clicked(s, t).chosen[n] = t
<1> DEFINE n == OptionOf(s.asin, t)
<1>1. s.asin \in Products
  BY DEF EnvStates
<1>2. n \in 1 .. Names /\ t \in Options[s.asin][n]
  BY <1>1, LastOption
<1>3. t \in Values
  BY <1>1, <1>2, ShopAssumption
<1>4. Clicked(s, t) = [s EXCEPT !.page = "item", !.sub = None, !.chosen[n] = t]
  BY <1>3, NamesApart DEF Clicked, Controls
<1> HIDE DEF n
<1>5. s.chosen \in [1 .. Names -> Values \union {None}]
  BY DEF EnvStates
<1>6. Clicked(s, t).chosen = [s.chosen EXCEPT ![n] = t]
  BY <1>4 DEF EnvStates
<1>7. Clicked(s, t).chosen[n] = t
  BY <1>2, <1>5, <1>6
<1>8. Clicked(s, t).page = "item" /\ Clicked(s, t).asin = s.asin
  BY <1>4 DEF EnvStates
<1>9. ~Refuses(s, <<"click", t>>)
  BY DEF Refuses, Accepts
<1> QED BY <1>2, <1>3, <1>7, <1>8, <1>9

LEMMA ClickPair ==
    ASSUME NEW X, NEW c \in {"click"} \X X
    PROVE  c = <<"click", c[2]>> /\ c[2] \in X
OBVIOUS

(* What a page lists is accepted, and leads where its name says.           *)
LEMMA ListedWorks ==
    ASSUME NEW s \in EnvStates, OwnOptions(s), OfProduct(s), NEW c \in Listed(s)
    PROVE  /\ ~Refuses(s, c)
           /\ c[1] = "click" => LeadsWhereItSays(s, c[2], Step(s, c))
<1>1. CASE c[1] = "search"
  BY <1>1 DEF Refuses
<1>2. CASE c[1] # "search"
  <2> DEFINE t == c[2]
  <2>1. /\ c = <<"click", t>>
        /\ \/ s.page = "results" /\ t \in OnPage(s)
           \/ s.page = "results" /\ t = "< prev"
           \/ s.page = "results" /\ t = "next >" /\ HasNext(s)
           \/ s.page = "item" /\ t \in Subpages
           \/ s.page = "item" /\ t \in Offered(s.asin)
           \/ s.page = "item" /\ t \in {"back to search", "buy now"}
           \/ /\ s.page = "subpage"
              /\ t \in {"back to item", "back to search", "buy now"}
    <3>1. s.page \in {"home", "results", "item", "subpage", "done"}
      BY DEF EnvStates
    <3>2. CASE s.page \in {"home", "done"}
      BY <1>2, <3>2 DEF Listed
    <3>3. CASE s.page = "results"
      <4>1. c \in {"click"} \X (OnPage(s) \union {u \in {"< prev"} : s.num > 0}
                                        \union {u \in {"next >"} : HasNext(s)})
        BY <1>2, <3>3 DEF Listed
      <4>2. c = <<"click", t>>
        BY <4>1, ClickPair
      <4> QED BY <3>3, <4>1, <4>2
    <3>4. CASE s.page = "item"
      <4>1. c \in {"click"} \X (Subpages \union Offered(s.asin)
                                 \union {"back to search", "buy now"})
        BY <1>2, <3>4 DEF Listed
      <4>2. c = <<"click", t>>
        BY <4>1, ClickPair
      <4> QED BY <3>4, <4>1, <4>2
    <3>5. CASE s.page = "subpage"
      <4>1. c \in {"click"} \X {"back to item", "back to search", "buy now"}
        BY <1>2, <3>5 DEF Listed
      <4>2. c = <<"click", t>>
        BY <4>1, ClickPair
      <4> QED BY <3>5, <4>1, <4>2
    <3> QED BY <3>1, <3>2, <3>3, <3>4, <3>5
  <2> HIDE DEF t
  <2>2. SUFFICES /\ ~Refuses(s, c)
                 /\ LeadsWhereItSays(s, t, Clicked(s, t))
    <3>1. ~Refuses(s, c) => Step(s, c) = Clicked(s, t)
      BY <2>1 DEF Step
    <3> QED BY <2>1, <3>1
  <2>3. CASE s.page = "results" /\ t \in OnPage(s)
    <3>1. t \in Products
      BY <2>3, OnPageProducts
    <3>2. ~Refuses(s, c)
      BY <2>1, <3>1 DEF Refuses, Accepts
    <3>3. Clicked(s, t) = [s EXCEPT !.page = "item", !.asin = t, !.sub = None,
                                    !.chosen = NothingChosen]
      BY <3>1, NamesApart DEF Clicked, ChosenFor, Controls
    <3>4. Page(Clicked(s, t)) = <<"item", t, NothingChosen>>
      BY <3>3 DEF Page, EnvStates
    <3> QED BY <3>1, <3>2, <3>4, NamesApart DEF LeadsWhereItSays, Controls
  <2>4. CASE s.page = "results" /\ t = "< prev"
    <3>1. ~Refuses(s, c)
      BY <2>1, <2>4 DEF Refuses, Accepts
    <3> QED BY <2>4, <3>1, NamesApart DEF LeadsWhereItSays, Controls
  <2>5. CASE s.page = "results" /\ t = "next >" /\ HasNext(s)
    <3>1. ~Refuses(s, c)
      BY <2>1, <2>5 DEF Refuses, Accepts
    <3>2. t \notin Products /\ t \notin Values /\ t \notin Subpages
      BY <2>5, NamesApart DEF Controls
    <3>3. Clicked(s, t) = [s EXCEPT !.num = @ + 1]
      BY <2>5, <3>2 DEF Clicked
    <3> QED BY <2>5, <3>1, <3>2, <3>3, NextHasResults DEF LeadsWhereItSays
  <2>6. CASE s.page = "item" /\ t \in Subpages
    <3>1. ~Refuses(s, c)
      BY <2>1, <2>6 DEF Refuses, Accepts, OfProduct
    <3> QED BY <2>6, <3>1, NamesApart DEF LeadsWhereItSays, Controls
  <2>7. CASE s.page = "item" /\ t \in Offered(s.asin)
    <3>1. s.asin # None
      BY <2>7 DEF OfProduct
    <3>2. /\ t \in Values /\ ~Refuses(s, <<"click", t>>)
          /\ Clicked(s, t).page = "item" /\ Clicked(s, t).asin = s.asin
          /\ \E n \in 1 .. Names : Clicked(s, t).chosen[n] = t
      BY <2>7, <3>1, ValueChosen
    <3> QED BY <2>1, <3>2, NamesApart DEF LeadsWhereItSays, Controls
  <2>8. CASE /\ s.page \in {"item", "subpage"}
             /\ t \in {"back to item", "back to search", "buy now"}
    <3>1. ~Refuses(s, c)
      BY <2>1, <2>8 DEF Refuses, Accepts
    <3>2. t \notin Products /\ t \notin Values /\ t \notin Subpages
      BY <2>8, NamesApart DEF Controls
    <3>3. s.asin # None
      BY <2>8 DEF OfProduct
    <3>4. t = "back to item" => Clicked(s, t).asin = s.asin
      BY <3>2, <3>3 DEF Clicked, EnvStates
    <3>5. t = "buy now" => Clicked(s, t).asin = s.asin
      BY <3>2, <3>3 DEF Clicked, EnvStates
    <3> QED BY <2>8, <3>1, <3>2, <3>3, <3>4, <3>5 DEF LeadsWhereItSays
  <2> QED BY <2>1, <2>3, <2>4, <2>5, <2>6, <2>7, <2>8
<1> QED BY <1>1, <1>2

(* What the shop lists can be clicked.                                     *)
THEOREM ListedAccepted == Spec => []ListedActionsWork
<1>1. Inv => ListedActionsWork
  BY ListedWorks DEF Inv, ShopInv, ListedActionsWork
<1> QED BY <1>1, InvHolds, PTL
=============================================================================
