------------------------------ MODULE PaperLedger ------------------------------
(***************************************************************************)
(* What the paper-search flow promises about credit, without its steps,    *)
(* pool, history or awaits: every call is closed at most once, a paper is  *)
(* credited to at most one call, and a credit is never revised.            *)
(***************************************************************************)
CONSTANTS Papers, AllCalls

VARIABLES
  credit,  \* set of <<call, paper>>: the papers each call was rewarded for
  closed   \* calls whose outcome is final

lvars == <<credit, closed>>

Credited == {c[2] : c \in credit}

LInit == credit = {} /\ closed = {}

(* A call is closed with papers nobody has been credited for; a penalised   *)
(* or failed call with none.                                                *)
Close(id, found) ==
  /\ id \notin closed
  /\ found \cap Credited = {}
  /\ credit' = credit \cup ({id} \X found)
  /\ closed' = closed \cup {id}

LNext == \E id \in AllCalls, found \in SUBSET Papers : Close(id, found)

LSpec == LInit /\ [][LNext]_lvars

================================================================================
