---------------------------- MODULE MCStepAdvantage ----------------------------
(* Small instances of StepAdvantage for TLC. *)
EXTENDS StepAdvantage, TLC

CONSTANTS a, b, c, x, y, o1, o2, o3

Table(first, second, third) ==
  [key \in Trajectories \X StepIds |->
     (CASE key[1] = a -> first [] key[1] = b -> second [] OTHER -> third)[key[2]]]

(* Scores and values that no sum of a few others gives. *)
MCScore == Table(<<1, 7>>, <<20, 3>>, <<50, 11>>)
MCValue == Table(<< <<2, 5, 9>>, <<4, 1, 8>> >>, << <<6, 3, 7>>, <<10, 2, 1>> >>,
                 << <<3, 8, 4>>, <<5, 12, 6>> >>)

(* Responses with padding behind them or none, one with a tool's turn       *)
(* inside, and an empty one.                                                *)
MCRowKinds == { << <<1, 1, 0>>, o1 >>, << <<1, 1, 1>>, o2 >>, << <<1, 1, 0>>, o3 >>,
                << <<1, 0, 1>>, o2 >>, << <<0, 0, 0>>, o1 >> }

(* o1 is similar to o2 and o2 to o3, but o1 is not similar to o3.           *)
MCSimilar == {<<o1, o1>>, <<o2, o2>>, <<o3, o3>>, <<o1, o2>>, <<o2, o1>>, <<o2, o3>>, <<o3, o2>>}

MCSymmetry == Permutations(Prompts)

================================================================================
