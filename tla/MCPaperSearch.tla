---------------------------- MODULE MCPaperSearch ----------------------------
(* Small instances of PaperSearch for TLC.                                  *)
EXTENDS PaperSearch, TLC

CONSTANTS q1, q2, p1, p2

(* p1 is relevant below the discrete threshold of 2, p2 above it.           *)
MCScore == (p1 :> 1) @@ (p2 :> 3)

==============================================================================
