--------------------------- MODULE MCResearchLoop ---------------------------
(* The research loop, bounded and karpathy, with its git replay, for TLC.  *)
EXTENDS KarpathyGit

CONSTANT Scores

(* A plateau and what follows it need four iterations, a keep between two  *)
(* discards three.                                                         *)
MCIterations == [m \in Modes |-> IF m = "bounded" THEN 4 ELSE 3]

LossAndGain == {-1, 2}
LossesAndZero == {-2, -1, 0}

O(r, s, b, ls) == [runs |-> r, score |-> s, baseline |-> b, labels |-> ls]

(* A loss, a gain, an expensive run that failed two gates, and one that    *)
(* reports nothing at all.                                                 *)
MCOutcomes ==
  [m \in Modes |-> {O(IF m = "karpathy" /\ s > 0 THEN 2 ELSE 1, s, NoScore, {}) : s \in Scores} \cup
     IF m = "bounded" THEN {O(2, Min(Scores), 7, {"stress", "holdout"}), O(0, NoScore, NoScore, {"stress"})}
     ELSE {O(0, NoScore, NoScore, {})}]

R(n, q, s, c) == [next |-> n, queued |-> q, stop |-> s, continue |-> c]

(* A next payload; two queued ones; nothing more; in a bounded loop also   *)
(* both together with an explicit stop, in a karpathy loop both without,   *)
(* and an answer that leaves everything open.                              *)
MCRefinements ==
  [m \in Modes |-> {R(TRUE, 0, FALSE, TRUE), R(FALSE, 2, FALSE, TRUE), R(FALSE, 0, FALSE, FALSE)} \cup
     IF m = "bounded" THEN {R(TRUE, 1, TRUE, TRUE)} ELSE {R(TRUE, 1, FALSE, TRUE), R(FALSE, 0, FALSE, TRUE)}]

MCStopGroups == {[labels |-> {"stress", "holdout"}, limit |-> 4], [labels |-> {"holdout"}, limit |-> 2]}
=============================================================================
