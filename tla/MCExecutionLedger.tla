-------------------------- MODULE MCExecutionLedger --------------------------
(***************************************************************************)
(* Two writers and the events of two orders on one symbol: a submission, a *)
(* buy reported under an id (and so perhaps delivered twice), an anonymous *)
(* sell of the same order, a sell of the other order, a fill without a     *)
(* client order id, and a risk block.                                      *)
(***************************************************************************)
EXTENDS ExecutionLedger

CONSTANTS o1, o2, f1, f2, s1, s2

OrderEvent(o, q) ==
  [type |-> "ORDER", order |-> o, symbol |-> s1, side |-> "BUY", qty |-> q,
   status |-> "NEW", reduce |-> FALSE]

FillEvent(o, f, s, side, q, p) ==
  [type |-> "FILL", order |-> o, fill |-> f, symbol |-> s, side |-> side, qty |-> q,
   price |-> p, status |-> "PART", reduce |-> FALSE]

MCEvents ==
  {OrderEvent(o1, 3),
   FillEvent(o1, f1, s1, "BUY", 2, 1),
   FillEvent(o1, NoFill, s1, "SELL", 1, 2),
   FillEvent(o2, f2, s1, "SELL", 2, 1),
   FillEvent(NoOrder, f2, s2, "BUY", 1, 1),
   [type |-> "RISK_BLOCK", reason |-> "spread"]}
=============================================================================
