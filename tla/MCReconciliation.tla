-------------------------- MODULE MCReconciliation --------------------------
(***************************************************************************)
(* PartialFills: one order bought in two parts at two prices, of which the *)
(* average can be stated.  RoundTrip: an order that buys and another that  *)
(* sells, so that the position returns to zero.                            *)
(***************************************************************************)
EXTENDS Reconciliation

CONSTANTS o1, o2, f1, f2, s1

FillOf(id, o, side, p) ==
  [id |-> id, order |-> o, symbol |-> s1, side |-> side, qty |-> 1, price |-> p]

PartialFills == {FillOf(f1, o1, "BUY", 1), FillOf(f2, o1, "BUY", 3)}

RoundTrip == {FillOf(f1, o1, "BUY", 1), FillOf(f2, o2, "SELL", 2)}
=============================================================================
