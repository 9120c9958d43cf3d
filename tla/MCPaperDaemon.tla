---------------------------- MODULE MCPaperDaemon ----------------------------
(***************************************************************************)
(* Fixtures of any two, or of three different ones, of these intents: two  *)
(* sizes on one symbol (so that the symbol limit binds), one on the other  *)
(* symbol (so that the aggregate limit binds) and one that fails every     *)
(* test of the market, so that it is refused twice for its depth.  The     *)
(* small one reduces.  One artifact at most lacks full authority.          *)
(***************************************************************************)
EXTENDS PaperDaemon, TLC

CONSTANTS s1, s2

ProcessSymmetry == Permutations(Processes)

Calm == [seen |-> TRUE, wide |-> FALSE, thin |-> FALSE, short |-> FALSE]
Adverse == [seen |-> TRUE, wide |-> TRUE, thin |-> TRUE, short |-> TRUE]

MCIntents ==
  {[key |-> 1, symbol |-> s1, notional |-> 2, market |-> Calm, reduce |-> FALSE],
   [key |-> 2, symbol |-> s1, notional |-> 1, market |-> Calm, reduce |-> TRUE],
   [key |-> 3, symbol |-> s2, notional |-> 2, market |-> Calm, reduce |-> FALSE],
   [key |-> 4, symbol |-> s2, notional |-> 2, market |-> Adverse, reduce |-> FALSE]}

MCFixtures ==
  [1..2 -> MCIntents] \cup {f \in [1..3 -> MCIntents] : \A j, k \in 1..3 : j # k => f[j] # f[k]}

MCAuthorities == {<<"valid", "valid">>, <<"valid", "expired">>, <<"valid", "invalid">>}
=============================================================================
