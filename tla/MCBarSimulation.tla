-------------------------- MODULE MCBarSimulation --------------------------
(* Backtests of a few candles under twelve settings, for TLC.              *)
EXTENDS BarSimulation

Plain ==
  [side |-> "long", latency |-> 0, cooldown |-> 0, margin |-> 10, weight |-> 0, premium |-> 0,
   partial |-> 0, explicit |-> <<>>, empty |-> FALSE, full |-> FALSE, tiers |-> <<>>, realistic |-> FALSE]

(* The larger a position, the more of it is liquidated at once.            *)
TwoTiers ==
  <<[max_notional |-> 8000, margin |-> 10, schedule |-> <<50, 100>>, ratio |-> 0],
    [max_notional |-> 16000, margin |-> 20, schedule |-> <<>>, ratio |-> 50]>>

Late == [Plain EXCEPT !.latency = 1, !.cooldown = 1, !.partial = 50]

MCSettings ==
  {Plain, [Plain EXCEPT !.tiers = TwoTiers], [Plain EXCEPT !.explicit = <<50, 100>>, !.side = "short"],
   [Plain EXCEPT !.full = TRUE, !.tiers = TwoTiers], [Plain EXCEPT !.partial = 100, !.tiers = TwoTiers],
   [Plain EXCEPT !.empty = TRUE, !.tiers = TwoTiers],
   [Plain EXCEPT !.partial = 50, !.premium = 10],
   [Plain EXCEPT !.side = "short", !.latency = 2, !.weight = 100],
   Late, [Late EXCEPT !.realistic = TRUE], [Plain EXCEPT !.realistic = TRUE, !.latency = 1],
   [Plain EXCEPT !.realistic = TRUE, !.latency = 2]}
=============================================================================
