---------------------------- MODULE BarSimulation ----------------------------
(***************************************************************************)
(* The three bar loops of the backtester, run side by side on the same     *)
(* candles and signals: "single" is simulate_strategy, which scores a      *)
(* strategy; "reference" is _simulate_single_python and "kernel" the        *)
(* compiled _simulate_core, which score the sets of a parameter sweep.     *)
(*                                                                         *)
(* Per bar each loop marks the open position and charges its funding,      *)
(* liquidates some of it, or else opens or closes on a signal; what is     *)
(* left is closed after the last bar.  With a latency an order signalled   *)
(* at a bar is filled at the close of a later one.                         *)
(*                                                                         *)
(* Prices are integers, sizes are lots, ratios and margins percents.       *)
(* Money is counted in 1/10000, so that fees in basis points are exact.    *)
(* The slippage models give one rate each; of the depth only what it       *)
(* leaves of an order is kept.                                             *)
(***************************************************************************)
EXTENDS Integers, Sequences, FiniteSetsExt

CONSTANTS
  Bars,       (* number of candles                                         *)
  Prices,     (* closes                                                    *)
  Depths,     (* lots of an order the book takes within a bar              *)
  FullSize,   (* lots of a whole position                                  *)
  Leverage,   (* position_leverage                                         *)
  FeeBps, SlipBps, LiquidationBps, AdverseBps, FundingBps,
  Settings    (* the parameters of a simulation                            *)

(* partial and explicit: partial_liquidation_ratio, 0 when it was not      *)
(* given, and liquidation_step_schedule, empty when it was not; empty: the *)
(* single simulation was given an empty one, as the app does by default (a *)
(* sweep is given none); full: a venue profile of style "full"; tiers:     *)
(* maintenance_margin_schedule, sorted; realistic: the slippage model;     *)
(* weight and premium: of the mark price in the trigger.                   *)
Tier == [max_notional : Nat, margin : Nat, schedule : Seq(1..100), ratio : 0..100]
Setting ==
  [side : {"long", "short"}, latency : Nat, cooldown : Nat, margin : Nat, weight : 0..100,
   premium : Nat, partial : 0..100, explicit : Seq(1..100), empty : BOOLEAN,
   full : BOOLEAN, tiers : Seq(Tier), realistic : BOOLEAN]

ASSUME BarSimulationAssumption ==
  /\ Bars \in Nat \ {0} /\ FullSize \in Nat \ {0} /\ Leverage \in Nat \ {0}
  /\ Prices \subseteq Nat \ {0} /\ Depths \subseteq Nat
  /\ {FeeBps, SlipBps, LiquidationBps, AdverseBps, FundingBps} \subseteq Nat
  /\ Settings \subseteq Setting

VARIABLES
  p,       (* the setting of this simulation                               *)
  close,   (* the closes of the snapshot                                   *)
  depth,   (* its depth series                                             *)
  bar,     (* the bar to be simulated next, Bars + 2 when all is done      *)
  acct     (* the local variables of each loop                             *)

vars == <<p, close, depth, bar, acct>>

Engines == {"single", "reference", "kernel"}
Scale == 10000
Sign == IF p.side = "long" THEN 1 ELSE -1

(* mark is the last value of the equity curve.  cash, the money the fills  *)
(* moved, and fills, with their bars, are auxiliary.                       *)
Flat ==
  [size |-> 0, price |-> 0, filled |-> -1, until |-> -1, step |-> 0, trades |-> 0, wins |-> 0,
   gross |-> 0, fee |-> 0, funding |-> 0, mark |-> 0, cash |-> 0, fills |-> <<>>]

Init ==
  /\ p \in Settings
  /\ close \in [1..Bars -> Prices]
  /\ depth \in [1..Bars -> IF p.realistic THEN Depths ELSE {FullSize}]
  /\ bar = 1
  /\ acct = [e \in Engines |-> Flat]

Equity(a) == Scale * a.gross - a.fee - a.funding
Unrealized(a, i) == Scale * Sign * (close[i] - a.price) * a.size

(* What a fill of so many lots at a price costs and moves.                 *)
Cost(price, lots, bps) == price * lots * bps
Filled(a, i, price, lots, direction) ==
  [a EXCEPT !.cash = @ - direction * Sign * price * lots, !.fills = Append(@, [bar |-> i, entry |-> direction = 1])]

Marked(a, i) ==
  LET b == [a EXCEPT !.funding = @ + Sign * close[i] * a.size * FundingBps]
  IN  [b EXCEPT !.mark = Equity(b) + Unrealized(b, i)]
----------------------------------------------------------------------------
(* Liquidation                                                             *)

(* The first tier that admits the notional, else the last.                 *)
TierOf(a) ==
  LET fits == {k \in DOMAIN p.tiers : a.price * a.size <= p.tiers[k].max_notional}
  IN  p.tiers[IF fits = {} THEN Len(p.tiers) ELSE Min(fits)]

Margin(a) == IF p.tiers = <<>> THEN p.margin ELSE TierOf(a).margin

LiquidationPrice(a) ==
  (a.price * (100 - Sign * ((100 \div Leverage) - Margin(a)))) \div 100

(* extreme: the low of the candle for a long position, the high for a      *)
(* short one.                                                              *)
TriggerPrice(i, extreme) ==
  ((extreme * (100 - p.weight) + close[i] * p.weight) * (100 - Sign * p.premium)) \div 10000

Triggered(a, i, extreme) ==
  /\ a.size > 0
  /\ Sign * TriggerPrice(i, extreme) <= Sign * LiquidationPrice(a)
  /\ i > a.until

StepOf(schedule, default, step) ==
  IF schedule = <<>> THEN default ELSE schedule[Min({step + 1, Len(schedule)})]

DefaultRatio == IF p.partial = 0 THEN 100 ELSE p.partial

(* What the tier says, for a loop that asks it.                            *)
TierRatio(a) ==
  IF TierOf(a).schedule # <<>> THEN StepOf(TierOf(a).schedule, 100, a.step)
  ELSE IF TierOf(a).ratio > 0 THEN TierOf(a).ratio
  ELSE DefaultRatio

(* A ratio or a schedule, be it empty, was given to the single simulation: *)
(* it then looks no further than these.                                    *)
Given == p.partial # 0 \/ p.explicit # <<>> \/ p.empty

SingleRatio(a) ==
  IF p.full /\ ~Given THEN 100
  ELSE IF Given \/ p.tiers = <<>>
  THEN StepOf(p.explicit, DefaultRatio, a.step)
  ELSE TierRatio(a)

ReferenceRatio(a) ==
  IF p.explicit # <<>> \/ DefaultRatio # 100 \/ p.tiers = <<>>
  THEN StepOf(p.explicit, DefaultRatio, a.step)
  ELSE TierRatio(a)

(* Mutant: the compiled loop never advances its schedule.                  *)
KernelRatioFirst(a) ==
  IF p.explicit = <<>> /\ DefaultRatio = 100 /\ p.cooldown = 0 /\ p.tiers # <<>>
  THEN TierRatio(a)
  ELSE StepOf(p.explicit, DefaultRatio, 0)

KernelRatio(a) ==
  IF p.explicit = <<>> /\ DefaultRatio = 100 /\ p.cooldown = 0 /\ p.tiers # <<>>
  THEN TierRatio(a)
  ELSE StepOf(p.explicit, DefaultRatio, a.step)

(* Mutant: whatever is reduced is closed.                                  *)
ReducedToNothing(a, lots, endsCooldown) ==
  [a EXCEPT !.size = 0, !.price = 0, !.filled = -1]

(* A closed position leaves nothing behind, except that only some loops    *)
(* end its cooldown.                                                       *)
Reduced(a, lots, endsCooldown) ==
  IF a.size > lots THEN [a EXCEPT !.size = @ - lots]
  ELSE [a EXCEPT !.size = 0, !.price = 0, !.filled = -1,
                 !.until = IF endsCooldown THEN -1 ELSE @,
                 !.step = IF endsCooldown THEN 0 ELSE @]

Liquidated(a, i, ratio, endsCooldown) ==
  LET liq == LiquidationPrice(a)
      lots == (a.size * ratio) \div 100
      b == [Filled(a, i, liq, lots, -1) EXCEPT
              !.fee = @ + Cost(liq, lots, FeeBps + SlipBps + LiquidationBps),
              !.gross = @ + Sign * (liq - a.price) * lots,
              !.trades = @ + 1, !.until = i + p.cooldown, !.step = @ + 1]
      c == Reduced(b, lots, endsCooldown)
  IN  [c EXCEPT !.mark = Equity(c) + Unrealized(c, i)]

SingleLiquidated(a, i) == Liquidated(a, i, SingleRatio(a), FALSE)
ReferenceLiquidated(a, i) == Liquidated(a, i, ReferenceRatio(a), TRUE)
KernelLiquidated(a, i) == Liquidated(a, i, KernelRatio(a), TRUE)
----------------------------------------------------------------------------
(* Entry and exit                                                          *)

FillBar(i) == Min({i + p.latency, Bars})

(* What the book takes of an order, and the price it then gets.            *)
Executed(lots, i) == Min({lots, depth[i]})
Adverse(lots, i) == IF p.realistic /\ Executed(lots, i) < lots THEN AdverseBps ELSE 0
FillPrice(lots, i, direction) == (close[i] * (Scale + direction * Sign * Adverse(lots, i))) \div Scale

(* The single loop charges slippage in the price or as a cost, the other   *)
(* two charge both.                                                        *)
ResidualBps(lots, i) == IF Adverse(lots, i) > 0 THEN FeeBps ELSE FeeBps + SlipBps
BothBps(lots, i) == FeeBps + SlipBps

Entered(a, i, bps, endsCooldown) ==
  LET f == FillBar(i)
      lots == Executed(FullSize, f)
      price == FillPrice(FullSize, f, 1)
      b == [Filled(a, f, price, lots, 1) EXCEPT
              !.size = lots, !.price = price, !.filled = f, !.step = 0,
              !.fee = @ + Cost(price, lots, bps),
              !.until = IF endsCooldown THEN -1 ELSE @]
  IN  IF lots = 0 THEN a ELSE [b EXCEPT !.mark = Equity(b)]

Exited(a, i, bps) ==
  LET f == FillBar(i)
      lots == Executed(a.size, f)
      price == FillPrice(a.size, f, -1)
      won == Scale * Sign * (price - a.price) * lots > Cost(price, lots, bps)
      b == [Filled(a, f, price, lots, -1) EXCEPT
              !.fee = @ + Cost(price, lots, bps),
              !.gross = @ + Sign * (price - a.price) * lots,
              !.trades = @ + 1, !.wins = @ + (IF won THEN 1 ELSE 0)]
      c == [Reduced(b, lots, FALSE) EXCEPT !.mark = Equity(b)]
  IN  IF lots = 0 THEN a ELSE c

SingleEntered(a, i) == Entered(a, i, ResidualBps(FullSize, FillBar(i)), FALSE)
ReferenceEntered(a, i) == Entered(a, i, BothBps(FullSize, FillBar(i)), TRUE)
KernelEntered(a, i) == Entered(a, i, BothBps(FullSize, FillBar(i)), TRUE)

SingleExited(a, i) == Exited(a, i, ResidualBps(a.size, FillBar(i)))
ReferenceExited(a, i) == Exited(a, i, BothBps(a.size, FillBar(i)))
KernelExited(a, i) == Exited(a, i, BothBps(a.size, FillBar(i)))
----------------------------------------------------------------------------
(* The loops                                                               *)

(* One bar: liquidate, or else enter or exit on the signal.                *)
Bar(m, i, liquidates, liquidated, entered, exited, entry, exit) ==
  IF liquidates THEN liquidated
  ELSE IF m.size = 0 /\ entry THEN entered
  ELSE IF m.size > 0 /\ i >= m.filled /\ exit THEN exited
  ELSE m

(* Mutant: a position may be liquidated before its order was filled.       *)
SingleBarEarly(a, i, entry, exit, extreme) ==
  LET m == Marked(a, i)
  IN  Bar(m, i, Triggered(m, i, extreme),
          SingleLiquidated(m, i), SingleEntered(m, i), SingleExited(m, i), entry, exit)

SingleBar(a, i, entry, exit, extreme) ==
  LET m == Marked(a, i)
  IN  Bar(m, i, Triggered(m, i, extreme) /\ i >= m.filled,
          SingleLiquidated(m, i), SingleEntered(m, i), SingleExited(m, i), entry, exit)

ReferenceBar(a, i, entry, exit, extreme) ==
  LET m == Marked(a, i)
  IN  Bar(m, i, Triggered(m, i, extreme) /\ i > m.filled,
          ReferenceLiquidated(m, i), ReferenceEntered(m, i), ReferenceExited(m, i), entry, exit)

KernelBar(a, i, entry, exit, extreme) ==
  LET m == Marked(a, i)
  IN  Bar(m, i, Triggered(m, i, extreme) /\ i > m.filled,
          KernelLiquidated(m, i), KernelEntered(m, i), KernelExited(m, i), entry, exit)

(* What is open after the last bar is closed at its close.                 *)
Closed(a) ==
  LET price == close[Bars]
      cost == Cost(price, a.size, FeeBps + SlipBps)
      gain == Sign * (price - a.price) * a.size
      b == [Filled(a, Bars, price, a.size, -1) EXCEPT
              !.fee = @ + cost, !.gross = @ + gain, !.trades = @ + 1,
              !.wins = @ + (IF Scale * gain > cost THEN 1 ELSE 0)]
      c == [b EXCEPT !.size = 0]
  IN  IF a.size = 0 THEN a ELSE [c EXCEPT !.mark = Equity(c)]

SingleClosed(a) == Closed(a)
ReferenceClosed(a) == Closed(a)
KernelClosed(a) == Closed(a)

(* The candle touches its close and possibly a price half as far away.     *)
SimulateBar ==
  /\ bar <= Bars
  /\ \E entry, exit \in BOOLEAN, reach \in {0, 50} :
       LET extreme == (close[bar] * (100 - Sign * reach)) \div 100
       IN  acct' = [single |-> SingleBar(acct["single"], bar, entry, exit, extreme),
                    reference |-> ReferenceBar(acct["reference"], bar, entry, exit, extreme),
                    kernel |-> KernelBar(acct["kernel"], bar, entry, exit, extreme)]
  /\ bar' = bar + 1
  /\ UNCHANGED <<p, close, depth>>

CloseSeries ==
  /\ bar = Bars + 1
  /\ acct' = [single |-> SingleClosed(acct["single"]), reference |-> ReferenceClosed(acct["reference"]),
              kernel |-> KernelClosed(acct["kernel"])]
  /\ bar' = bar + 1
  /\ UNCHANGED <<p, close, depth>>

Next == SimulateBar \/ CloseSeries

Spec == Init /\ [][Next]_vars
----------------------------------------------------------------------------
(* Properties                                                              *)

Result(a) == <<a.trades, a.wins, a.gross, a.fee, a.funding, a.mark>>

(* An explicit ratio of 100 or an empty schedule, both of which the app    *)
(* passes by default, turns the tiers off in the single simulation; the    *)
(* sweep takes the ratio for none given and gets no schedule.              *)
TiersTurnedOff ==
  p.partial \in {0, 100} /\ (p.partial = 100 \/ p.empty) /\ p.explicit = <<>> /\ p.tiers # <<>>

(* The results of two loops are the same number for number, bar by bar:    *)
(* those of the kernel and the reference whenever no cooldown is set (the  *)
(* sweep never sets one), with any latency, book and tiers; those of the   *)
(* sweep and the single simulation when fills are immediate and whole, no  *)
(* cooldown or full-liquidation profile is set and the tiers count in      *)
(* both.  Scores of a sweep are compared with scores of single runs.       *)
EnginesAgree ==
  p.cooldown = 0 =>
    /\ Result(acct["kernel"]) = Result(acct["reference"])
    /\ p.latency = 0 /\ ~p.realistic /\ ~p.full /\ ~TiersTurnedOff =>
         Result(acct["single"]) = Result(acct["reference"])

(* The gross result of a loop, kept as a sum of price differences, is the  *)
(* money its fills moved plus the open lots at their entry price: no lot   *)
(* is closed twice or forgotten by partial liquidations, partial exits,    *)
(* entries the book takes in part, latencies or the end of the series.     *)
PnlIsCash ==
  \A e \in Engines : acct[e].gross = acct[e].cash + Sign * acct[e].price * acct[e].size

(* No loop fills an order before an earlier one: a position is not         *)
(* liquidated or left before the bar that opened it, nor opened before     *)
(* the bar that closed the one before, whatever the latency.  The rest of  *)
(* a partial exit alone may be liquidated before that exit is filled.      *)
FillsInOrder ==
  \A e \in Engines : \A j, k \in DOMAIN acct[e].fills :
    LET earlier == acct[e].fills[j]
        later == acct[e].fills[k]
    IN  j < k => \/ earlier.bar <= later.bar
                 \/ ~earlier.entry /\ ~later.entry /\ p.realistic /\ p.latency > 1
=============================================================================
