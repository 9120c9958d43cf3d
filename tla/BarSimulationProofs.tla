------------------------- MODULE BarSimulationProofs -------------------------
(***************************************************************************)
(* What holds of the three bar loops for any candles, book and setting:    *)
(* the gross result is the money the fills moved, fills follow each other, *)
(* and the loops agree where they promise to.                              *)
(***************************************************************************)
EXTENDS BarSimulation, WellFoundedInduction, TLAPS

Fill == [bar : Int, entry : BOOLEAN]

Account ==
  [size : Nat, price : Int, filled : Int, until : Int, step : Nat, trades : Int, wins : Int,
   gross : Int, fee : Int, funding : Int, mark : Int, cash : Int, fills : Seq(Fill)]

(* The input of a simulation.                                              *)
Input ==
  /\ p \in Setting
  /\ close \in [1..Bars -> Nat]
  /\ depth \in [1..Bars -> Nat]
  /\ ~p.realistic => \A i \in 1..Bars : depth[i] = FullSize

Balanced(a) == a.gross = a.cash + Sign * a.price * a.size

InOrder(earlier, later) ==
  \/ earlier.bar <= later.bar
  \/ ~earlier.entry /\ ~later.entry /\ p.realistic /\ p.latency > 1

OrderedFills(fs) == \A j, k \in DOMAIN fs : j < k => InOrder(fs[j], fs[k])

(* Before bar i, no fill is later than what an order of the bar before may *)
(* wait for.                                                               *)
FilledByNow(a, i) ==
  \A k \in DOMAIN a.fills : a.fills[k].bar <= Bars /\ a.fills[k].bar <= i - 1 + p.latency

(* What opened the position does not come after its bar, and nothing does  *)
(* if every exit is whole or filled at the next bar.                       *)
OpenedInOrder(a, i) ==
  a.size > 0 =>
    /\ \A k \in DOMAIN a.fills : a.fills[k].entry => a.fills[k].bar <= a.filled
    /\ ~p.realistic \/ p.latency <= 1 =>
         \A k \in DOMAIN a.fills : a.fills[k].bar <= a.filled \/ a.fills[k].bar <= i

Sound(a, i) ==
  /\ a \in Account
  /\ a.size <= FullSize
  /\ Balanced(a)
  /\ OrderedFills(a.fills)
  /\ FilledByNow(a, i)
  /\ OpenedInOrder(a, i)

IInv ==
  /\ Input
  /\ bar \in 1..Bars + 2
  /\ DOMAIN acct = Engines
  /\ \A e \in Engines : Sound(acct[e], bar)

-----------------------------------------------------------------------------
(* Arithmetic                                                              *)

LEMMA MinOfTwo ==
  ASSUME NEW m \in Int, NEW n \in Int
  PROVE  Min({m, n}) \in {m, n} /\ Min({m, n}) <= m /\ Min({m, n}) <= n
<1>1. \E x \in {m, n} : \A y \in {m, n} : x <= y
  OBVIOUS
<1> QED
  BY <1>1 DEF Min

(* A share of at most the whole.                                           *)
LEMMA ShareOfLots ==
  ASSUME NEW size \in Nat, NEW ratio \in 0..100
  PROVE  (size * ratio) \div 100 \in 0..size
<1>1. size * ratio \in Nat /\ size * (100 - ratio) \in Nat
  OBVIOUS
<1>2. size * ratio <= size * 100
  BY <1>1
<1> DEFINE m == size * ratio
<1>3. m \in Nat /\ m <= 100 * size
  BY <1>1, <1>2
<1> HIDE DEF m
<1>4. m \div 100 \in 0..size
  BY <1>3
<1> QED
  BY <1>4 DEF m

LEMMA LeastOfNaturals ==
  ASSUME NEW S \in SUBSET Nat, S # {}
  PROVE  \E x \in S : \A y \in S : x <= y
<1> DEFINE Less == {ss \in Nat \X Nat : ss[1] < ss[2]}
<1>1. IsWellFoundedOn(Less, Nat)
  BY NatLessThanWellFounded, Zenon DEF OpToRel
<1> HIDE DEF Less
<1>2. PICK x \in S : \A y \in S : ~(<<y, x>> \in Less)
  BY <1>1, WFMin, Zenon
<1>3. ASSUME NEW y \in S PROVE x <= y
  <2>1. x \in Nat /\ y \in Nat /\ <<y, x>> \notin Less
    BY <1>2
  <2>2. ~(y < x)
    BY <2>1 DEF Less
  <2> QED
    BY <2>1, <2>2
<1> QED
  BY <1>3

LEMMA ElementOfSequence ==
  ASSUME NEW T, NEW s \in Seq(T), NEW k \in 1..Len(s)
  PROVE  s[k] \in T
OBVIOUS

LEMMA SignIsUnit == Sign \in {-1, 1}
BY DEF Sign

-----------------------------------------------------------------------------
(* Types of what the loops compute                                         *)

LEMMA TierIsTier ==
  ASSUME Input, NEW a \in Account, p.tiers # <<>>
  PROVE  TierOf(a) \in Tier
<1> DEFINE fits == {k \in DOMAIN p.tiers : a.price * a.size <= p.tiers[k].max_notional}
<1>1. p.tiers \in Seq(Tier)
  BY DEF Input, Setting
<1>2. DOMAIN p.tiers = 1..Len(p.tiers) /\ Len(p.tiers) \in Nat /\ Len(p.tiers) > 0
  BY <1>1
<1>3. CASE fits = {}
  <2>1. TierOf(a) = p.tiers[Len(p.tiers)]
    BY <1>3 DEF TierOf
  <2> QED
    BY <1>1, <1>2, <2>1
<1>4. CASE fits # {}
  <2>1. fits \subseteq 1..Len(p.tiers)
    BY <1>2
  <2>2. \E x \in fits : \A y \in fits : x <= y
    <3> HIDE DEF fits
    <3>1. fits \subseteq Nat /\ fits # {}
      BY <1>2, <1>4, <2>1
    <3> QED
      BY <3>1, LeastOfNaturals
  <2>3. Min(fits) \in fits
    BY <2>2 DEF Min
  <2>4. TierOf(a) = p.tiers[Min(fits)]
    BY <1>4 DEF TierOf
  <2> DEFINE k == Min(fits)
  <2>5. TierOf(a) = p.tiers[k] /\ k \in 1..Len(p.tiers)
    BY <2>1, <2>3, <2>4
  <2> HIDE DEF k
  <2> QED
    BY <1>1, <2>5
<1> QED
  BY <1>3, <1>4

LEMMA LiquidationPriceInt ==
  ASSUME Input, BarSimulationAssumption, NEW a \in Account
  PROVE  LiquidationPrice(a) \in Int
<1>1. Margin(a) \in Int
  <2>1. CASE p.tiers = <<>>
    BY <2>1 DEF Margin, Input, Setting
  <2>2. CASE p.tiers # <<>>
    <3>1. TierOf(a) \in Tier
      BY <2>2, TierIsTier
    <3> QED
      BY <2>2, <3>1 DEF Margin, Tier
  <2> QED
    BY <2>1, <2>2
<1>2. 100 \div Leverage \in Int
  BY DEF BarSimulationAssumption
<1> DEFINE share == 100 - Sign * ((100 \div Leverage) - Margin(a))
<1>3. share \in Int
  BY <1>1, <1>2, SignIsUnit
<1> HIDE DEF share
<1>4. a.price * share \in Int
  <2>1. a.price \in Int
    BY DEF Account
  <2> QED
    BY ONLY <1>3, <2>1
<1> DEFINE hundredfold == a.price * share
<1>5. hundredfold \in Int
  BY <1>4
<1> HIDE DEF hundredfold
<1>6. hundredfold \div 100 \in Int
  BY <1>5
<1> QED
  BY <1>6 DEF LiquidationPrice, hundredfold, share

LEMMA StepIsShare ==
  ASSUME NEW schedule \in Seq(1..100), NEW default \in 0..100, NEW step \in Nat
  PROVE  StepOf(schedule, default, step) \in 0..100
<1>1. CASE schedule = <<>>
  BY <1>1 DEF StepOf
<1>2. CASE schedule # <<>>
  <2>1. Len(schedule) \in Nat /\ Len(schedule) > 0
    BY <1>2
  <2> DEFINE k == Min({step + 1, Len(schedule)})
  <2>2. step + 1 \in Int /\ Len(schedule) \in Int
    BY <2>1
  <2>3. k \in {step + 1, Len(schedule)} /\ k <= Len(schedule)
    BY <2>2, MinOfTwo, Zenon
  <2>4. StepOf(schedule, default, step) = schedule[k]
    BY <1>2 DEF StepOf
  <2> HIDE DEF k
  <2>5. k \in 1..Len(schedule)
    BY <2>1, <2>3
  <2>6. schedule[k] \in 1..100
    BY <2>5, ElementOfSequence
  <2> QED
    BY <2>4, <2>6
<1> QED
  BY <1>1, <1>2

LEMMA RatiosAreShares ==
  ASSUME Input, NEW a \in Account
  PROVE  SingleRatio(a) \in 0..100 /\ ReferenceRatio(a) \in 0..100 /\ KernelRatio(a) \in 0..100
<1>1. DefaultRatio \in 0..100 /\ p.explicit \in Seq(1..100) /\ a.step \in Nat
  BY DEF DefaultRatio, Input, Setting, Account
<1>0. 100 \in 0..100
  OBVIOUS
<1>2. StepOf(p.explicit, DefaultRatio, a.step) \in 0..100
  BY <1>1, StepIsShare
<1>3. ASSUME p.tiers # <<>> PROVE TierRatio(a) \in 0..100
  <2>1. TierOf(a).schedule \in Seq(1..100) /\ TierOf(a).ratio \in 0..100
    BY <1>3, TierIsTier DEF Tier
  <2>2. StepOf(TierOf(a).schedule, 100, a.step) \in 0..100
    BY <1>1, <1>0, <2>1, StepIsShare
  <2> QED
    BY <1>1, <2>1, <2>2 DEF TierRatio
<1>4. SingleRatio(a) \in 0..100
  BY <1>0, <1>2, <1>3 DEF SingleRatio
<1>5. ReferenceRatio(a) \in 0..100 /\ KernelRatio(a) \in 0..100
  BY <1>2, <1>3 DEF ReferenceRatio, KernelRatio
<1> QED
  BY <1>4, <1>5

(* What the book takes is part of the order.                               *)
LEMMA ExecutedFits ==
  ASSUME Input, NEW lots \in Nat, NEW i \in 1..Bars
  PROVE  Executed(lots, i) \in 0..lots
<1>1. depth[i] \in Nat /\ lots \in Int /\ depth[i] \in Int
  BY DEF Input
<1>2. Executed(lots, i) \in {lots, depth[i]} /\ Executed(lots, i) <= lots
  BY <1>1, MinOfTwo, Zenon DEF Executed
<1> QED
  BY <1>1, <1>2

LEMMA FillPriceInt ==
  ASSUME Input, BarSimulationAssumption, NEW lots \in Nat, NEW i \in 1..Bars, NEW direction \in {-1, 1}
  PROVE  FillPrice(lots, i, direction) \in Int
<1>1. Adverse(lots, i) \in Int
  BY DEF Adverse, BarSimulationAssumption
<1> DEFINE share == Scale + direction * Sign * Adverse(lots, i)
<1>2. share \in Int
  BY <1>1, SignIsUnit DEF Scale
<1> HIDE DEF share
<1> DEFINE scaled == close[i] * share
<1>3. scaled \in Int
  BY <1>2 DEF Input
<1> HIDE DEF scaled
<1>4. scaled \div 10000 \in Int
  BY <1>3
<1> QED
  BY <1>4 DEF FillPrice, Scale, share, scaled

LEMMA FillBarBounds ==
  ASSUME Input, BarSimulationAssumption, NEW i \in 1..Bars
  PROVE  FillBar(i) \in i..Bars /\ FillBar(i) <= i + p.latency
<1>1. i + p.latency \in Int /\ Bars \in Int /\ p.latency \in Nat /\ i <= Bars
  BY DEF Input, Setting, BarSimulationAssumption
<1>2. /\ FillBar(i) \in {i + p.latency, Bars}
      /\ FillBar(i) <= i + p.latency /\ FillBar(i) <= Bars
  BY <1>1, MinOfTwo, Zenon DEF FillBar
<1> QED
  BY <1>1, <1>2

-----------------------------------------------------------------------------
(* One fill                                                                *)

(* The same position and the same money.                                   *)
Same(a, b) ==
  /\ b.size = a.size /\ b.price = a.price /\ b.filled = a.filled
  /\ b.gross = a.gross /\ b.cash = a.cash /\ b.fills = a.fills

(* r is a after lots of its position were closed at bar f.                 *)
Reduction(a, r, f, price, lots) ==
  /\ r \in Account
  /\ r.size = a.size - lots
  /\ r.size > 0 => r.price = a.price /\ r.filled = a.filled
  /\ r.gross = a.gross + Sign * (price - a.price) * lots
  /\ r.cash = a.cash + Sign * price * lots
  /\ r.fills = Append(a.fills, [bar |-> f, entry |-> FALSE])

LEMMA SameIsSound ==
  ASSUME NEW a, NEW b \in Account, NEW i, Sound(a, i), Same(a, b)
  PROVE  Sound(b, i)
BY DEF Sound, Same, Balanced, FilledByNow, OpenedInOrder

LEMMA AppendedFill ==
  ASSUME NEW fs \in Seq(Fill), NEW x \in Fill
  PROVE  /\ DOMAIN Append(fs, x) = DOMAIN fs \cup {Len(fs) + 1}
         /\ DOMAIN fs = 1..Len(fs) /\ Len(fs) \in Nat
         /\ \A k \in DOMAIN fs : Append(fs, x)[k] = fs[k] /\ fs[k] \in Fill
         /\ Append(fs, x)[Len(fs) + 1] = x
OBVIOUS

LEMMA AppendKeepsOrder ==
  ASSUME NEW fs \in Seq(Fill), NEW x \in Fill, OrderedFills(fs),
         \A k \in DOMAIN fs : InOrder(fs[k], x)
  PROVE  OrderedFills(Append(fs, x))
<1> DEFINE gs == Append(fs, x)
<1>1. /\ DOMAIN gs = DOMAIN fs \cup {Len(fs) + 1}
      /\ DOMAIN fs = 1..Len(fs) /\ Len(fs) \in Nat
      /\ \A k \in DOMAIN fs : gs[k] = fs[k]
      /\ gs[Len(fs) + 1] = x
  BY AppendedFill
<1> HIDE DEF gs
<1> SUFFICES ASSUME NEW j \in DOMAIN gs, NEW k \in DOMAIN gs, j < k PROVE InOrder(gs[j], gs[k])
  BY DEF OrderedFills, gs
<1>2. j \in DOMAIN fs
  BY <1>1
<1>3. CASE k \in DOMAIN fs
  BY <1>1, <1>2, <1>3 DEF OrderedFills
<1>4. CASE k = Len(fs) + 1
  BY <1>1, <1>2, <1>4
<1> QED
  BY <1>1, <1>3, <1>4

LEMMA FillsAreFills ==
  ASSUME NEW a \in Account
  PROVE  \A k \in DOMAIN a.fills :
           a.fills[k] \in Fill /\ a.fills[k].bar \in Int /\ a.fills[k].entry \in BOOLEAN
<1>1. a.fills \in Seq(Fill)
  BY DEF Account
<1>2. \A k \in DOMAIN a.fills : a.fills[k] \in Fill
  BY <1>1
<1> QED
  BY <1>2 DEF Fill

LEMMA ReductionIsSound ==
  ASSUME Input, BarSimulationAssumption, NEW i \in 1..Bars + 1, NEW a, NEW r, Sound(a, i), a.size > 0,
         NEW f \in 1..Bars, f <= i + p.latency, NEW lots \in 0..a.size, NEW price \in Int,
         Reduction(a, r, f, price, lots),
         \A k \in DOMAIN a.fills : InOrder(a.fills[k], [bar |-> f, entry |-> FALSE]),
         r.size > 0 /\ (~p.realistic \/ p.latency <= 1) => f <= i + 1
  PROVE  Sound(r, i + 1)
<1> DEFINE x == [bar |-> f, entry |-> FALSE]
<1>1. a \in Account /\ r \in Account /\ x \in Fill /\ p.latency \in Nat /\ Bars \in Nat
  BY DEF Sound, Reduction, Fill, Input, Setting, BarSimulationAssumption
<1>2. a.fills \in Seq(Fill) /\ r.fills = Append(a.fills, x)
  BY <1>1 DEF Account, Reduction
<1>3. r.size \in Nat /\ r.size <= FullSize
  <2>1. a.size \in Nat /\ a.size <= FullSize /\ FullSize \in Nat
    BY <1>1 DEF Account, Sound, BarSimulationAssumption
  <2> QED
    BY <2>1 DEF Reduction
<1>4. Balanced(r)
  <2>1. /\ a.gross \in Int /\ a.cash \in Int /\ a.price \in Int /\ a.size \in Int /\ lots \in Int
        /\ a.gross = a.cash + Sign * a.price * a.size
    BY <1>1 DEF Account, Sound, Balanced
  <2>2. a.gross + Sign * (price - a.price) * lots
          = a.cash + Sign * price * lots + Sign * a.price * (a.size - lots)
    <3>1. CASE Sign = 1
      BY <2>1, <3>1
    <3>2. CASE Sign = -1
      BY <2>1, <3>2
    <3> QED
      BY <3>1, <3>2, SignIsUnit
  <2>3. r.gross = r.cash + Sign * a.price * r.size
    BY <2>2 DEF Reduction
  <2>4. CASE r.size > 0
    BY <2>3, <2>4 DEF Balanced, Reduction
  <2>5. CASE r.size = 0
    <3>1. r.gross \in Int /\ r.cash \in Int /\ r.price \in Int
      BY <1>1 DEF Account
    <3>2. r.gross = r.cash
      BY <2>1, <2>3, <2>5, <3>1, SignIsUnit
    <3> QED
      BY <2>5, <3>1, <3>2, SignIsUnit DEF Balanced
  <2> QED
    BY <1>3, <2>4, <2>5
<1>5. OrderedFills(r.fills)
  BY <1>1, <1>2, AppendKeepsOrder DEF Sound
<1>6. /\ DOMAIN r.fills = DOMAIN a.fills \cup {Len(a.fills) + 1}
      /\ \A k \in DOMAIN a.fills : r.fills[k] = a.fills[k] /\ a.fills[k] \in Fill
      /\ r.fills[Len(a.fills) + 1] = x
  BY <1>1, <1>2, AppendedFill
<1>7. FilledByNow(r, i + 1)
  <2>1. x.bar = f
    OBVIOUS
  <2>2. \A k \in DOMAIN a.fills :
          a.fills[k].bar \in Int /\ a.fills[k].bar <= Bars /\ a.fills[k].bar <= i - 1 + p.latency
    BY <1>6 DEF FilledByNow, Sound, Fill
  <2>3. ASSUME NEW k \in DOMAIN r.fills
        PROVE  r.fills[k].bar <= Bars /\ r.fills[k].bar <= i + p.latency
    <3>1. CASE k \in DOMAIN a.fills
      <4>1. r.fills[k].bar = a.fills[k].bar
        BY <1>6, <3>1
      <4>2. \A n \in Int : n <= i - 1 + p.latency => n <= i + p.latency
        BY <1>1
      <4> QED
        BY <2>2, <3>1, <4>1, <4>2
    <3>2. CASE k = Len(a.fills) + 1
      <4>1. r.fills[k].bar = f
        BY ONLY <1>6, <2>1, <3>2
      <4>2. f <= Bars /\ f <= i + p.latency
        OBVIOUS
      <4> QED
        BY ONLY <4>1, <4>2
    <3> QED
      BY <1>6, <3>1, <3>2, Zenon
  <2> QED
    BY <1>1, <2>3 DEF FilledByNow
<1>8. OpenedInOrder(r, i + 1)
  <2> SUFFICES ASSUME r.size > 0 PROVE OpenedInOrder(r, i + 1)
    BY DEF OpenedInOrder
  <2>1. r.filled = a.filled /\ a.filled \in Int /\ x.entry = FALSE /\ x.bar = f
    BY <1>1 DEF Reduction, Account
  <2> HIDE DEF x
  <2>2. \A k \in DOMAIN r.fills : r.fills[k].entry => r.fills[k].bar <= r.filled
    <3>1. \A k \in DOMAIN a.fills : a.fills[k].entry => a.fills[k].bar <= a.filled
      BY Zenon DEF Sound, OpenedInOrder
    <3> QED
      BY ONLY <1>6, <2>1, <3>1
  <2>3. ASSUME ~p.realistic \/ p.latency <= 1
        PROVE  \A k \in DOMAIN r.fills : r.fills[k].bar <= r.filled \/ r.fills[k].bar <= i + 1
    <3>1. \A k \in DOMAIN a.fills : a.fills[k].bar <= a.filled \/ a.fills[k].bar <= i
      BY <2>3, Zenon DEF Sound, OpenedInOrder
    <3>2. \A k \in DOMAIN a.fills : a.fills[k].bar \in Int
      BY <1>1, FillsAreFills, Zenon
    <3>3. \A n \in Int : n <= i => n <= i + 1
      OBVIOUS
    <3>4. f <= i + 1
      BY <2>3
    <3> QED
      BY ONLY <1>6, <2>1, <3>1, <3>2, <3>3, <3>4
  <2>4. ~p.realistic \/ p.latency <= 1 =>
          \A k \in DOMAIN r.fills : r.fills[k].bar <= r.filled \/ r.fills[k].bar <= i + 1
    BY <2>3
  <2> QED
    BY <2>1, <2>2, <2>4, Zenon DEF OpenedInOrder
<1> QED
  BY <1>1, <1>3, <1>4, <1>5, <1>7, <1>8 DEF Sound

(* What an order moves: an entry, and an exit or a liquidation.            *)
Moved(a, m, cash, x) ==
  /\ m \in Account
  /\ m.size = a.size /\ m.price = a.price /\ m.filled = a.filled /\ m.gross = a.gross
  /\ m.cash = cash
  /\ m.fills = Append(a.fills, x)

LEMMA EntryMoves ==
  ASSUME NEW a \in Account, NEW f \in Int, NEW price \in Int, NEW lots \in Int
  PROVE  Moved(a, Filled(a, f, price, lots, 1), a.cash - Sign * price * lots,
               [bar |-> f, entry |-> TRUE])
<1> DEFINE cash == a.cash - 1 * Sign * price * lots
           x == [bar |-> f, entry |-> 1 = 1]
           fills == Append(a.fills, x)
           m == Filled(a, f, price, lots, 1)
<1>1. m = [a EXCEPT !.cash = cash, !.fills = fills]
  BY DEF Filled
<1>2. x = [bar |-> f, entry |-> TRUE] /\ x \in Fill
  BY DEF Fill
<1>3. cash \in Int /\ cash = a.cash - Sign * price * lots
  BY SignIsUnit DEF Account
<1> HIDE DEF cash, x, m
<1>4. fills \in Seq(Fill)
  BY <1>2 DEF Account
<1> HIDE DEF fills
<1>5. /\ m \in Account /\ m.size = a.size /\ m.price = a.price /\ m.filled = a.filled
      /\ m.gross = a.gross /\ m.cash = cash /\ m.fills = fills
  BY <1>1, <1>3, <1>4 DEF Account
<1> QED
  BY <1>2, <1>3, <1>5 DEF m, fills, Moved

LEMMA ExitMoves ==
  ASSUME NEW a \in Account, NEW f \in Int, NEW price \in Int, NEW lots \in Int
  PROVE  Moved(a, Filled(a, f, price, lots, -1), a.cash + Sign * price * lots,
               [bar |-> f, entry |-> FALSE])
<1> DEFINE cash == a.cash - (-1) * Sign * price * lots
           x == [bar |-> f, entry |-> -1 = 1]
           fills == Append(a.fills, x)
           m == Filled(a, f, price, lots, -1)
<1>1. m = [a EXCEPT !.cash = cash, !.fills = fills]
  BY DEF Filled
<1>2. x = [bar |-> f, entry |-> FALSE] /\ x \in Fill
  <2>1. ~(-1 = 1)
    OBVIOUS
  <2>2. (-1 = 1) = FALSE
    BY <2>1, Zenon
  <2>3. x = [bar |-> f, entry |-> FALSE]
    BY <2>2, Zenon
  <2> QED
    BY <2>3 DEF Fill
<1>3. cash \in Int /\ cash = a.cash + Sign * price * lots
  BY SignIsUnit DEF Account
<1> HIDE DEF cash, x, m
<1>4. fills \in Seq(Fill)
  BY <1>2 DEF Account
<1> HIDE DEF fills
<1>5. /\ m \in Account /\ m.size = a.size /\ m.price = a.price /\ m.filled = a.filled
      /\ m.gross = a.gross /\ m.cash = cash /\ m.fills = fills
  BY <1>1, <1>3, <1>4 DEF Account
<1> QED
  BY <1>2, <1>3, <1>5 DEF m, fills, Moved

LEMMA CostInt ==
  ASSUME NEW price \in Int, NEW lots \in Int, NEW bps \in Int
  PROVE  Cost(price, lots, bps) \in Int
BY DEF Cost

(* Money is a number.                                                      *)
LEMMA ValuesInt ==
  ASSUME Input, NEW a \in Account, NEW i \in 1..Bars
  PROVE  Equity(a) \in Int /\ Unrealized(a, i) \in Int
<1>1. Equity(a) \in Int
  BY DEF Equity, Account, Scale
<1>2. close[i] \in Int /\ a.price \in Int /\ a.size \in Int
  BY DEF Input, Account
<1>3. Unrealized(a, i) \in Int
  BY <1>2, SignIsUnit DEF Unrealized, Scale
<1> QED
  BY <1>1, <1>3

LEMMA MarkedIsSound ==
  ASSUME Input, BarSimulationAssumption, NEW a, NEW i \in 1..Bars, Sound(a, i)
  PROVE  Sound(Marked(a, i), i)
<1> DEFINE charge == a.funding + Sign * close[i] * a.size * FundingBps
           b == [a EXCEPT !.funding = charge]
           worth == Equity(b) + Unrealized(b, i)
           m == [b EXCEPT !.mark = worth]
<1>1. a \in Account
  BY DEF Sound
<1>2. charge \in Int
  <2>1. a.funding \in Int /\ a.size \in Int /\ close[i] \in Int /\ FundingBps \in Int
    BY <1>1 DEF Account, Input, BarSimulationAssumption
  <2>2. Sign \in Int
    BY SignIsUnit
  <2> QED
    BY <2>1, <2>2
<1>3. Marked(a, i) = m
  BY DEF Marked
<1> HIDE DEF charge
<1>4. b \in Account /\ Same(a, b)
  BY <1>1, <1>2 DEF Account, Same
<1> HIDE DEF b
<1>5. worth \in Int
  BY <1>4, ValuesInt
<1> HIDE DEF worth
<1>6. m \in Account /\ Same(a, m)
  BY <1>4, <1>5 DEF Account, Same
<1> QED
  BY <1>3, <1>6, SameIsSound

LEMMA ReducedPosition ==
  ASSUME NEW b \in Account, NEW lots \in 0..b.size, NEW ends \in BOOLEAN
  PROVE  LET r == Reduced(b, lots, ends) IN
         /\ r \in Account
         /\ r.size = b.size - lots
         /\ r.size > 0 => r.price = b.price /\ r.filled = b.filled
         /\ r.gross = b.gross /\ r.cash = b.cash /\ r.fills = b.fills
<1> USE DEF Account
<1>1. b.size \in Nat /\ lots \in Nat /\ lots <= b.size
  OBVIOUS
<1>2. CASE b.size > lots
  <2>1. b.size - lots \in Nat
    BY <1>1, <1>2
  <2>2. Reduced(b, lots, ends) = [b EXCEPT !.size = b.size - lots]
    BY <1>2 DEF Reduced
  <2> QED
    BY <2>1, <2>2
<1>3. CASE ~(b.size > lots)
  <2> DEFINE until == IF ends THEN -1 ELSE b.until
             step == IF ends THEN 0 ELSE b.step
             r == [b EXCEPT !.size = 0, !.price = 0, !.filled = -1, !.until = until, !.step = step]
  <2>1. until \in Int /\ step \in Nat
    OBVIOUS
  <2>2. Reduced(b, lots, ends) = r
    BY <1>3 DEF Reduced
  <2> HIDE DEF until, step
  <2> DEFINE none == -1
             q == [b EXCEPT !.size = 0, !.price = 0, !.filled = none]
  <2>0. none \in Int
    OBVIOUS
  <2>4. r = [q EXCEPT !.until = until, !.step = step]
    OBVIOUS
  <2> HIDE DEF none, r
  <2>3. /\ q \in Account /\ q.size = 0
        /\ q.gross = b.gross /\ q.cash = b.cash /\ q.fills = b.fills
    <3>1. 0 \in Nat /\ 0 \in Int
      OBVIOUS
    <3>2. q \in Account
      BY <2>0, <3>1
    <3>3. q.size = 0 /\ q.gross = b.gross /\ q.cash = b.cash /\ q.fills = b.fills
      OBVIOUS
    <3> QED
      BY <3>2, <3>3
  <2> HIDE DEF q
  <2>5. r \in Account /\ r.size = 0 /\ r.gross = b.gross /\ r.cash = b.cash /\ r.fills = b.fills
    BY <2>1, <2>3, <2>4
  <2>6. b.size - lots = 0
    BY <1>1, <1>3
  <2> HIDE DEF r
  <2> QED
    BY <2>2, <2>5, <2>6
<1> QED
  BY <1>2, <1>3

(* Some money is spent or valued; the position stays what it is.           *)
LEMMA MarkingKeeps ==
  ASSUME NEW r \in Account, NEW m \in Int
  PROVE  [r EXCEPT !.mark = m] \in Account /\ Same(r, [r EXCEPT !.mark = m])
BY DEF Account, Same

LEMMA LiquidatedIsSound ==
  ASSUME Input, BarSimulationAssumption, NEW a, NEW i \in 1..Bars, Sound(a, i),
         a.size > 0, a.filled <= i, NEW ratio \in 0..100, NEW ends \in BOOLEAN
  PROVE  Sound(Liquidated(a, i, ratio, ends), i + 1)
<1> DEFINE liq == LiquidationPrice(a)
           lots == (a.size * ratio) \div 100
           moved == Filled(a, i, liq, lots, -1)
           fee == moved.fee + Cost(liq, lots, FeeBps + SlipBps + LiquidationBps)
           gross == moved.gross + Sign * (liq - a.price) * lots
           b == [moved EXCEPT !.fee = fee, !.gross = gross, !.trades = moved.trades + 1,
                              !.until = i + p.cooldown, !.step = moved.step + 1]
           c == Reduced(b, lots, ends)
           d == [c EXCEPT !.mark = Equity(c) + Unrealized(c, i)]
<1>1. Liquidated(a, i, ratio, ends) = d
  BY DEF Liquidated
<1> HIDE DEF liq, lots, moved, fee, gross, b, c, d
<1>2. a \in Account /\ a.size \in Nat
  BY DEF Sound, Account
<1>3. liq \in Int /\ lots \in 0..a.size
  BY <1>2, LiquidationPriceInt, ShareOfLots DEF liq, lots
<1>0. lots \in Int /\ i \in Int
  BY <1>2, <1>3
<1>4. /\ moved \in Account
      /\ moved.size = a.size /\ moved.price = a.price /\ moved.filled = a.filled
      /\ moved.gross = a.gross /\ moved.cash = a.cash + Sign * liq * lots
      /\ moved.fills = Append(a.fills, [bar |-> i, entry |-> FALSE])
  <2>1. Moved(a, moved, a.cash + Sign * liq * lots, [bar |-> i, entry |-> FALSE])
    BY <1>2, <1>3, <1>0, ExitMoves, Zenon DEF moved
  <2> QED
    BY ONLY <2>1 DEF Moved
<1>5. fee \in Int /\ gross \in Int
  <2>1. FeeBps + SlipBps + LiquidationBps \in Int
    BY DEF BarSimulationAssumption
  <2>2. Cost(liq, lots, FeeBps + SlipBps + LiquidationBps) \in Int
    BY <1>3, <1>0, <2>1, CostInt, Zenon
  <2>3. moved.fee \in Int /\ moved.gross \in Int /\ a.price \in Int
    BY <1>2, <1>4 DEF Account
  <2>4. fee \in Int
    BY <2>2, <2>3 DEF fee
  <2>5. Sign \in Int
    BY SignIsUnit
  <2>6. Sign * (liq - a.price) * lots \in Int
    BY <1>3, <2>3, <2>5
  <2> QED
    BY <2>3, <2>4, <2>6 DEF gross
<1>6. gross = a.gross + Sign * (liq - a.price) * lots
  BY <1>4 DEF gross
<1>7. /\ b \in Account
      /\ b.size = a.size /\ b.price = a.price /\ b.filled = a.filled
      /\ b.gross = gross /\ b.cash = moved.cash /\ b.fills = moved.fills
  <2>1. i + p.cooldown \in Int
    BY DEF Input, Setting
  <2>2. moved.trades + 1 \in Int /\ moved.step + 1 \in Nat
    <3>1. moved.trades \in Int /\ moved.step \in Nat
      BY <1>4 DEF Account
    <3> QED
      BY <3>1
  <2> DEFINE q == [moved EXCEPT !.fee = fee, !.gross = gross]
  <2>3. /\ q \in Account /\ q.size = a.size /\ q.price = a.price /\ q.filled = a.filled
        /\ q.gross = gross /\ q.cash = moved.cash /\ q.fills = moved.fills
        /\ b = [q EXCEPT !.trades = moved.trades + 1, !.until = i + p.cooldown, !.step = moved.step + 1]
    BY <1>4, <1>5 DEF Account, b
  <2> HIDE DEF q
  <2> QED
    BY <2>1, <2>2, <2>3 DEF Account
<1>8. /\ c \in Account
      /\ c.size = a.size - lots
      /\ c.size > 0 => c.price = a.price /\ c.filled = a.filled
      /\ c.gross = gross /\ c.cash = moved.cash /\ c.fills = moved.fills
  BY <1>3, <1>7, ReducedPosition DEF c
<1>9. d \in Account /\ Same(c, d)
  BY <1>8, ValuesInt, MarkingKeeps DEF d
<1>10. Reduction(a, d, i, liq, lots)
  BY <1>4, <1>6, <1>8, <1>9 DEF Reduction, Same
<1>11. \A k \in DOMAIN a.fills : InOrder(a.fills[k], [bar |-> i, entry |-> FALSE])
  <2>1. a.filled <= i /\ a.size > 0 /\ i \in Int /\ a.filled \in Int
    BY <1>2, <1>0 DEF Account
  <2>2. \A k \in DOMAIN a.fills : a.fills[k].bar \in Int /\ a.fills[k].entry \in BOOLEAN
    BY <1>2, FillsAreFills, Zenon
  <2>3. CASE ~p.realistic \/ p.latency <= 1
    <3>1. \A k \in DOMAIN a.fills : a.fills[k].bar <= a.filled \/ a.fills[k].bar <= i
      BY <2>1, <2>3, Zenon DEF Sound, OpenedInOrder
    <3>2. \A k \in DOMAIN a.fills : a.fills[k].bar <= i
      BY ONLY <2>1, <2>2, <3>1
    <3> QED
      BY <3>2 DEF InOrder
  <2>4. CASE p.realistic /\ ~(p.latency <= 1)
    <3>1. \A k \in DOMAIN a.fills : a.fills[k].entry => a.fills[k].bar <= a.filled
      BY <2>1, Zenon DEF Sound, OpenedInOrder
    <3>2. \A k \in DOMAIN a.fills : a.fills[k].entry => a.fills[k].bar <= i
      BY ONLY <2>1, <2>2, <3>1
    <3>3. p.latency > 1
      BY <2>4 DEF Input, Setting
    <3> QED
      BY <2>2, <2>4, <3>2, <3>3 DEF InOrder
  <2> QED
    BY <2>3, <2>4
<1>12. i \in 1..Bars + 1 /\ i <= i + p.latency /\ i <= i + 1
  <2>1. p.latency \in Nat /\ Bars \in Nat
    BY DEF Input, Setting, BarSimulationAssumption
  <2> QED
    BY <2>1
<1> QED
  BY <1>1, <1>3, <1>10, <1>11, <1>12, ReductionIsSound, Zenon

LEMMA IdleIsSound ==
  ASSUME Input, NEW a, NEW i \in 1..Bars, Sound(a, i)
  PROVE  Sound(a, i + 1)
<1>1. a \in Account /\ p.latency \in Nat
  BY DEF Sound, Input, Setting
<1>2. \A k \in DOMAIN a.fills : a.fills[k].bar \in Int
  <2>1. \A k \in DOMAIN a.fills : a.fills[k] \in Fill
    BY <1>1 DEF Account
  <2> QED
    BY <2>1 DEF Fill
<1>3. FilledByNow(a, i + 1)
  <2>1. \A n \in Int : n <= i - 1 + p.latency => n <= i + p.latency
    BY <1>1
  <2> QED
    BY <1>2, <2>1 DEF Sound, FilledByNow
<1>4. OpenedInOrder(a, i + 1)
  BY <1>1, <1>2 DEF Sound, OpenedInOrder
<1> QED
  BY <1>3, <1>4 DEF Sound

(* An order of this bar is filled after those of the bars before.          *)
LEMMA OrdersFollow ==
  ASSUME Input, BarSimulationAssumption, NEW a, NEW i \in 1..Bars, Sound(a, i), NEW entry \in BOOLEAN
  PROVE  \A k \in DOMAIN a.fills :
           /\ a.fills[k] \in Fill /\ a.fills[k].bar <= FillBar(i)
           /\ InOrder(a.fills[k], [bar |-> FillBar(i), entry |-> entry])
<1> SUFFICES ASSUME NEW k \in DOMAIN a.fills
             PROVE  /\ a.fills[k] \in Fill /\ a.fills[k].bar <= FillBar(i)
                    /\ InOrder(a.fills[k], [bar |-> FillBar(i), entry |-> entry])
  OBVIOUS
<1>1. a.fills[k] \in Fill /\ a.fills[k].bar \in Int
  BY FillsAreFills, Zenon DEF Sound
<1>2. a.fills[k].bar <= Bars /\ a.fills[k].bar <= i - 1 + p.latency
  BY DEF Sound, FilledByNow
<1>3. i + p.latency \in Int /\ Bars \in Int /\ p.latency \in Nat
  BY DEF Input, Setting, BarSimulationAssumption
<1>4. FillBar(i) \in {i + p.latency, Bars}
  BY <1>3, MinOfTwo, Zenon DEF FillBar
<1>5. a.fills[k].bar <= FillBar(i)
  BY <1>1, <1>2, <1>3, <1>4
<1> QED
  BY <1>1, <1>5 DEF InOrder

LEMMA ExitedIsSound ==
  ASSUME Input, BarSimulationAssumption, NEW a, NEW i \in 1..Bars, Sound(a, i), a.size > 0, NEW bps \in Int
  PROVE  Sound(Exited(a, i, bps), i + 1)
<1> DEFINE f == FillBar(i)
           lots == Executed(a.size, f)
           price == FillPrice(a.size, f, -1)
           cost == Cost(price, lots, bps)
           gain == Sign * (price - a.price) * lots
           won == Scale * Sign * (price - a.price) * lots > cost
           moved == Filled(a, f, price, lots, -1)
           wins == moved.wins + (IF won THEN 1 ELSE 0)
           b == [moved EXCEPT !.fee = moved.fee + cost, !.gross = moved.gross + gain,
                              !.trades = moved.trades + 1, !.wins = wins]
           ends == FALSE
           c == Reduced(b, lots, ends)
           d == [c EXCEPT !.mark = Equity(b)]
<1>1. Exited(a, i, bps) = IF lots = 0 THEN a ELSE d
  BY DEF Exited
<1> HIDE DEF lots, price, cost, gain, won, moved, wins, b, ends, c, d
<1>2. a \in Account /\ a.size \in Nat
  BY DEF Sound, Account
<1>3. f \in 1..Bars /\ f \in Int /\ f <= i + p.latency
  BY FillBarBounds DEF BarSimulationAssumption
<1>4. \A k \in DOMAIN a.fills : InOrder(a.fills[k], [bar |-> f, entry |-> FALSE])
  BY OrdersFollow
<1>5. lots = Executed(a.size, f)
  BY DEF lots
<1> HIDE DEF f
<1>6. lots \in 0..a.size /\ lots \in Int
  BY <1>2, <1>3, <1>5, ExecutedFits
<1>7. price \in Int
  <2>1. -1 \in {-1, 1}
    OBVIOUS
  <2> QED
    BY <1>2, <1>3, <2>1, FillPriceInt, Zenon DEF price
<1>8. /\ moved \in Account
      /\ moved.size = a.size /\ moved.price = a.price /\ moved.filled = a.filled
      /\ moved.gross = a.gross /\ moved.cash = a.cash + Sign * price * lots
      /\ moved.fills = Append(a.fills, [bar |-> f, entry |-> FALSE])
  <2>1. Moved(a, moved, a.cash + Sign * price * lots, [bar |-> f, entry |-> FALSE])
    BY <1>2, <1>3, <1>6, <1>7, ExitMoves, Zenon DEF moved
  <2> QED
    BY ONLY <2>1 DEF Moved
<1>9. cost \in Int /\ gain \in Int
  <2>1. cost \in Int
    BY <1>6, <1>7, CostInt, Zenon DEF cost
  <2>2. Sign \in Int /\ a.price \in Int
    BY <1>2, SignIsUnit DEF Account
  <2> QED
    BY <1>6, <1>7, <2>1, <2>2 DEF gain
<1>10. wins \in Int
  <2>1. moved.wins \in Int
    BY <1>8 DEF Account
  <2> QED
    BY <2>1 DEF wins
<1>11. moved.gross + gain = a.gross + Sign * (price - a.price) * lots
  BY <1>8 DEF gain
<1>12. /\ b \in Account
       /\ b.size = a.size /\ b.price = a.price /\ b.filled = a.filled
       /\ b.gross = moved.gross + gain /\ b.cash = moved.cash /\ b.fills = moved.fills
  <2>1. moved.fee + cost \in Int /\ moved.gross + gain \in Int /\ moved.trades + 1 \in Int
    <3>1. moved.fee \in Int /\ moved.gross \in Int /\ moved.trades \in Int
      BY <1>8 DEF Account
    <3> QED
      BY <1>9, <3>1
  <2> DEFINE q == [moved EXCEPT !.fee = moved.fee + cost, !.gross = moved.gross + gain]
  <2>2. /\ q \in Account /\ q.size = a.size /\ q.price = a.price /\ q.filled = a.filled
        /\ q.gross = moved.gross + gain /\ q.cash = moved.cash /\ q.fills = moved.fills
        /\ b = [q EXCEPT !.trades = moved.trades + 1, !.wins = wins]
    BY <1>8, <2>1 DEF Account, b
  <2> HIDE DEF q
  <2> QED
    BY <1>10, <2>1, <2>2 DEF Account
<1>13. /\ c \in Account
       /\ c.size = a.size - lots
       /\ c.size > 0 => c.price = a.price /\ c.filled = a.filled
       /\ c.gross = moved.gross + gain /\ c.cash = moved.cash /\ c.fills = moved.fills
  <2>1. ends \in BOOLEAN /\ lots \in 0..b.size
    BY <1>6, <1>12 DEF ends
  <2>2. b \in Account
    BY <1>12
  <2> QED
    BY <1>12, <2>1, <2>2, ReducedPosition DEF c
<1>14. d \in Account /\ Same(c, d)
  BY <1>12, <1>13, <1>3, ValuesInt, MarkingKeeps DEF d
<1>15. Reduction(a, d, f, price, lots)
  BY <1>8, <1>11, <1>13, <1>14 DEF Reduction, Same
<1>16. d.size > 0 /\ (~p.realistic \/ p.latency <= 1) => f <= i + 1
  <2>1. CASE p.latency <= 1
    <3>1. p.latency \in Nat
      BY DEF Input, Setting
    <3> QED
      BY <1>3, <2>1, <3>1
  <2>2. CASE ~p.realistic
    <3>1. depth[f] = FullSize /\ a.size <= FullSize /\ FullSize \in Int /\ a.size \in Int
      BY <1>2, <1>3, <2>2 DEF Input, Sound, BarSimulationAssumption
    <3>2. lots \in {a.size, depth[f]}
      BY <3>1, MinOfTwo, Zenon DEF lots, Executed
    <3>3. d.size = 0
      BY <1>2, <1>6, <1>15, <3>1, <3>2 DEF Reduction
    <3> QED
      BY <3>3
  <2> QED
    BY <2>1, <2>2
<1>17. Sound(d, i + 1)
  <2>1. i \in 1..Bars + 1
    BY DEF BarSimulationAssumption
  <2> QED
    BY <1>3, <1>4, <1>6, <1>7, <1>15, <1>16, <2>1, ReductionIsSound, Zenon
<1> QED
  BY <1>1, <1>17, IdleIsSound

LEMMA EnteredIsSound ==
  ASSUME Input, BarSimulationAssumption, NEW a, NEW i \in 1..Bars, Sound(a, i), a.size = 0,
         NEW bps \in Int, NEW ends \in BOOLEAN
  PROVE  Sound(Entered(a, i, bps, ends), i + 1)
<1> DEFINE f == FillBar(i)
           lots == Executed(FullSize, f)
           price == FillPrice(FullSize, f, 1)
           cost == Cost(price, lots, bps)
           x == [bar |-> f, entry |-> TRUE]
           moved == Filled(a, f, price, lots, 1)
           until == IF ends THEN -1 ELSE moved.until
           b == [moved EXCEPT !.size = lots, !.price = price, !.filled = f, !.step = 0,
                              !.fee = moved.fee + cost, !.until = until]
           d == [b EXCEPT !.mark = Equity(b)]
<1>1. Entered(a, i, bps, ends) = IF lots = 0 THEN a ELSE d
  BY DEF Entered
<1> HIDE DEF lots, price, cost, moved, until, b, d
<1>2. a \in Account /\ FullSize \in Nat /\ a.gross \in Int /\ a.cash \in Int /\ a.price \in Int
  BY DEF Sound, Account, BarSimulationAssumption
<1>3. f \in 1..Bars /\ f \in Int /\ f <= i + p.latency
  BY FillBarBounds DEF BarSimulationAssumption
<1>4. \A k \in DOMAIN a.fills : a.fills[k] \in Fill /\ a.fills[k].bar <= f /\ InOrder(a.fills[k], x)
  <2>1. TRUE \in BOOLEAN
    OBVIOUS
  <2> QED
    BY <2>1, OrdersFollow, Zenon
<1> HIDE DEF f
<1>5. lots \in 0..FullSize /\ lots \in Nat /\ lots \in Int
  BY <1>2, <1>3, ExecutedFits DEF lots
<1>6. price \in Int
  <2>1. 1 \in {-1, 1}
    OBVIOUS
  <2> QED
    BY <1>2, <1>3, <2>1, FillPriceInt, Zenon DEF price
<1>7. /\ moved \in Account
      /\ moved.gross = a.gross /\ moved.cash = a.cash - Sign * price * lots
      /\ moved.fills = Append(a.fills, x)
  <2>1. f \in Int /\ price \in Int /\ lots \in Int
    BY <1>3, <1>5, <1>6
  <2> QED
    <3>1. Moved(a, moved, a.cash - Sign * price * lots, x)
      BY <1>2, <2>1, EntryMoves, Zenon DEF moved
    <3> QED
      BY ONLY <3>1 DEF Moved
<1>8. cost \in Int
  BY <1>5, <1>6, CostInt, Zenon DEF cost
<1>9. moved.fee + cost \in Int /\ until \in Int /\ 0 \in Nat
  <2>1. moved.fee \in Int /\ moved.until \in Int
    BY <1>7 DEF Account
  <2> QED
    BY <1>8, <2>1 DEF until
<1>10. /\ b \in Account /\ b.size = lots /\ b.price = price /\ b.filled = f
       /\ b.gross = a.gross /\ b.cash = moved.cash /\ b.fills = moved.fills
  <2> DEFINE q == [moved EXCEPT !.size = lots, !.price = price, !.filled = f]
  <2>1. /\ q \in Account /\ q.size = lots /\ q.price = price /\ q.filled = f
        /\ q.gross = a.gross /\ q.cash = moved.cash /\ q.fills = moved.fills
        /\ b = [q EXCEPT !.step = 0, !.fee = moved.fee + cost, !.until = until]
    BY <1>3, <1>5, <1>6, <1>7 DEF Account, b
  <2> HIDE DEF q
  <2> QED
    BY <1>9, <2>1 DEF Account
<1>11. d \in Account /\ Same(b, d)
  BY <1>10, <1>3, ValuesInt, MarkingKeeps DEF d
<1>12. /\ d.size = lots /\ d.price = price /\ d.filled = f /\ d.gross = a.gross
       /\ d.cash = a.cash - Sign * price * lots /\ d.fills = Append(a.fills, x)
  BY <1>7, <1>10, <1>11 DEF Same
<1>13. Balanced(d)
  <2>1. a.gross = a.cash
    BY <1>2, SignIsUnit DEF Sound, Balanced
  <2>2. Sign * price * lots \in Int
    BY <1>5, <1>6, SignIsUnit
  <2>3. d.gross = d.cash + Sign * price * lots
    BY <1>2, <1>12, <2>1, <2>2
  <2> QED
    BY <1>12, <2>3 DEF Balanced
<1>14. a.fills \in Seq(Fill) /\ x \in Fill /\ x.bar = f
  BY <1>2, <1>3 DEF Account, Fill
<1>15. OrderedFills(d.fills)
  BY <1>4, <1>12, <1>14, AppendKeepsOrder DEF Sound
<1> HIDE DEF x
<1>16. \A k \in DOMAIN d.fills : d.fills[k].bar <= f /\ d.fills[k].bar \in Int
  <2>1. /\ DOMAIN d.fills = DOMAIN a.fills \cup {Len(a.fills) + 1}
        /\ \A k \in DOMAIN a.fills : d.fills[k] = a.fills[k]
        /\ d.fills[Len(a.fills) + 1] = x
    BY <1>12, <1>14, AppendedFill
  <2> QED
    BY <1>3, <1>4, <1>14, <2>1 DEF Fill
<1>17. FilledByNow(d, i + 1)
  <2>1. p.latency \in Nat /\ Bars \in Nat
    BY DEF Input, Setting, BarSimulationAssumption
  <2> QED
    BY <1>3, <1>16, <2>1 DEF FilledByNow
<1>18. OpenedInOrder(d, i + 1)
  BY <1>12, <1>16 DEF OpenedInOrder
<1>19. Sound(d, i + 1)
  BY <1>2, <1>5, <1>11, <1>12, <1>13, <1>15, <1>17, <1>18 DEF Sound
<1> QED
  BY <1>1, <1>19, IdleIsSound

LEMMA ClosedIsSound ==
  ASSUME Input, BarSimulationAssumption, NEW a, Sound(a, Bars + 1)
  PROVE  Sound(Closed(a), Bars + 2)
<1>1. a \in Account /\ a.size \in Nat /\ a.size \in Int /\ a.price \in Int /\ Bars \in Nat \ {0}
      /\ p.latency \in Nat
  BY DEF Sound, Account, BarSimulationAssumption, Input, Setting
<1>2. \A k \in DOMAIN a.fills : a.fills[k].bar \in Int /\ a.fills[k].bar <= Bars
  BY <1>1, FillsAreFills, Zenon DEF Sound, FilledByNow
<1>3. CASE a.size = 0
  <2>1. \A n \in Int : n <= Bars => n <= Bars + 2 - 1 + p.latency
    BY <1>1
  <2>2. FilledByNow(a, Bars + 2)
    BY <1>2, <2>1 DEF FilledByNow
  <2>3. OpenedInOrder(a, Bars + 2)
    BY <1>3 DEF OpenedInOrder
  <2>4. Closed(a) = a
    BY <1>3 DEF Closed
  <2> QED
    BY <2>2, <2>3, <2>4 DEF Sound
<1>4. CASE a.size # 0
  <2> DEFINE price == close[Bars]
             lots == a.size
             cost == Cost(price, lots, FeeBps + SlipBps)
             gain == Sign * (price - a.price) * lots
             moved == Filled(a, Bars, price, lots, -1)
             wins == moved.wins + (IF Scale * gain > cost THEN 1 ELSE 0)
             b == [moved EXCEPT !.fee = moved.fee + cost, !.gross = moved.gross + gain,
                                !.trades = moved.trades + 1, !.wins = wins]
             c == [b EXCEPT !.size = 0]
             d == [c EXCEPT !.mark = Equity(c)]
  <2>1. Closed(a) = d
    BY <1>4 DEF Closed
  <2> HIDE DEF price, lots, cost, gain, moved, wins, b, c, d
  <2>2. price \in Int /\ Bars \in 1..Bars /\ Bars \in Int
    BY <1>1 DEF Input, price
  <2>3. lots \in Int /\ lots \in 0..a.size /\ a.size - lots = 0
    BY <1>1 DEF lots
  <2>4. /\ moved \in Account /\ moved.gross = a.gross /\ moved.cash = a.cash + Sign * price * lots
        /\ moved.fills = Append(a.fills, [bar |-> Bars, entry |-> FALSE])
    <3>1. a \in Account /\ Bars \in Int /\ price \in Int /\ lots \in Int
      BY <1>1, <2>2, <2>3
    <3> QED
      <4>1. Moved(a, moved, a.cash + Sign * price * lots, [bar |-> Bars, entry |-> FALSE])
        BY <3>1, ExitMoves, Zenon DEF moved
      <4> QED
        BY ONLY <4>1 DEF Moved
  <2>5. cost \in Int /\ gain \in Int
    <3>1. FeeBps + SlipBps \in Int
      BY DEF BarSimulationAssumption
    <3>2. cost \in Int
      BY <2>2, <2>3, <3>1, CostInt, Zenon DEF cost
    <3>3. Sign \in Int
      BY SignIsUnit
    <3> QED
      BY <1>1, <2>2, <2>3, <3>2, <3>3 DEF gain
  <2>6. moved.gross + gain = a.gross + Sign * (price - a.price) * lots
    BY <2>4 DEF gain
  <2>7. /\ wins \in Int /\ moved.fee + cost \in Int
        /\ moved.gross + gain \in Int /\ moved.trades + 1 \in Int
    <3>1. /\ moved.wins \in Int /\ moved.fee \in Int
          /\ moved.gross \in Int /\ moved.trades \in Int
      BY <2>4 DEF Account
    <3> QED
      BY <2>5, <3>1 DEF wins
  <2>8. /\ b \in Account /\ b.gross = moved.gross + gain /\ b.cash = moved.cash /\ b.fills = moved.fills
    <3> DEFINE q == [moved EXCEPT !.fee = moved.fee + cost, !.gross = moved.gross + gain]
    <3>1. /\ q \in Account /\ q.gross = moved.gross + gain /\ q.cash = moved.cash /\ q.fills = moved.fills
          /\ b = [q EXCEPT !.trades = moved.trades + 1, !.wins = wins]
      BY <2>4, <2>7 DEF Account, b
    <3> HIDE DEF q
    <3> QED
      BY <2>7, <3>1 DEF Account
  <2>9. c \in Account /\ c.size = 0 /\ c.gross = b.gross /\ c.cash = b.cash /\ c.fills = b.fills
    BY <2>8 DEF Account, c
  <2>10. d \in Account /\ Same(c, d)
    BY <2>2, <2>9, ValuesInt, MarkingKeeps DEF d
  <2>11. Reduction(a, d, Bars, price, lots) /\ d.size = 0
    BY <2>3, <2>4, <2>6, <2>8, <2>9, <2>10 DEF Reduction, Same
  <2>12. \A k \in DOMAIN a.fills : InOrder(a.fills[k], [bar |-> Bars, entry |-> FALSE])
    BY <1>2 DEF InOrder
  <2>13. /\ Bars + 1 \in 1..Bars + 1 /\ Bars <= (Bars + 1) + p.latency /\ a.size > 0
         /\ Bars + 2 = (Bars + 1) + 1 /\ ~(d.size > 0)
    BY <1>1, <1>4, <2>11
  <2>14. Sound(d, (Bars + 1) + 1)
    BY <2>2, <2>3, <2>11, <2>12, <2>13, ReductionIsSound, Zenon
  <2> QED
    BY <2>1, <2>13, <2>14
<1> QED
  BY <1>3, <1>4

-----------------------------------------------------------------------------
(* One bar of each loop                                                    *)

LEMMA EachBarIsSound ==
  ASSUME Input, BarSimulationAssumption, NEW a, NEW i \in 1..Bars, Sound(a, i),
         NEW entry, NEW exit, NEW extreme
  PROVE  /\ Sound(SingleBar(a, i, entry, exit, extreme), i + 1)
         /\ Sound(ReferenceBar(a, i, entry, exit, extreme), i + 1)
         /\ Sound(KernelBar(a, i, entry, exit, extreme), i + 1)
<1> DEFINE m == Marked(a, i)
<1>1. Sound(m, i) /\ m \in Account
  BY MarkedIsSound DEF Sound
<1>2. m.size \in Nat /\ m.filled \in Int
  BY <1>1 DEF Account
<1> HIDE DEF m
<1>3. /\ TRUE \in BOOLEAN /\ FALSE \in BOOLEAN
  OBVIOUS
<1>4. \A f \in 1..Bars : ResidualBps(FullSize, f) \in Int /\ BothBps(FullSize, f) \in Int
                        /\ ResidualBps(m.size, f) \in Int /\ BothBps(m.size, f) \in Int
  BY DEF ResidualBps, BothBps, BarSimulationAssumption
<1>5. FillBar(i) \in 1..Bars
  BY FillBarBounds DEF BarSimulationAssumption
<1>6. ASSUME m.size > 0, m.filled <= i
      PROVE  /\ Sound(SingleLiquidated(m, i), i + 1)
             /\ Sound(ReferenceLiquidated(m, i), i + 1)
             /\ Sound(KernelLiquidated(m, i), i + 1)
  <2>1. SingleRatio(m) \in 0..100 /\ ReferenceRatio(m) \in 0..100 /\ KernelRatio(m) \in 0..100
    BY <1>1, RatiosAreShares
  <2> QED
    BY <1>1, <1>3, <1>6, <2>1, LiquidatedIsSound, Zenon
    DEF SingleLiquidated, ReferenceLiquidated, KernelLiquidated
<1>7. ASSUME m.size = 0
      PROVE  /\ Sound(SingleEntered(m, i), i + 1)
             /\ Sound(ReferenceEntered(m, i), i + 1)
             /\ Sound(KernelEntered(m, i), i + 1)
  BY <1>1, <1>3, <1>4, <1>5, <1>7, EnteredIsSound, Zenon
  DEF SingleEntered, ReferenceEntered, KernelEntered
<1>8. ASSUME m.size > 0
      PROVE  /\ Sound(SingleExited(m, i), i + 1)
             /\ Sound(ReferenceExited(m, i), i + 1)
             /\ Sound(KernelExited(m, i), i + 1)
  BY <1>1, <1>4, <1>5, <1>8, ExitedIsSound, Zenon
  DEF SingleExited, ReferenceExited, KernelExited
<1>9. Sound(m, i + 1)
  BY <1>1, IdleIsSound
<1>10. Sound(SingleBar(a, i, entry, exit, extreme), i + 1)
  BY <1>2, <1>6, <1>7, <1>8, <1>9 DEF SingleBar, Bar, Triggered, m
<1>11. Sound(ReferenceBar(a, i, entry, exit, extreme), i + 1)
  BY <1>2, <1>6, <1>7, <1>8, <1>9 DEF ReferenceBar, Bar, Triggered, m
<1>12. Sound(KernelBar(a, i, entry, exit, extreme), i + 1)
  BY <1>2, <1>6, <1>7, <1>8, <1>9 DEF KernelBar, Bar, Triggered, m
<1> QED
  BY <1>10, <1>11, <1>12

-----------------------------------------------------------------------------
(* The invariant                                                           *)

LEMMA IInvInit == Init /\ BarSimulationAssumption => IInv
<1> SUFFICES ASSUME Init, BarSimulationAssumption PROVE IInv
  OBVIOUS
<1>1. Input
  <2>1. p \in Setting /\ close \in [1..Bars -> Nat]
    BY DEF Init, BarSimulationAssumption
  <2>2. depth \in [1..Bars -> IF p.realistic THEN Depths ELSE {FullSize}]
    BY DEF Init
  <2>3. Depths \subseteq Nat /\ FullSize \in Nat
    BY DEF BarSimulationAssumption
  <2> QED
    BY <2>1, <2>2, <2>3 DEF Input
<1>2. Flat \in Account /\ Flat.size = 0 /\ Flat.gross = 0 /\ Flat.cash = 0 /\ Flat.price = 0
      /\ Flat.fills = <<>>
  BY DEF Flat, Account
<1>3. Sound(Flat, 1)
  <2>1. Balanced(Flat)
    BY <1>2, SignIsUnit DEF Balanced
  <2>2. OrderedFills(Flat.fills) /\ FilledByNow(Flat, 1)
    BY <1>2 DEF OrderedFills, FilledByNow
  <2>3. OpenedInOrder(Flat, 1)
    BY <1>2 DEF OpenedInOrder
  <2>4. Flat.size <= FullSize
    BY <1>2 DEF BarSimulationAssumption
  <2> QED
    BY <1>2, <2>1, <2>2, <2>3, <2>4 DEF Sound
<1>4. /\ DOMAIN acct = Engines /\ bar = 1
      /\ \A e \in Engines : acct[e] = Flat
  BY DEF Init
<1>5. bar \in 1..Bars + 2
  BY <1>4 DEF BarSimulationAssumption
<1> QED
  BY <1>1, <1>3, <1>4, <1>5 DEF IInv

(* Soundness depends on the setting alone.                                 *)
LEMMA SoundWithSetting ==
  p' = p => \A a, i : Sound(a, i) <=> Sound(a, i)'
BY DEF Sound, Balanced, Sign, OrderedFills, InOrder, FilledByNow, OpenedInOrder

LEMMA IInvStep == IInv /\ BarSimulationAssumption /\ [Next]_vars => IInv'
<1> SUFFICES ASSUME IInv, BarSimulationAssumption, [Next]_vars PROVE IInv'
  OBVIOUS
<1>1. CASE SimulateBar
  <2>1. PICK entry \in BOOLEAN, exit \in BOOLEAN, reach \in {0, 50} :
          LET extreme == (close[bar] * (100 - Sign * reach)) \div 100
          IN  acct' = [single |-> SingleBar(acct["single"], bar, entry, exit, extreme),
                       reference |-> ReferenceBar(acct["reference"], bar, entry, exit, extreme),
                       kernel |-> KernelBar(acct["kernel"], bar, entry, exit, extreme)]
    BY <1>1 DEF SimulateBar
  <2> DEFINE extreme == (close[bar] * (100 - Sign * reach)) \div 100
             single == SingleBar(acct["single"], bar, entry, exit, extreme)
             reference == ReferenceBar(acct["reference"], bar, entry, exit, extreme)
             kernel == KernelBar(acct["kernel"], bar, entry, exit, extreme)
  <2> HIDE DEF extreme
  <2>2. acct' = [single |-> single, reference |-> reference, kernel |-> kernel]
    BY <2>1 DEF extreme
  <2>3. bar \in 1..Bars /\ bar' = bar + 1 /\ p' = p /\ close' = close /\ depth' = depth
    <3>1. bar <= Bars /\ bar' = bar + 1 /\ p' = p /\ close' = close /\ depth' = depth
      BY <1>1, Zenon DEF SimulateBar
    <3>2. bar \in 1..Bars + 2 /\ Bars \in Nat
      BY DEF IInv, BarSimulationAssumption
    <3> QED
      BY ONLY <3>1, <3>2
  <2>4. /\ Sound(acct["single"], bar) /\ Sound(acct["reference"], bar) /\ Sound(acct["kernel"], bar)
        /\ Input
    BY DEF IInv, Engines
  <2>5. Sound(single, bar + 1) /\ Sound(reference, bar + 1) /\ Sound(kernel, bar + 1)
    <3> SUFFICES ASSUME NEW e \in Engines
                 PROVE  /\ Sound(SingleBar(acct[e], bar, entry, exit, extreme), bar + 1)
                        /\ Sound(ReferenceBar(acct[e], bar, entry, exit, extreme), bar + 1)
                        /\ Sound(KernelBar(acct[e], bar, entry, exit, extreme), bar + 1)
      BY DEF Engines
    <3>1. Sound(acct[e], bar) /\ Input
      BY <2>4 DEF Engines
    <3> QED
      BY <2>3, <3>1, EachBarIsSound, Zenon
  <2> HIDE DEF single, reference, kernel
  <2>6. DOMAIN acct' = Engines /\ \A e \in Engines : Sound(acct'[e], bar')
    BY <2>2, <2>3, <2>5 DEF Engines
  <2>7. \A e \in Engines : Sound(acct[e], bar)'
    BY <2>3, <2>6, SoundWithSetting
  <2>8. Input' /\ bar' \in 1..Bars + 2
    BY <2>3, <2>4 DEF Input, BarSimulationAssumption
  <2> QED
    BY <2>6, <2>7, <2>8 DEF IInv
<1>2. CASE CloseSeries
  <2> DEFINE single == Closed(acct["single"])
             reference == Closed(acct["reference"])
             kernel == Closed(acct["kernel"])
  <2>1. /\ acct' = [single |-> single, reference |-> reference, kernel |-> kernel]
        /\ bar = Bars + 1 /\ bar' = Bars + 2 /\ p' = p /\ close' = close /\ depth' = depth
    BY <1>2 DEF CloseSeries, SingleClosed, ReferenceClosed, KernelClosed, BarSimulationAssumption
  <2>2. /\ Sound(acct["single"], bar) /\ Sound(acct["reference"], bar) /\ Sound(acct["kernel"], bar)
        /\ Input
    BY DEF IInv, Engines
  <2>3. Sound(single, bar') /\ Sound(reference, bar') /\ Sound(kernel, bar')
    BY <2>1, <2>2, ClosedIsSound
  <2> HIDE DEF single, reference, kernel
  <2>4. DOMAIN acct' = Engines /\ \A e \in Engines : Sound(acct'[e], bar')
    BY <2>1, <2>3 DEF Engines
  <2>5. \A e \in Engines : Sound(acct[e], bar)'
    BY <2>1, <2>4, SoundWithSetting
  <2>6. Input' /\ bar' \in 1..Bars + 2
    BY <2>1, <2>2 DEF Input, BarSimulationAssumption
  <2> QED
    BY <2>4, <2>5, <2>6 DEF IInv
<1>3. CASE UNCHANGED vars
  <2>1. p' = p /\ close' = close /\ depth' = depth /\ bar' = bar /\ acct' = acct
    BY <1>3 DEF vars
  <2>2. \A e \in Engines : Sound(acct[e], bar)'
    BY <2>1, SoundWithSetting DEF IInv
  <2> QED
    BY <2>1, <2>2 DEF IInv, Input
<1> QED
  BY <1>1, <1>2, <1>3 DEF Next

(* For any candles, book, latency and setting, the gross result of each    *)
(* loop is the money its fills moved plus the open lots at their entry     *)
(* price (Filled, Reduced, Entered, Exited, Liquidated, Closed).           *)
THEOREM ProfitIsCash == Spec => []PnlIsCash
<1>1. IInv => PnlIsCash
  BY DEF IInv, Sound, Balanced, PnlIsCash
<1> QED
  BY <1>1, IInvInit, IInvStep, BarSimulationAssumption, PTL DEF Spec

(* For any candles, book, latency and setting, the fills of each loop      *)
(* follow each other, the rest of a partial exit excepted.                 *)
THEOREM FillsFollow == Spec => []FillsInOrder
<1>1. IInv => FillsInOrder
  BY DEF IInv, Sound, OrderedFills, InOrder, FillsInOrder
<1> QED
  BY <1>1, IInvInit, IInvStep, BarSimulationAssumption, PTL DEF Spec
-----------------------------------------------------------------------------
(* Two accounts side by side                                               *)

Fields == {"size", "price", "filled", "until", "step", "trades", "wins", "gross", "fee", "funding",
           "mark", "cash", "fills"}

(* All that a result and the bars to come depend on, waiting times aside.  *)
Alike(s, r) ==
  /\ s.size = r.size /\ s.price = r.price /\ s.filled = r.filled
  /\ s.trades = r.trades /\ s.wins = r.wins
  /\ s.gross = r.gross /\ s.fee = r.fee /\ s.funding = r.funding /\ s.mark = r.mark
  /\ s.size > 0 => s.step = r.step

(* No order is pending and no position is protected at bar i.              *)
Free(a, i) == a.filled < i /\ a.until < i

LEMMA AccountFields == \A a \in Account : DOMAIN a = Fields
BY DEF Account, Fields

(* What a mark makes of an account.                                        *)
LEMMA MarkedFields ==
  ASSUME NEW a, DOMAIN a = Fields, NEW i
  PROVE  LET m == Marked(a, i)
             funding == a.funding + Sign * close[i] * a.size * FundingBps
         IN  /\ DOMAIN m = Fields
             /\ m.size = a.size /\ m.price = a.price /\ m.filled = a.filled /\ m.until = a.until
             /\ m.step = a.step /\ m.trades = a.trades /\ m.wins = a.wins /\ m.gross = a.gross
             /\ m.fee = a.fee /\ m.funding = funding
             /\ m.mark = (Scale * a.gross - a.fee - funding) + Scale * Sign * (close[i] - a.price) * a.size
<1> DEFINE funding == a.funding + Sign * close[i] * a.size * FundingBps
           b == [a EXCEPT !.funding = funding]
           worth == Equity(b) + Unrealized(b, i)
           m == [b EXCEPT !.mark = worth]
<1>1. Marked(a, i) = m
  BY DEF Marked
<1> HIDE DEF funding
<1>2. /\ DOMAIN b = Fields /\ b.funding = funding
      /\ \A x \in Fields \ {"funding"} : b[x] = a[x]
  BY DEF Fields
<1> HIDE DEF b
<1>3. worth = (Scale * a.gross - a.fee - funding) + Scale * Sign * (close[i] - a.price) * a.size
  <2>1. b.gross = a.gross /\ b.fee = a.fee /\ b.price = a.price /\ b.size = a.size
    BY <1>2 DEF Fields
  <2> QED
    BY <1>2, <2>1, Zenon DEF worth, Equity, Unrealized
<1> HIDE DEF worth
<1>4. /\ DOMAIN m = Fields /\ m.mark = worth
      /\ \A x \in Fields \ {"mark"} : m[x] = b[x]
  BY <1>2 DEF Fields
<1> HIDE DEF m
<1>5. \A x \in Fields \ {"mark", "funding"} : m[x] = a[x]
  BY <1>2, <1>4
<1>6. m.funding = funding
  BY <1>2, <1>4 DEF Fields
<1> QED
  BY <1>1, <1>3, <1>4, <1>5, <1>6 DEF Fields, funding

LEMMA MarkedAlike ==
  ASSUME NEW s, NEW r, DOMAIN s = Fields, DOMAIN r = Fields, Alike(s, r), NEW i
  PROVE  Alike(Marked(s, i), Marked(r, i))
BY MarkedFields DEF Alike

(* What is left after a reduction.                                         *)
LEMMA ReducedFields ==
  ASSUME NEW b, DOMAIN b = Fields, NEW lots, NEW ends
  PROVE  LET r == Reduced(b, lots, ends) IN
         /\ DOMAIN r = Fields
         /\ r.size = IF b.size > lots THEN b.size - lots ELSE 0
         /\ r.price = IF b.size > lots THEN b.price ELSE 0
         /\ r.filled = IF b.size > lots THEN b.filled ELSE -1
         /\ r.until = b.until \/ r.until = -1
         /\ b.size > lots => r.step = b.step
         /\ r.trades = b.trades /\ r.wins = b.wins /\ r.gross = b.gross /\ r.fee = b.fee
         /\ r.funding = b.funding /\ r.mark = b.mark
<1>1. CASE b.size > lots
  <2> DEFINE left == b.size - lots
             r == [b EXCEPT !.size = left]
  <2>1. Reduced(b, lots, ends) = r
    BY <1>1 DEF Reduced
  <2> HIDE DEF left
  <2>2. DOMAIN r = Fields /\ r.size = left /\ \A x \in Fields \ {"size"} : r[x] = b[x]
    BY DEF Fields
  <2> HIDE DEF r
  <2> QED
    BY <1>1, <2>1, <2>2 DEF left, Fields
<1>2. CASE ~(b.size > lots)
  <2> DEFINE until == IF ends THEN -1 ELSE b.until
             step == IF ends THEN 0 ELSE b.step
             r == [b EXCEPT !.size = 0, !.price = 0, !.filled = -1, !.until = until, !.step = step]
  <2>1. Reduced(b, lots, ends) = r
    BY <1>2 DEF Reduced
  <2>2. until = b.until \/ until = -1
    OBVIOUS
  <2> HIDE DEF until, step
  <2>3. DOMAIN r = Fields /\ r.size = 0 /\ r.price = 0 /\ r.filled = -1 /\ r.until = until
    BY DEF Fields
  <2>4. \A x \in Fields \ {"size", "price", "filled", "until", "step"} : r[x] = b[x]
    BY DEF Fields
  <2> HIDE DEF r
  <2> QED
    BY <1>2, <2>1, <2>2, <2>3, <2>4 DEF Fields
<1> QED
  BY <1>1, <1>2

(* Reductions of like accounts are alike, whether or not they end a wait.  *)
LEMMA ReducedAlike ==
  ASSUME NEW s, NEW r, DOMAIN s = Fields, DOMAIN r = Fields, Alike(s, r),
         NEW lots \in Nat, NEW one, NEW other, s.size \in Nat
  PROVE  Alike(Reduced(s, lots, one), Reduced(r, lots, other))
<1> DEFINE u == Reduced(s, lots, one)
           v == Reduced(r, lots, other)
<1>1. CASE s.size > lots
  <2>1. u.step = s.step /\ v.step = r.step /\ s.step = r.step
    BY <1>1, ReducedFields DEF Alike
  <2> QED
    BY <2>1, ReducedFields DEF Alike
<1>2. CASE ~(s.size > lots)
  <2>1. u.size = 0 /\ v.size = 0
    BY <1>2, ReducedFields DEF Alike
  <2> QED
    BY <1>2, <2>1, ReducedFields DEF Alike
<1> QED
  BY <1>1, <1>2

LEMMA FilledFields ==
  ASSUME NEW a, DOMAIN a = Fields, NEW i, NEW price, NEW lots, NEW direction
  PROVE  LET b == Filled(a, i, price, lots, direction)
         IN  DOMAIN b = Fields /\ \A x \in Fields \ {"cash", "fills"} : b[x] = a[x]
BY DEF Filled, Fields

(* A liquidation up to what it leaves of the position.                     *)
Charged(a, i, liq, lots) ==
  [Filled(a, i, liq, lots, -1) EXCEPT
     !.fee = @ + Cost(liq, lots, FeeBps + SlipBps + LiquidationBps),
     !.gross = @ + Sign * (liq - a.price) * lots,
     !.trades = @ + 1, !.until = i + p.cooldown, !.step = @ + 1]

LEMMA ChargedFields ==
  ASSUME NEW a, DOMAIN a = Fields, NEW i, NEW liq, NEW lots
  PROVE  LET b == Charged(a, i, liq, lots) IN
         /\ DOMAIN b = Fields
         /\ b.fee = a.fee + Cost(liq, lots, FeeBps + SlipBps + LiquidationBps)
         /\ b.gross = a.gross + Sign * (liq - a.price) * lots
         /\ b.trades = a.trades + 1 /\ b.until = i + p.cooldown /\ b.step = a.step + 1
         /\ b.size = a.size /\ b.price = a.price /\ b.filled = a.filled /\ b.wins = a.wins
         /\ b.funding = a.funding /\ b.mark = a.mark
<1> DEFINE moved == Filled(a, i, liq, lots, -1)
           fee == moved.fee + Cost(liq, lots, FeeBps + SlipBps + LiquidationBps)
           gross == moved.gross + Sign * (liq - a.price) * lots
           trades == moved.trades + 1
           until == i + p.cooldown
           step == moved.step + 1
           b == [moved EXCEPT !.fee = fee, !.gross = gross, !.trades = trades, !.until = until,
                              !.step = step]
<1>1. Charged(a, i, liq, lots) = b
  BY DEF Charged
<1>2. DOMAIN moved = Fields /\ \A x \in Fields \ {"cash", "fills"} : moved[x] = a[x]
  BY FilledFields
<1> HIDE DEF moved
<1>3. /\ fee = a.fee + Cost(liq, lots, FeeBps + SlipBps + LiquidationBps)
      /\ gross = a.gross + Sign * (liq - a.price) * lots
      /\ trades = a.trades + 1 /\ step = a.step + 1
  BY <1>2 DEF Fields
<1> HIDE DEF fee, gross, trades, step
<1>4. /\ DOMAIN b = Fields /\ b.fee = fee /\ b.gross = gross /\ b.trades = trades /\ b.until = until
      /\ b.step = step
      /\ \A x \in Fields \ {"fee", "gross", "trades", "until", "step"} : b[x] = moved[x]
  BY <1>2 DEF Fields
<1> HIDE DEF b
<1>5. \A x \in {"size", "price", "filled", "wins", "funding", "mark"} : b[x] = a[x]
  BY <1>2, <1>4 DEF Fields
<1> QED
  BY <1>1, <1>3, <1>4, <1>5

(* A valued account.                                                       *)
LEMMA ValuedFields ==
  ASSUME NEW a, DOMAIN a = Fields, NEW worth
  PROVE  LET m == [a EXCEPT !.mark = worth]
         IN  DOMAIN m = Fields /\ m.mark = worth /\ \A x \in Fields \ {"mark"} : m[x] = a[x]
BY DEF Fields

LEMMA ValuedAlike ==
  ASSUME NEW s, NEW r, DOMAIN s = Fields, DOMAIN r = Fields, Alike(s, r), NEW worth
  PROVE  Alike([s EXCEPT !.mark = worth], [r EXCEPT !.mark = worth])
BY ValuedFields DEF Alike, Fields

(* Equal ratios liquidate alike, and leave no wait.                        *)
LEMMA LiquidatedAlike ==
  ASSUME NEW s \in Account, NEW r \in Account, Alike(s, r), s.size > 0, NEW i, NEW ratio \in 0..100,
         NEW one, NEW other
  PROVE  Alike(Liquidated(s, i, ratio, one), Liquidated(r, i, ratio, other))
<1> DEFINE liq == LiquidationPrice(s)
           lots == (s.size * ratio) \div 100
           b == Charged(s, i, liq, lots)
           c == Charged(r, i, liq, lots)
           u == Reduced(b, lots, one)
           v == Reduced(c, lots, other)
<1>1. DOMAIN s = Fields /\ DOMAIN r = Fields
  BY AccountFields
<1>2. s.size = r.size /\ s.price = r.price
  BY DEF Alike
<1>3. LiquidationPrice(r) = liq /\ (r.size * ratio) \div 100 = lots
  <2>1. Margin(s) = Margin(r)
    BY <1>2 DEF Margin, TierOf
  <2> QED
    BY <1>2, <2>1 DEF LiquidationPrice
<1>4. s.size \in Nat /\ lots \in Nat
  <2>1. s.size \in Nat
    BY DEF Account
  <2>2. lots \in 0..s.size
    BY <2>1, ShareOfLots, Zenon
  <2> HIDE DEF lots
  <2> QED
    BY <2>1, <2>2
<1>8. Liquidated(s, i, ratio, one) = [u EXCEPT !.mark = Equity(u) + Unrealized(u, i)]
  BY DEF Liquidated, Charged
<1> DEFINE price == LiquidationPrice(r)
           size == (r.size * ratio) \div 100
           w == Reduced(Charged(r, i, price, size), size, other)
<1>9. Liquidated(r, i, ratio, other) = [v EXCEPT !.mark = Equity(v) + Unrealized(v, i)]
  <2>1. Liquidated(r, i, ratio, other) = [w EXCEPT !.mark = Equity(w) + Unrealized(w, i)]
    BY DEF Liquidated, Charged
  <2>2. price = liq /\ size = lots
    BY <1>3
  <2> HIDE DEF price, size, liq, lots
  <2> QED
    BY <2>1, <2>2
<1> HIDE DEF liq, lots
<1>5. DOMAIN b = Fields /\ DOMAIN c = Fields /\ b.size = s.size /\ Alike(b, c) /\ b.step = c.step
  BY <1>1, ChargedFields DEF Alike
<1>6. DOMAIN u = Fields /\ DOMAIN v = Fields /\ Alike(u, v)
  BY <1>4, <1>5, ReducedFields, ReducedAlike
<1>7. Equity(u) + Unrealized(u, i) = Equity(v) + Unrealized(v, i)
  BY <1>6 DEF Alike, Equity, Unrealized
<1> HIDE DEF u, v
<1> QED
  BY <1>6, <1>7, <1>8, <1>9, ValuedAlike

LEMMA LiquidatedFree ==
  ASSUME NEW a \in Account, NEW i \in Int, NEW ratio, NEW ends, p.cooldown = 0, a.filled <= i, i >= 0
  PROVE  Free(Liquidated(a, i, ratio, ends), i + 1)
<1> DEFINE liq == LiquidationPrice(a)
           lots == (a.size * ratio) \div 100
           b == Charged(a, i, liq, lots)
           u == Reduced(b, lots, ends)
<1>1. DOMAIN a = Fields
  BY AccountFields
<1>2. Liquidated(a, i, ratio, ends) = [u EXCEPT !.mark = Equity(u) + Unrealized(u, i)]
  BY DEF Liquidated, Charged
<1> HIDE DEF liq, lots
<1>3. DOMAIN b = Fields /\ b.until = i + 0 /\ b.filled = a.filled
  BY <1>1, ChargedFields
<1> HIDE DEF b
<1>4. /\ DOMAIN u = Fields
      /\ u.filled = a.filled \/ u.filled = -1
      /\ u.until = i + 0 \/ u.until = -1
  BY <1>3, ReducedFields
<1> HIDE DEF u
<1>5. a.filled \in Int
  BY DEF Account
<1>6. u.filled < i + 1 /\ u.until < i + 1
  BY <1>4, <1>5
<1> QED
  BY <1>2, <1>4, <1>6, ValuedFields DEF Free, Fields

-----------------------------------------------------------------------------
(* Entries and exits side by side                                          *)

(* The position an order opens, before it is valued.                       *)
Opened(a, i, f, price, lots, bps, endsCooldown) ==
  [Filled(a, f, price, lots, 1) EXCEPT
     !.size = lots, !.price = price, !.filled = f, !.step = 0,
     !.fee = @ + Cost(price, lots, bps), !.until = IF endsCooldown THEN -1 ELSE @]

LEMMA OpenedFields ==
  ASSUME NEW a, DOMAIN a = Fields, NEW i, NEW f, NEW price, NEW lots, NEW bps, NEW ends
  PROVE  LET b == Opened(a, i, f, price, lots, bps, ends) IN
         /\ DOMAIN b = Fields
         /\ b.size = lots /\ b.price = price /\ b.filled = f /\ b.step = 0
         /\ b.fee = a.fee + Cost(price, lots, bps) /\ b.until = IF ends THEN -1 ELSE a.until
         /\ b.trades = a.trades /\ b.wins = a.wins /\ b.gross = a.gross /\ b.funding = a.funding
         /\ b.mark = a.mark
<1> DEFINE moved == Filled(a, f, price, lots, 1)
           fee == moved.fee + Cost(price, lots, bps)
           until == IF ends THEN -1 ELSE moved.until
           b == [moved EXCEPT !.size = lots, !.price = price, !.filled = f, !.step = 0, !.fee = fee,
                              !.until = until]
<1>1. Opened(a, i, f, price, lots, bps, ends) = b
  BY DEF Opened
<1>2. DOMAIN moved = Fields /\ \A x \in Fields \ {"cash", "fills"} : moved[x] = a[x]
  BY FilledFields
<1> HIDE DEF moved
<1>3. fee = a.fee + Cost(price, lots, bps) /\ until = IF ends THEN -1 ELSE a.until
  BY <1>2 DEF Fields
<1> HIDE DEF fee, until
<1>4. /\ DOMAIN b = Fields /\ b.size = lots /\ b.price = price /\ b.filled = f /\ b.step = 0
      /\ b.fee = fee /\ b.until = until
      /\ \A x \in Fields \ {"size", "price", "filled", "step", "fee", "until"} : b[x] = moved[x]
  BY <1>2 DEF Fields
<1> HIDE DEF b
<1>5. \A x \in {"trades", "wins", "gross", "funding", "mark"} : b[x] = a[x]
  BY <1>2, <1>4 DEF Fields
<1> QED
  BY <1>1, <1>3, <1>4, <1>5

LEMMA EnteredIs ==
  ASSUME NEW a, NEW i, NEW bps, NEW ends
  PROVE  LET f == FillBar(i)
             lots == Executed(FullSize, f)
             b == Opened(a, i, f, FillPrice(FullSize, f, 1), lots, bps, ends)
         IN  Entered(a, i, bps, ends) = IF lots = 0 THEN a ELSE [b EXCEPT !.mark = Equity(b)]
BY DEF Entered, Opened

(* At equal rates two flat accounts enter alike.                           *)
LEMMA EnteredAlike ==
  ASSUME NEW s \in Account, NEW r \in Account, Alike(s, r), NEW i, NEW bps, NEW one, NEW other
  PROVE  Alike(Entered(s, i, bps, one), Entered(r, i, bps, other))
<1> DEFINE f == FillBar(i)
           lots == Executed(FullSize, f)
           price == FillPrice(FullSize, f, 1)
           b == Opened(s, i, f, price, lots, bps, one)
           c == Opened(r, i, f, price, lots, bps, other)
<1>1. DOMAIN s = Fields /\ DOMAIN r = Fields
  BY AccountFields
<1>2. /\ Entered(s, i, bps, one) = IF lots = 0 THEN s ELSE [b EXCEPT !.mark = Equity(b)]
      /\ Entered(r, i, bps, other) = IF lots = 0 THEN r ELSE [c EXCEPT !.mark = Equity(c)]
  BY EnteredIs
<1> HIDE DEF f, lots, price
<1>3. DOMAIN b = Fields /\ DOMAIN c = Fields /\ Alike(b, c)
  BY <1>1, OpenedFields DEF Alike
<1> HIDE DEF b, c
<1>4. Equity(b) = Equity(c)
  BY <1>3 DEF Alike, Equity
<1>5. Alike([b EXCEPT !.mark = Equity(b)], [c EXCEPT !.mark = Equity(c)])
  BY <1>3, <1>4, ValuedAlike
<1> QED
  BY <1>2, <1>5

LEMMA EnteredFree ==
  ASSUME NEW a \in Account, NEW i \in Int, NEW bps, NEW ends, FillBar(i) = i, Free(a, i), i >= 0
  PROVE  Free(Entered(a, i, bps, ends), i + 1)
<1> DEFINE f == FillBar(i)
           lots == Executed(FullSize, f)
           price == FillPrice(FullSize, f, 1)
           b == Opened(a, i, f, price, lots, bps, ends)
<1>1. Entered(a, i, bps, ends) = IF lots = 0 THEN a ELSE [b EXCEPT !.mark = Equity(b)]
  BY EnteredIs
<1>2. DOMAIN a = Fields /\ a.filled \in Int /\ a.until \in Int
  BY AccountFields DEF Account
<1> HIDE DEF lots, price
<1>3. DOMAIN b = Fields /\ b.filled = f /\ b.until = IF ends THEN -1 ELSE a.until
  BY <1>2, OpenedFields
<1> HIDE DEF b
<1>4. Free(b, i + 1) /\ Free(a, i + 1)
  BY <1>2, <1>3 DEF Free
<1>5. Free([b EXCEPT !.mark = Equity(b)], i + 1)
  BY <1>3, <1>4, ValuedFields DEF Free, Fields
<1> QED
  BY <1>1, <1>4, <1>5

(* What an exit does to the money, before the position is reduced.         *)
Left(a, f, price, lots, bps, won) ==
  [Filled(a, f, price, lots, -1) EXCEPT
     !.fee = @ + Cost(price, lots, bps),
     !.gross = @ + Sign * (price - a.price) * lots,
     !.trades = @ + 1,
     !.wins = @ + (IF won THEN 1 ELSE 0)]

LEMMA LeftFields ==
  ASSUME NEW a, DOMAIN a = Fields, NEW f, NEW price, NEW lots, NEW bps, NEW won
  PROVE  LET b == Left(a, f, price, lots, bps, won) IN
         /\ DOMAIN b = Fields
         /\ b.fee = a.fee + Cost(price, lots, bps)
         /\ b.gross = a.gross + Sign * (price - a.price) * lots
         /\ b.trades = a.trades + 1
         /\ b.wins = a.wins + (IF won THEN 1 ELSE 0)
         /\ b.size = a.size /\ b.price = a.price /\ b.filled = a.filled /\ b.until = a.until
         /\ b.step = a.step /\ b.funding = a.funding /\ b.mark = a.mark
<1> DEFINE moved == Filled(a, f, price, lots, -1)
           one == IF won THEN 1 ELSE 0
           gain == Sign * (price - a.price) * lots
           fee == moved.fee + Cost(price, lots, bps)
           gross == moved.gross + gain
           trades == moved.trades + 1
           wins == moved.wins + one
           b == [moved EXCEPT !.fee = fee, !.gross = gross, !.trades = trades, !.wins = wins]
<1>1. Left(a, f, price, lots, bps, won) = b
  BY DEF Left
<1>2. DOMAIN moved = Fields /\ \A x \in Fields \ {"cash", "fills"} : moved[x] = a[x]
  BY FilledFields
<1> HIDE DEF moved, one, gain
<1>3. /\ fee = a.fee + Cost(price, lots, bps) /\ gross = a.gross + gain
      /\ trades = a.trades + 1 /\ wins = a.wins + one
  BY <1>2 DEF Fields
<1> HIDE DEF fee, gross, trades, wins
<1>4. /\ DOMAIN b = Fields /\ b.fee = fee /\ b.gross = gross /\ b.trades = trades /\ b.wins = wins
      /\ \A x \in Fields \ {"fee", "gross", "trades", "wins"} : b[x] = moved[x]
  BY <1>2 DEF Fields
<1> HIDE DEF b
<1>5. \A x \in {"size", "price", "filled", "until", "step", "funding", "mark"} : b[x] = a[x]
  BY <1>2, <1>4 DEF Fields
<1> QED
  BY <1>1, <1>3, <1>4, <1>5 DEF one, gain

LEMMA LeftAlike ==
  ASSUME NEW s, NEW r, DOMAIN s = Fields, DOMAIN r = Fields, Alike(s, r),
         NEW f, NEW price, NEW lots, NEW bps, NEW won
  PROVE  Alike(Left(s, f, price, lots, bps, won), Left(r, f, price, lots, bps, won))
<1> DEFINE b == Left(s, f, price, lots, bps, won)
           c == Left(r, f, price, lots, bps, won)
<1>1. s.price = r.price /\ s.gross = r.gross /\ s.wins = r.wins /\ s.fee = r.fee
  BY DEF Alike
<1>2. b.gross = c.gross /\ b.wins = c.wins /\ b.fee = c.fee
  BY <1>1, LeftFields
<1>3. /\ b.size = c.size /\ b.price = c.price /\ b.filled = c.filled /\ b.trades = c.trades
      /\ b.funding = c.funding /\ b.mark = c.mark
      /\ b.size > 0 => b.step = c.step
  BY LeftFields DEF Alike
<1> QED
  BY <1>2, <1>3 DEF Alike

LEMMA ExitedIs ==
  ASSUME NEW a, NEW i, NEW bps
  PROVE  LET f == FillBar(i)
             lots == Executed(a.size, f)
             price == FillPrice(a.size, f, -1)
             won == Scale * Sign * (price - a.price) * lots > Cost(price, lots, bps)
             b == Left(a, f, price, lots, bps, won)
             c == [Reduced(b, lots, FALSE) EXCEPT !.mark = Equity(b)]
         IN  Exited(a, i, bps) = IF lots = 0 THEN a ELSE c
BY DEF Exited, Left

(* At equal rates two open accounts exit alike.                            *)
LEMMA ExitedAlike ==
  ASSUME Input, NEW s \in Account, NEW r \in Account, Alike(s, r), NEW i, FillBar(i) \in 1..Bars, NEW bps
  PROVE  Alike(Exited(s, i, bps), Exited(r, i, bps))
<1> DEFINE f == FillBar(i)
           size == s.size
           lots == Executed(size, f)
           price == FillPrice(size, f, -1)
           entry == s.price
           won == Scale * Sign * (price - entry) * lots > Cost(price, lots, bps)
           b == Left(s, f, price, lots, bps, won)
           c == Left(r, f, price, lots, bps, won)
           u == Reduced(b, lots, FALSE)
           v == Reduced(c, lots, FALSE)
<1>1. DOMAIN s = Fields /\ DOMAIN r = Fields
  BY AccountFields
<1>2. /\ Exited(s, i, bps) = IF lots = 0 THEN s ELSE [u EXCEPT !.mark = Equity(b)]
      /\ Exited(r, i, bps) = IF lots = 0 THEN r ELSE [v EXCEPT !.mark = Equity(c)]
  <2>1. r.size = size /\ r.price = entry
    BY DEF Alike
  <2> QED
    BY <2>1, ExitedIs
<1>3. lots \in Nat /\ s.size \in Nat
  <2>1. s.size \in Nat
    BY DEF Account
  <2>2. lots \in 0..s.size
    BY <2>1, ExecutedFits, Zenon
  <2> HIDE DEF lots
  <2> QED
    BY <2>1, <2>2
<1> HIDE DEF f, lots, price, won
<1>4. DOMAIN b = Fields /\ DOMAIN c = Fields /\ Alike(b, c) /\ b.size = s.size
  BY <1>1, LeftFields, LeftAlike
<1> HIDE DEF b, c
<1>5. DOMAIN u = Fields /\ DOMAIN v = Fields /\ Alike(u, v)
  BY <1>3, <1>4, ReducedFields, ReducedAlike
<1> HIDE DEF u, v
<1>6. Equity(b) = Equity(c)
  BY <1>4 DEF Alike, Equity
<1>7. Alike([u EXCEPT !.mark = Equity(b)], [v EXCEPT !.mark = Equity(c)])
  BY <1>5, <1>6, ValuedAlike
<1> QED
  BY <1>2, <1>7

LEMMA ExitedFree ==
  ASSUME NEW a \in Account, NEW i \in Int, NEW bps, Free(a, i), i >= 0
  PROVE  Free(Exited(a, i, bps), i + 1)
<1> DEFINE f == FillBar(i)
           lots == Executed(a.size, f)
           price == FillPrice(a.size, f, -1)
           won == Scale * Sign * (price - a.price) * lots > Cost(price, lots, bps)
           b == Left(a, f, price, lots, bps, won)
           ends == FALSE
           u == Reduced(b, lots, ends)
<1>1. Exited(a, i, bps) = IF lots = 0 THEN a ELSE [u EXCEPT !.mark = Equity(b)]
  BY ExitedIs
<1>2. DOMAIN a = Fields /\ a.filled \in Int /\ a.until \in Int
  BY AccountFields DEF Account
<1> HIDE DEF lots, f, price, won, ends
<1>3. DOMAIN b = Fields /\ b.filled = a.filled /\ b.until = a.until
  BY <1>2, LeftFields
<1> HIDE DEF b
<1>4. /\ DOMAIN u = Fields
      /\ u.filled = a.filled \/ u.filled = -1
      /\ u.until = a.until \/ u.until = -1
  BY <1>3, ReducedFields
<1> HIDE DEF u
<1>5. Free(u, i + 1) /\ Free(a, i + 1)
  BY <1>2, <1>4 DEF Free
<1>6. Free([u EXCEPT !.mark = Equity(b)], i + 1)
  BY <1>4, <1>5, ValuedFields DEF Free, Fields
<1> QED
  BY <1>1, <1>5, <1>6

(* What is open at the end of the series is closed.                        *)
LEMMA ClosedIs ==
  ASSUME NEW a
  PROVE  LET bps == FeeBps + SlipBps
             won == Scale * (Sign * (close[Bars] - a.price) * a.size) > Cost(close[Bars], a.size, bps)
             b == Left(a, Bars, close[Bars], a.size, bps, won)
             c == [b EXCEPT !.size = 0]
         IN  Closed(a) = IF a.size = 0 THEN a ELSE [c EXCEPT !.mark = Equity(c)]
BY DEF Closed, Left

LEMMA ClosedAlike ==
  ASSUME NEW s \in Account, NEW r \in Account, Alike(s, r)
  PROVE  Alike(Closed(s), Closed(r))
<1> DEFINE bps == FeeBps + SlipBps
           lots == s.size
           price == close[Bars]
           entry == s.price
           won == Scale * (Sign * (price - entry) * lots) > Cost(price, lots, bps)
           b == Left(s, Bars, price, lots, bps, won)
           c == Left(r, Bars, price, lots, bps, won)
           u == [b EXCEPT !.size = 0]
           v == [c EXCEPT !.size = 0]
<1>1. DOMAIN s = Fields /\ DOMAIN r = Fields
  BY AccountFields
<1>2. /\ Closed(s) = IF lots = 0 THEN s ELSE [u EXCEPT !.mark = Equity(u)]
      /\ Closed(r) = IF lots = 0 THEN r ELSE [v EXCEPT !.mark = Equity(v)]
  <2>1. r.size = lots /\ r.price = entry
    BY DEF Alike
  <2> QED
    BY <2>1, ClosedIs
<1> HIDE DEF bps, lots, price, entry, won
<1>3. DOMAIN b = Fields /\ DOMAIN c = Fields /\ Alike(b, c)
  BY <1>1, LeftFields, LeftAlike
<1> HIDE DEF b, c
<1>4. DOMAIN u = Fields /\ DOMAIN v = Fields /\ Alike(u, v)
  BY <1>3 DEF Alike, Fields
<1> HIDE DEF u, v
<1>5. Equity(u) = Equity(v)
  BY <1>4 DEF Alike, Equity
<1>6. Alike([u EXCEPT !.mark = Equity(u)], [v EXCEPT !.mark = Equity(v)])
  BY <1>4, <1>5, ValuedAlike
<1> QED
  BY <1>2, <1>6

-----------------------------------------------------------------------------
(* The loops side by side                                                  *)

(* When the single simulation promises the results of the sweep.           *)
Comparable == /\ p.cooldown = 0 /\ p.latency = 0 /\ ~p.realistic /\ ~p.full /\ ~TiersTurnedOff

(* The single simulation liquidates what the reference does.               *)
LEMMA RatiosAgree ==
  ASSUME Input, Comparable, NEW s, NEW r, s.size = r.size, s.price = r.price, s.step = r.step
  PROVE  SingleRatio(s) = ReferenceRatio(r)
<1>1. TierOf(s) = TierOf(r)
  BY DEF TierOf
<1>2. TierRatio(s) = TierRatio(r)
  BY <1>1 DEF TierRatio
<1>3. p.partial \in 0..100
  BY DEF Input, Setting
<1> DEFINE own == Given \/ p.tiers = <<>>
           swept == p.explicit # <<>> \/ DefaultRatio # 100 \/ p.tiers = <<>>
<1>4. own <=> swept
  BY <1>3 DEF Comparable, TiersTurnedOff, DefaultRatio, Given
<1>5. SingleRatio(s) = IF own THEN StepOf(p.explicit, DefaultRatio, s.step) ELSE TierRatio(s)
  BY DEF Comparable, SingleRatio
<1>6. ReferenceRatio(r) = IF swept THEN StepOf(p.explicit, DefaultRatio, r.step) ELSE TierRatio(r)
  BY DEF ReferenceRatio
<1> HIDE DEF own, swept
<1> QED
  BY <1>2, <1>4, <1>5, <1>6

(* Without a cooldown the kernel takes what the reference does, tiers and  *)
(* schedules included.                                                     *)
LEMMA KernelRatioAgrees ==
  ASSUME p.cooldown = 0, NEW a
  PROVE  KernelRatio(a) = ReferenceRatio(a)
BY DEF KernelRatio, ReferenceRatio

LEMMA KernelBarAgrees ==
  ASSUME p.cooldown = 0, NEW a, NEW i, NEW entry, NEW exit, NEW extreme
  PROVE  KernelBar(a, i, entry, exit, extreme) = ReferenceBar(a, i, entry, exit, extreme)
<1> DEFINE m == Marked(a, i)
<1>1. KernelLiquidated(m, i) = ReferenceLiquidated(m, i)
  BY KernelRatioAgrees DEF KernelLiquidated, ReferenceLiquidated
<1>2. KernelEntered(m, i) = ReferenceEntered(m, i) /\ KernelExited(m, i) = ReferenceExited(m, i)
  BY DEF KernelEntered, ReferenceEntered, KernelExited, ReferenceExited
<1> HIDE DEF m
<1> QED
  BY <1>1, <1>2, Zenon DEF KernelBar, ReferenceBar, m

(* Where fills are whole both ways of charging slippage cost the same.     *)
LEMMA RatesAgree ==
  ASSUME Comparable, BarSimulationAssumption, NEW lots, NEW i
  PROVE  ResidualBps(lots, i) = BothBps(lots, i)
<1>1. Adverse(lots, i) = 0
  BY DEF Adverse, Comparable
<1> QED
  BY <1>1 DEF ResidualBps, BothBps

LEMMA PromptFill ==
  ASSUME Input, BarSimulationAssumption, Comparable, NEW i \in 1..Bars
  PROVE  FillBar(i) = i
<1>1. FillBar(i) \in i..Bars /\ FillBar(i) <= i + p.latency
  BY FillBarBounds
<1>2. p.latency = 0 /\ i \in Int /\ Bars \in Int
  BY DEF Comparable, BarSimulationAssumption
<1> QED
  BY <1>1, <1>2

(* One bar of the single simulation and of the reference.                  *)
LEMMA BarsAlike ==
  ASSUME Input, BarSimulationAssumption, Comparable, NEW i \in 1..Bars,
         NEW s, NEW r, Sound(s, i), Sound(r, i), Alike(s, r), Free(s, i), Free(r, i),
         NEW entry, NEW exit, NEW extreme
  PROVE  LET u == SingleBar(s, i, entry, exit, extreme)
             v == ReferenceBar(r, i, entry, exit, extreme)
         IN  Alike(u, v) /\ Free(u, i + 1) /\ Free(v, i + 1)
<1> DEFINE m == Marked(s, i)
           n == Marked(r, i)
<1>1. m \in Account /\ n \in Account
  BY MarkedIsSound DEF Sound
<1>2. s \in Account /\ r \in Account /\ DOMAIN s = Fields /\ DOMAIN r = Fields
  BY AccountFields DEF Sound
<1>3. Alike(m, n)
  BY <1>2, MarkedAlike
<1>4. Free(m, i) /\ Free(n, i)
  BY <1>2, MarkedFields DEF Free
<1> HIDE DEF m, n
<1>5. /\ m.size = n.size /\ m.price = n.price /\ m.filled = n.filled
      /\ m.size > 0 => m.step = n.step
  BY <1>3 DEF Alike
<1>6. /\ m.size \in Nat /\ m.filled \in Int /\ n.filled \in Int /\ m.until \in Int /\ n.until \in Int
      /\ i \in Int /\ i >= 0
  <2>1. m.size \in Nat /\ m.filled \in Int /\ m.until \in Int
    BY <1>1 DEF Account
  <2>2. n.filled \in Int /\ n.until \in Int
    BY <1>1 DEF Account
  <2>3. Bars \in Nat
    BY DEF BarSimulationAssumption
  <2> QED
    BY <2>1, <2>2, <2>3
<1>7. FillBar(i) = i /\ FillBar(i) \in 1..Bars
  BY PromptFill
<1>8. /\ Triggered(m, i, extreme) /\ i >= m.filled <=> Triggered(n, i, extreme) /\ i > n.filled
      /\ Triggered(m, i, extreme) => m.size > 0
  <2>1. i >= m.filled /\ i > n.filled /\ i > m.until /\ i > n.until
    BY <1>4, <1>6 DEF Free
  <2>2. LiquidationPrice(m) = LiquidationPrice(n)
    <3>1. Margin(m) = Margin(n)
      BY <1>5 DEF Margin, TierOf
    <3> QED
      BY <1>5, <3>1 DEF LiquidationPrice
  <2> QED
    BY <1>5, <2>1, <2>2 DEF Triggered
<1>9. ASSUME m.size > 0
      PROVE  /\ Alike(SingleLiquidated(m, i), ReferenceLiquidated(n, i))
             /\ Free(SingleLiquidated(m, i), i + 1) /\ Free(ReferenceLiquidated(n, i), i + 1)
  <2>1. SingleRatio(m) = ReferenceRatio(n) /\ SingleRatio(m) \in 0..100
    BY <1>1, <1>5, <1>9, RatiosAgree, RatiosAreShares
  <2>2. Alike(SingleLiquidated(m, i), ReferenceLiquidated(n, i))
    BY <1>1, <1>3, <1>9, <2>1, LiquidatedAlike, Zenon DEF SingleLiquidated, ReferenceLiquidated
  <2>3. p.cooldown = 0 /\ m.filled <= i /\ n.filled <= i
    BY <1>4, <1>6 DEF Free, Comparable
  <2>4. Free(SingleLiquidated(m, i), i + 1) /\ Free(ReferenceLiquidated(n, i), i + 1)
    BY <1>1, <1>6, <2>3, LiquidatedFree, Zenon DEF SingleLiquidated, ReferenceLiquidated
  <2> QED
    BY <2>2, <2>4
<1>10. /\ Alike(SingleEntered(m, i), ReferenceEntered(n, i))
       /\ Free(SingleEntered(m, i), i + 1) /\ Free(ReferenceEntered(n, i), i + 1)
  <2>1. ResidualBps(FullSize, FillBar(i)) = BothBps(FullSize, FillBar(i))
    BY RatesAgree
  <2>2. Alike(SingleEntered(m, i), ReferenceEntered(n, i))
    BY <1>1, <1>3, <2>1, EnteredAlike, Zenon DEF SingleEntered, ReferenceEntered
  <2>3. Free(SingleEntered(m, i), i + 1) /\ Free(ReferenceEntered(n, i), i + 1)
    BY <1>1, <1>4, <1>6, <1>7, EnteredFree, Zenon DEF SingleEntered, ReferenceEntered
  <2> QED
    BY <2>2, <2>3
<1>11. /\ Alike(SingleExited(m, i), ReferenceExited(n, i))
       /\ Free(SingleExited(m, i), i + 1) /\ Free(ReferenceExited(n, i), i + 1)
  <2>1. ResidualBps(m.size, FillBar(i)) = BothBps(n.size, FillBar(i))
    BY <1>5, RatesAgree
  <2>2. Alike(SingleExited(m, i), ReferenceExited(n, i))
    BY <1>1, <1>3, <1>7, <2>1, ExitedAlike, Zenon DEF SingleExited, ReferenceExited
  <2>3. Free(SingleExited(m, i), i + 1) /\ Free(ReferenceExited(n, i), i + 1)
    BY <1>1, <1>4, <1>6, ExitedFree, Zenon DEF SingleExited, ReferenceExited
  <2> QED
    BY <2>2, <2>3
<1>12. Alike(m, n) /\ Free(m, i + 1) /\ Free(n, i + 1)
  BY <1>3, <1>4, <1>6 DEF Free
<1> DEFINE liquidates == Triggered(m, i, extreme) /\ i >= m.filled
           enters == m.size = 0 /\ entry
           exits == m.size > 0 /\ i >= m.filled /\ exit
<1>13. SingleBar(s, i, entry, exit, extreme) =
         IF liquidates THEN SingleLiquidated(m, i) ELSE IF enters THEN SingleEntered(m, i)
         ELSE IF exits THEN SingleExited(m, i) ELSE m
  BY DEF SingleBar, Bar, m
<1>14. ReferenceBar(r, i, entry, exit, extreme) =
         IF liquidates THEN ReferenceLiquidated(n, i) ELSE IF enters THEN ReferenceEntered(n, i)
         ELSE IF exits THEN ReferenceExited(n, i) ELSE n
  BY <1>5, <1>8 DEF ReferenceBar, Bar, n
<1>15. liquidates => m.size > 0
  BY <1>8
<1> HIDE DEF liquidates, enters, exits
<1> QED
  BY <1>9, <1>10, <1>11, <1>12, <1>13, <1>14, <1>15

(* What two loops have in common before bar i.                             *)
InStep ==
  p.cooldown = 0 =>
    /\ acct["kernel"] = acct["reference"]
    /\ Comparable =>
         /\ Alike(acct["single"], acct["reference"])
         /\ bar <= Bars => Free(acct["single"], bar) /\ Free(acct["reference"], bar)

LEMMA InStepInit == Init /\ BarSimulationAssumption => InStep
<1> SUFFICES ASSUME Init, BarSimulationAssumption PROVE InStep
  OBVIOUS
<1>1. \A e \in Engines : acct[e] = Flat
  BY DEF Init
<1>2. acct["kernel"] = acct["reference"] /\ acct["single"] = acct["reference"]
  BY <1>1 DEF Engines
<1>3. acct["single"].filled = -1 /\ acct["single"].until = -1 /\ bar = 1
  BY <1>1 DEF Engines, Flat, Init
<1> QED
  BY <1>2, <1>3 DEF InStep, Alike, Free

LEMMA SettingKept == [Next]_vars => p' = p
<1>1. SimulateBar => p' = p
  BY Zenon DEF SimulateBar
<1>2. CloseSeries => p' = p
  BY Zenon DEF CloseSeries
<1> QED
  BY <1>1, <1>2 DEF Next, vars

LEMMA InStepStep == IInv /\ InStep /\ BarSimulationAssumption /\ [Next]_vars => InStep'
<1> SUFFICES ASSUME IInv, InStep, BarSimulationAssumption, [Next]_vars PROVE InStep'
  OBVIOUS
<1>1. p' = p
  BY SettingKept, Zenon
<1>2. Comparable' <=> Comparable
  BY ONLY <1>1, Zenon DEF Comparable, TiersTurnedOff
<1> SUFFICES ASSUME p.cooldown = 0
             PROVE  /\ acct'["kernel"] = acct'["reference"]
                    /\ Comparable =>
                         /\ Alike(acct'["single"], acct'["reference"])
                         /\ bar' <= Bars => Free(acct'["single"], bar') /\ Free(acct'["reference"], bar')
  BY <1>1, <1>2 DEF InStep, Alike, Free
<1>3. /\ Sound(acct["single"], bar) /\ Sound(acct["reference"], bar) /\ Input
      /\ acct["kernel"] = acct["reference"]
      /\ Comparable =>
           /\ Alike(acct["single"], acct["reference"])
           /\ bar <= Bars => Free(acct["single"], bar) /\ Free(acct["reference"], bar)
  BY DEF IInv, Engines, InStep
<1>4. CASE SimulateBar
  <2>1. PICK entry \in BOOLEAN, exit \in BOOLEAN, reach \in {0, 50} :
          LET extreme == (close[bar] * (100 - Sign * reach)) \div 100
          IN  acct' = [single |-> SingleBar(acct["single"], bar, entry, exit, extreme),
                       reference |-> ReferenceBar(acct["reference"], bar, entry, exit, extreme),
                       kernel |-> KernelBar(acct["kernel"], bar, entry, exit, extreme)]
    BY <1>4 DEF SimulateBar
  <2> DEFINE extreme == (close[bar] * (100 - Sign * reach)) \div 100
             single == SingleBar(acct["single"], bar, entry, exit, extreme)
             reference == ReferenceBar(acct["reference"], bar, entry, exit, extreme)
             kernel == KernelBar(acct["kernel"], bar, entry, exit, extreme)
  <2> HIDE DEF extreme
  <2>2. acct' = [single |-> single, reference |-> reference, kernel |-> kernel]
    BY <2>1 DEF extreme
  <2>3. bar \in 1..Bars /\ bar' = bar + 1 /\ p' = p
    <3>1. bar <= Bars /\ bar' = bar + 1 /\ p' = p
      BY <1>4, Zenon DEF SimulateBar
    <3>2. bar \in 1..Bars + 2 /\ Bars \in Nat
      BY DEF IInv, BarSimulationAssumption
    <3> QED
      BY ONLY <3>1, <3>2
  <2>4. kernel = reference
    BY <1>3, KernelBarAgrees
  <2>5. ASSUME Comparable
        PROVE  Alike(single, reference) /\ Free(single, bar + 1) /\ Free(reference, bar + 1)
    <3>1. /\ Alike(acct["single"], acct["reference"])
          /\ Free(acct["single"], bar) /\ Free(acct["reference"], bar)
      BY <1>3, <2>3, <2>5
    <3> QED
      BY <1>3, <2>3, <2>5, <3>1, BarsAlike, Zenon
  <2> HIDE DEF single, reference, kernel
  <2> QED
    BY <2>2, <2>3, <2>4, <2>5
<1>5. CASE CloseSeries
  <2> DEFINE single == Closed(acct["single"])
             reference == Closed(acct["reference"])
             kernel == Closed(acct["kernel"])
  <2>1. /\ acct' = [single |-> single, reference |-> reference, kernel |-> kernel]
        /\ bar = Bars + 1 /\ bar' = Bars + 2 /\ p' = p
    BY <1>5 DEF CloseSeries, SingleClosed, ReferenceClosed, KernelClosed, BarSimulationAssumption
  <2>2. kernel = reference
    BY <1>3
  <2>3. ASSUME Comparable PROVE Alike(single, reference)
    BY <1>3, <2>3, ClosedAlike DEF Sound
  <2>4. ~(bar' <= Bars)
    BY <2>1 DEF BarSimulationAssumption
  <2> HIDE DEF single, reference, kernel
  <2> QED
    BY <2>1, <2>2, <2>3, <2>4
<1>6. CASE UNCHANGED vars
  BY <1>3, <1>6 DEF vars
<1> QED
  BY <1>4, <1>5, <1>6 DEF Next

(* For any candles and book the kernel and the reference give the same     *)
(* results whenever no cooldown is set, and the single simulation gives    *)
(* them too where fills are immediate and whole and the tiers count in all *)
(* of them (_simulate_core, _simulate_single_python, simulate_strategy).   *)
THEOREM EnginesAlwaysAgree == Spec => []EnginesAgree
<1>1. InStep => EnginesAgree
  BY DEF InStep, Comparable, Alike, EnginesAgree, Result
<1> QED
  BY <1>1, IInvInit, IInvStep, InStepInit, InStepStep, BarSimulationAssumption, PTL DEF Spec
=============================================================================
