---------------------------- MODULE QuotePrices ----------------------------
(***************************************************************************)
(* From a token's book to the prices of its two quotes: BookManager        *)
(* (core_mm/book_manager.py) keeps the levels the feed reports,            *)
(* find_meaningful_bbo (book_metrics.py) picks the best levels of some     *)
(* size, get_order_prices (quote_engine.py) improves or joins them, skews  *)
(* and widens, and _evaluate_token (main_loop.py) may rush the side that   *)
(* reduces the inventory.                                                  *)
(*                                                                         *)
(* Data.  Prices are ticks of a market with a tick size of its own; what   *)
(* falls between ticks is rounded where the code does.  The skew and the   *)
(* spread multiplier are any that the inventory, its profit, the alpha     *)
(* overlay and the age of the book may give.  The session feeds the        *)
(* overlay books, mids and fills; spot prices are fed by nobody, so spot   *)
(* momentum gives nothing.  The exchange's book is not crossed after any   *)
(* message.                                                                *)
(***************************************************************************)
EXTENDS Integers, FiniteSets, FiniteSetsExt

CONSTANTS
  Top,           \* the highest price of a level
  Low, High,     \* 0.01 and 0.99, which quotes are kept within
  LevelSizes,    \* sizes of levels
  MinSize,       \* min_size
  FallbackSize,  \* fallback_size
  MaxSkew,       \* max_skew_ticks
  MaxImbalance,  \* ticks the imbalance of the book may ask for
  MaxComplement, \* ticks the sum of the two outcomes' prices may ask for
  Regimes,       \* multipliers of the volatility regimes, <<numerator, denominator>>
  Adverse,       \* multipliers of mostly adverse fills, likewise
  Costs,         \* average costs, rounded up to a tick; 0 is none
  Snapshots,     \* books a snapshot may bring, as records of bids and asks
  MaxLevels      \* bound: levels on one side

Prices == 1..Top

Side == [Prices -> LevelSizes \cup {0}]

PricesAssumption ==
  /\ Top \in Nat /\ Low \in Prices /\ High \in Prices /\ Low <= High
  /\ LevelSizes \subseteq Nat \ {0}
  /\ MinSize \in Nat \ {0} /\ FallbackSize \in 1..MinSize
  /\ {MaxSkew, MaxImbalance, MaxComplement} \subseteq Nat
  /\ \A m \in Regimes \cup Adverse : m = <<m[1], m[2]>> /\ m[1] \in Nat /\ m[2] \in Nat \ {0}
  /\ Costs \subseteq 0..Top
  /\ \A s \in Snapshots : s.bids \in Side /\ s.asks \in Side
  /\ MaxLevels \in Nat

VARIABLES
  bids, asks,  \* sizes of the levels, 0 where there is none
  plan         \* the quotes planned from the book, if any, with what they were planned for

vars == <<bids, asks, plan>>

NoPlan == [bid |-> 0, ask |-> 0]

\* Ticks the net position asks for: up to twice as many for a long one at a loss.
InventoryTicks == (-MaxSkew)..(2 * MaxSkew)

\* Ticks of the alpha overlay: a smoothed imbalance past its threshold, and
\* outcomes that together cost more or less than 1, ask for one or more.
ImbalanceTicks == (-MaxImbalance)..MaxImbalance
ComplementTicks == (-MaxComplement)..MaxComplement

Skews ==
  {i + b + c : i \in InventoryTicks, b \in ImbalanceTicks, c \in ComplementTicks}

\* A book past 0.6 of the staleness gate is quoted twice as wide.
AgeMultipliers == {<<1, 1>>, <<2, 1>>}

\* Quiet prices tighten the spread and wild ones widen it, once there are five
\* moves to tell by.
VolMultipliers == {<<1, 1>>} \cup Regimes

\* The spread is widened as well once some 65 % of a token's last fills, five
\* or more, were buys above the mid or sells below it.
FillMultipliers == {<<1, 1>>} \cup Adverse

\* All three count together: adverse fills may undo or outweigh a tightening.
Multipliers ==
  {<<a[1] * f[1] * v[1], a[2] * f[2] * v[2]>> :
     a \in AgeMultipliers, f \in FillMultipliers, v \in VolMultipliers}

Request ==
  [skew : Skews, cost : Costs, spread : Multipliers, rush : {"none", "buy", "sell"}]

TypeOK ==
  /\ bids \in Side
  /\ asks \in Side
  /\ plan = NoPlan \/ plan \in [bid : Low..High, ask : Low..High, of : Request]

Levels(side) == {p \in Prices : side[p] > 0}

Empty == [p \in Prices |-> 0]

Init == bids = Empty /\ asks = Empty /\ plan = NoPlan

-----------------------------------------------------------------------------
(* The meaningful best prices.                                             *)

SizedAtLeast(side, size) == {p \in Prices : side[p] >= size}

\* The size a level must have: the fallback if either side lacks the other.
Threshold ==
  IF SizedAtLeast(bids, MinSize) # {} /\ SizedAtLeast(asks, MinSize) # {}
    THEN MinSize
    ELSE FallbackSize

\* Whether there are prices to quote at.
Meaningful ==
  /\ SizedAtLeast(bids, FallbackSize) # {}
  /\ SizedAtLeast(asks, FallbackSize) # {}

BestBid == Max(SizedAtLeast(bids, Threshold))
BestAsk == Min(SizedAtLeast(asks, Threshold))
TopBid == Max(Levels(bids))
TopAsk == Min(Levels(asks))

-----------------------------------------------------------------------------
(* The prices.                                                             *)

Smaller(m, n) == IF m < n THEN m ELSE n
Larger(m, n) == IF m > n THEN m ELSE n

\* Variant: prices are kept from going too high only.
BugClamp(p) == Smaller(High, p)

Clamp(p) == Smaller(High, Larger(Low, p))

\* n / 2, rounded to the nearest integer and in the middle to the even one.
Halved(n) == IF n % 2 = 0 \/ (n \div 2) % 2 = 0 THEN n \div 2 ELSE n \div 2 + 1

Thick(size) == 2 * size > 3 * Threshold

\* Improve on a thick level by a tick, join a thin one.
BaseBid == Clamp(IF Thick(bids[BestBid]) THEN BestBid + 1 ELSE BestBid)
BaseAsk == Clamp(IF Thick(asks[BestAsk]) THEN BestAsk - 1 ELSE BestAsk)

Quotes(bid, ask) == [bid |-> bid, ask |-> ask]

\* A long inventory lowers the ask more than the bid, a short one raises the
\* bid more than the ask; quotes that cross are put around the middle instead.
Skewed(skew) ==
  LET bid == Clamp(BaseBid - Halved(IF skew > 0 THEN skew ELSE 3 * skew))
      ask == Clamp(BaseAsk - Halved(IF skew > 0 THEN 3 * skew ELSE skew))
  IN  IF skew = 0 THEN Quotes(BaseBid, BaseAsk)
      ELSE IF bid < ask THEN Quotes(bid, ask)
      ELSE Quotes(Clamp((BestBid + BestAsk - 2) \div 2), Clamp((BestBid + BestAsk + 3) \div 2))

\* Variant: joining the best ask is not taken for crossing it.
BugBidWithin(bid) == IF bid > BestAsk THEN Clamp(TopBid) ELSE bid

\* A bid that would cross goes back to the top of the book.
BidWithin(bid) == IF bid >= BestAsk THEN Clamp(TopBid) ELSE bid

\* Variant: the average cost does not count.
BugAskWithin(ask, cost) == IF ask <= BestBid THEN Clamp(TopAsk) ELSE ask

\* An ask covers the average cost, and goes back to the top if it would cross.
AskWithin(ask, cost) ==
  LET covering == IF cost > 0 THEN Clamp(Larger(ask, cost)) ELSE ask
  IN  IF covering <= BestBid THEN Clamp(TopAsk) ELSE covering

\* The spread is multiplied around the middle of the quotes and rounded away
\* from it.
Spread(q, m) ==
  IF m[1] = m[2] THEN q
  ELSE LET down == (q.bid + q.ask) * m[2] - (q.ask - q.bid) * m[1]
           up == (q.bid + q.ask) * m[2] + (q.ask - q.bid) * m[1]
       IN  Quotes(Clamp(down \div (2 * m[2])), Clamp(-((-up) \div (2 * m[2]))))

OrderPrices(r) ==
  LET skewed == Skewed(r.skew)
  IN  Spread(Quotes(BidWithin(skewed.bid), AskWithin(skewed.ask, r.cost)), r.spread)

\* Variant: a rushed quote may meet the other one.
BugRushed(q, rush) ==
  IF rush = "sell" THEN Quotes(q.bid, Larger(Low, q.ask - 1))
  ELSE IF rush = "buy" THEN Quotes(Smaller(High, q.bid + 1), q.ask)
  ELSE q

\* The side that reduces a large inventory gets a tick closer, unless the
\* quotes would meet.
Rushed(q, rush) ==
  LET ask == Larger(Low, q.ask - 1)
      bid == Smaller(High, q.bid + 1)
  IN  IF rush = "sell" /\ ask > q.bid THEN Quotes(q.bid, ask)
      ELSE IF rush = "buy" /\ bid < q.ask THEN Quotes(bid, q.ask)
      ELSE q

-----------------------------------------------------------------------------
(* Messages of the feed, and the cycle that plans the quotes.  A plan is   *)
(* used up within its cycle, so no message finds one.                      *)

Book(b, a) ==
  /\ plan = NoPlan
  /\ \A p \in Levels(b), q \in Levels(a) : p < q
  /\ Cardinality(Levels(b)) <= MaxLevels /\ Cardinality(Levels(a)) <= MaxLevels
  /\ bids' = b
  /\ asks' = a
  /\ UNCHANGED plan

Snapshot(s) == Book(s.bids, s.asks)

PriceChange(p, size) ==
  \/ Book([bids EXCEPT ![p] = size], asks)
  \/ Book(bids, [asks EXCEPT ![p] = size])

Priced(r) ==
  LET q == Rushed(OrderPrices(r), r.rush)
  IN  [bid |-> q.bid, ask |-> q.ask, of |-> r]

Plan ==
  /\ plan = NoPlan
  /\ Meaningful
  /\ \E r \in Request : plan' = Priced(r)
  /\ UNCHANGED <<bids, asks>>

Done == plan # NoPlan /\ plan' = NoPlan /\ UNCHANGED <<bids, asks>>

Next ==
  \/ \E s \in Snapshots : Snapshot(s)
  \/ \E p \in Prices, size \in LevelSizes \cup {0} : PriceChange(p, size)
  \/ Plan
  \/ Done

Spec == Init /\ [][Next]_vars

-----------------------------------------------------------------------------
(* Properties.                                                             *)

Planned == plan # NoPlan

\* Planned without a rush and with a spread that is not tightened all in all.
Unhurried == Planned /\ plan.of.spread[1] >= plan.of.spread[2] /\ plan.of.rush = "none"

\* The two quotes of a token never cross each other, whatever the skew, the
\* cost, the multiplier, the rush and the small levels of the book.
PlanOrdered == Planned => plan.bid <= plan.ask

\* Without a tightened spread or a rush neither quote would trade at once
\* with the meaningful book, although skew, floor and widening move them
\* after each has been checked.
StaysPassive == Unhurried => plan.bid < BestAsk /\ plan.ask > BestBid

\* Without a tightened spread or a rush no ask is below the average cost, as
\* far as quotes may go, although it is skewed, sent back to the top of the
\* book, and widened.
CostCovered == Unhurried => plan.ask >= Smaller(High, plan.of.cost)

\* tests/core_mm/test_quote_engine.py: "test_ask_never_below_average_cost".
AskNeverBelowCost == Planned => OrderPrices(plan.of).ask >= plan.of.cost
=============================================================================
