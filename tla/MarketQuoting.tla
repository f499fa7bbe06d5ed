--------------------------- MODULE MarketQuoting ---------------------------
(* The two halves of quoting one market: which orders are wanted, kept and    *)
(* replaced (QuotingCycle), and at which prices (QuotePrices).  The cycle     *)
(* takes prices as moved or not, and the prices are planned for every book,   *)
(* so that the two share nothing.                                             *)
EXTENDS QuotingCycle

CONSTANTS Top, Low, High, LevelSizes, MinSize, FallbackSize, MaxSkew, MaxImbalance,
          MaxComplement, Regimes, Adverse, Costs, Snapshots, MaxLevels   \* of the prices

VARIABLES bids, asks, plan

cycle == vars
prices == <<bids, asks, plan>>

P == INSTANCE QuotePrices

ASSUME PricesConstants == P!PricesAssumption

-----------------------------------------------------------------------------

\* The prices: the two quotes of a token never cross each other.
PlanOrdered == P!PlanOrdered

\* The prices: without a tightened spread or a rush an ask covers the cost.
CostCovered == P!CostCovered

=============================================================================
