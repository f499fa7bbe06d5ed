---------------------------- MODULE QuotingCycle ----------------------------
(***************************************************************************)
(* The quoting loop of PAPER mode: CoreMMRunner.run_cycles                 *)
(* (core_mm/runner.py), TradingMainLoop.run_market_cycle (main_loop.py),   *)
(* the sizes of sizing.py and the diffing of order_manager.py, over a      *)
(* broker of which only the ledger is seen (TradeLedger, which PaperBroker *)
(* is shown to implement).                                                 *)
(*                                                                         *)
(* A pass quotes every active market in turn.  For one market it merges    *)
(* the two outcomes, takes one snapshot of the holdings, sizes the quotes  *)
(* of both outcomes from it and then settles every quote key that has a    *)
(* desired quote or an open order.  Nothing awaited in a pass suspends it, *)
(* so the exchange and the clock act between passes only; a key is settled *)
(* per step because each may fill at once and keys do not affect each      *)
(* other's decision.                                                       *)
(*                                                                         *)
(* Data.  Sizes are lots and the skewed sizes are rounded down to a lot.   *)
(* Prices are left out: whether the filters let a quote through (book      *)
(* state, flow, risk, spread) and whether its price moved by more than the *)
(* threshold are free choices.                                             *)
(***************************************************************************)
EXTENDS Integers, Sequences, FiniteSets

CONSTANTS
  Markets,            \* markets the selector may return
  Outcomes,           \* Outcomes[m]: the pair of tokens of market m
  Keys,               \* quote keys, <<token, side>>, in their sorting order
  TradeSize,          \* trade_size
  ArbFactor,          \* maker_size_multiplier, 1 without --complement-arb
  MaxSize,            \* max_size
  HardCap,            \* hard_position_cap
  SkewFactor,         \* inventory_skew_factor: 0 is off, 1 is full
  MinOrder,           \* min_order_size
  MinMerge,           \* min_merge_size
  MaxActive,          \* max_active_markets
  MaxMarketsHolding,  \* max_markets_with_position, 0 is off
  NotionalCapped,     \* whether max_total_position_notional is on
  PartialFills        \* partial fills considered, in lots

Sides == {"buy", "sell"}
Tokens == UNION {{Outcomes[m][1], Outcomes[m][2]} : m \in Markets}
Key == Tokens \X Sides

ASSUME OutcomesAssumption ==
  /\ DOMAIN Outcomes = Markets
  /\ \A m \in Markets : Outcomes[m] = <<Outcomes[m][1], Outcomes[m][2]>>
  /\ \A m \in Markets : Outcomes[m][1] # Outcomes[m][2]
  /\ \A m, n \in Markets :
       {Outcomes[m][1], Outcomes[m][2]} \cap {Outcomes[n][1], Outcomes[n][2]} # {} => m = n
ASSUME KeysAssumption ==
  /\ Keys \in Seq(Key)
  /\ \A k \in Key : \E i \in DOMAIN Keys : Keys[i] = k
  /\ \A i, j \in DOMAIN Keys : Keys[i] = Keys[j] => i = j
ASSUME SizesAssumption ==
  /\ TradeSize \in Nat \ {0}
  /\ ArbFactor \in Nat \ {0}
  /\ MaxSize \in Nat \ {0}
  /\ HardCap \in Nat \ {0}
  /\ SkewFactor \in Nat
  /\ MinOrder \in Nat
  /\ MinMerge \in Nat
  /\ PartialFills \subseteq Nat \ {0}
ASSUME CapsAssumption ==
  /\ MaxActive \in Nat \ {0}
  /\ MaxMarketsHolding \in Nat
  /\ NotionalCapped \in BOOLEAN

VARIABLES
  active,       \* active markets, in the order they are quoted
  at,           \* the market being quoted, by place in active; 0 between passes
  key,          \* the key being settled, by place in Keys; 0 before the first
  trade,        \* trade size the market is quoted with
  held,         \* holdings when the market's quotes were sized
  buysAllowed,  \* whether the pass has a balance to buy with
  position,     \* holdings, as the PositionTracker knows them
  resting,      \* open orders of each key, in the order they were placed
  wanted        \* size the last pass desired for each key and still unfilled

vars == <<active, at, key, trade, held, buysAllowed, position, resting, wanted>>

Order == [size : Nat \ {0}, aged : BOOLEAN]

\* ComplementArbScanner.evaluate: the size is boosted while the best bids of
\* the two outcomes add up to little enough, which the prices decide.
TradeSizes == {TradeSize, TradeSize * ArbFactor}

TypeOK ==
  /\ active \in Seq(Markets)
  /\ at \in 0..Len(active)
  /\ key \in 0..Len(Keys)
  /\ trade \in TradeSizes \cup {0}
  /\ held \in [Tokens -> Nat]
  /\ buysAllowed \in BOOLEAN
  /\ position \in [Tokens -> Nat]
  /\ resting \in [Key -> Seq(Order)]
  /\ wanted \in [Key -> Nat]

Nothing == [t \in Tokens |-> 0]

Init ==
  /\ active = <<>>
  /\ at = 0
  /\ key = 0
  /\ trade = 0
  /\ held = Nothing
  /\ buysAllowed = TRUE
  /\ position = Nothing
  /\ resting = [k \in Key |-> <<>>]
  /\ wanted = [k \in Key |-> 0]

-----------------------------------------------------------------------------
(* Sizes.                                                                  *)

Smaller(m, n) == IF m < n THEN m ELSE n
Larger(m, n) == IF m > n THEN m ELSE n

MarketOf(t) == CHOOSE m \in Markets : t \in {Outcomes[m][1], Outcomes[m][2]}
Other(t) ==
  LET m == MarketOf(t) IN IF t = Outcomes[m][1] THEN Outcomes[m][2] ELSE Outcomes[m][1]

EffectiveMax == Smaller(MaxSize, HardCap)

\* Variant: the exposure is taken with the wrong sign.
BugNetLong(t) == Larger(0, held[Other(t)] - held[t])

\* How far t is held beyond the other outcome of its market.
NetLong(t) == Larger(0, held[t] - held[Other(t)])

OrNothing(size) == IF size < MinOrder THEN 0 ELSE size

\* Variant: the missing balance is not looked at.
BugBuySize(t) ==
  LET room == EffectiveMax - NetLong(t)
      scale == Larger(0, EffectiveMax - SkewFactor * NetLong(t))
  IN  IF held[t] < HardCap /\ room > 0
        THEN OrNothing((Smaller(trade, room) * scale) \div EffectiveMax)
        ELSE 0

\* Buys shrink as the net exposure nears max_size.
BuySize(t) ==
  LET room == EffectiveMax - NetLong(t)
      scale == Larger(0, EffectiveMax - SkewFactor * NetLong(t))
  IN  IF held[t] < HardCap /\ room > 0 /\ buysAllowed
        THEN OrNothing((Smaller(trade, room) * scale) \div EffectiveMax)
        ELSE 0

\* Variant: the sell is not limited to what is held.
BugSellSize(t) ==
  LET scale == EffectiveMax + SkewFactor * Smaller(NetLong(t), EffectiveMax)
  IN  IF held[t] > 0 THEN OrNothing((trade * scale) \div EffectiveMax) ELSE 0

\* Sells grow with it, up to what is held.
SellSize(t) ==
  LET scale == EffectiveMax + SkewFactor * Smaller(NetLong(t), EffectiveMax)
  IN  OrNothing(Smaller(held[t], (trade * scale) \div EffectiveMax))

QuoteSize(k) ==
  IF k[2] = "buy" THEN BuySize(k[1]) ELSE SellSize(k[1])

-----------------------------------------------------------------------------
(* Diffing one key against the book of open orders.                        *)

OwnKey(m, k) == k[1] \in {Outcomes[m][1], Outcomes[m][2]}

\* Variant: the orders of other markets are left alone.
BugKnownOrders(m, k) == IF OwnKey(m, k) THEN resting[k] ELSE <<>>

\* Every open order is filed under the market being quoted, whatever market
\* its token belongs to.
KnownOrders(m, k) == resting[k]

\* Only the newest open order of a key reaches the planner.
Newest(orders) == orders[Len(orders)]

\* Variant: the order that is replaced is not cancelled.
BugWithoutNewest(orders) == orders

WithoutNewest(orders) == SubSeq(orders, 1, Len(orders) - 1)

\* Variant: a desired size that shrank is not noticed.
BugDiffers(o, size) == 10 * (size - o.size) > o.size

\* A size change of more than 10% of the resting size is material.
Differs(o, size) ==
  10 * Larger(o.size - size, size - o.size) > o.size

\* Variant: the age of the resting order is not looked at.
BugReplaces(o, size, moved) == moved \/ Differs(o, size)

Replaces(o, size, moved) == o.aged \/ moved \/ Differs(o, size)

PositionAfter(pos, k, q) ==
  IF k[2] = "buy" THEN [pos EXCEPT ![k[1]] = @ + q]
                  ELSE [pos EXCEPT ![k[1]] = Larger(0, @ - q)]

Fills(size) == {size} \cup {q \in PartialFills : q < size}

\* An order is placed and stays open, or is executed at once: what a partial
\* fill leaves of it is dropped.
Place(k, orders, size) ==
  \/ /\ resting' = [resting EXCEPT ![k] = Append(orders, [size |-> size, aged |-> FALSE])]
     /\ wanted' = [wanted EXCEPT ![k] = size]
     /\ UNCHANGED position
  \/ \E q \in Fills(size) :
       /\ resting' = [resting EXCEPT ![k] = orders]
       /\ position' = PositionAfter(position, k, q)
       /\ wanted' = [wanted EXCEPT ![k] = 0]

\* Desired is 0 when no quote of the key is desired.  Another market's key is
\* never desired here, and what it was wanted for is not forgotten.
Settle(m, k, desired, moved) ==
  LET orders == KnownOrders(m, k)
      cleared == [wanted EXCEPT ![k] = IF OwnKey(m, k) THEN 0 ELSE @]
  IN  \/ /\ desired = 0 /\ orders = <<>>
         /\ wanted' = cleared
         /\ UNCHANGED <<position, resting>>
      \/ /\ desired = 0 /\ orders # <<>>
         /\ resting' = [resting EXCEPT ![k] = WithoutNewest(@)]
         /\ wanted' = cleared
         /\ UNCHANGED position
      \/ /\ desired > 0 /\ orders = <<>>
         /\ Place(k, orders, desired)
      \/ /\ desired > 0 /\ orders # <<>>
         /\ Replaces(Newest(orders), desired, moved)
         /\ Place(k, WithoutNewest(orders), desired)
      \/ /\ desired > 0 /\ orders # <<>>
         /\ ~Replaces(Newest(orders), desired, moved)
         /\ wanted' = [wanted EXCEPT ![k] = desired]
         /\ UNCHANGED <<position, resting>>

-----------------------------------------------------------------------------
(* The loop.                                                               *)

Holding(m) == position[Outcomes[m][1]] > 0 \/ position[Outcomes[m][2]] > 0
MarketsHolding(markets) == {i \in DOMAIN markets : Holding(markets[i])}

TooManyHold(markets) ==
  MaxMarketsHolding > 0 /\ Cardinality(MarketsHolding(markets)) > MaxMarketsHolding

Selections ==
  {s \in UNION {[1..n -> Markets] : n \in 0..MaxActive} :
     \A i, j \in DOMAIN s : s[i] = s[j] => i = j}

\* One turn of the script's loop: the selection may be refreshed, the
\* aggregate caps are looked at once, and the pass starts unless there is
\* nothing to quote.  Whether the notional cap bites depends on prices.
Iterate(selection) ==
  /\ at = 0
  /\ active' = selection
  /\ at' = IF selection = <<>> THEN 0 ELSE 1
  /\ \/ /\ selection = <<>>
        /\ UNCHANGED <<buysAllowed, wanted>>
     \/ /\ selection # <<>>
        /\ \E overNotional \in BOOLEAN :
             /\ overNotional => NotionalCapped /\ MarketsHolding(selection) # {}
             /\ buysAllowed' = ~(overNotional \/ TooManyHold(selection))
        /\ wanted' = [k \in Key |-> 0]
  /\ UNCHANGED <<key, trade, held, position, resting>>

\* Variant: the larger holding is taken off both outcomes.
BugMerged(m) ==
  LET a == Outcomes[m][1]
      b == Outcomes[m][2]
      amount == Larger(position[a], position[b])
  IN  IF amount >= MinMerge
        THEN [position EXCEPT ![a] = @ - amount, ![b] = @ - amount]
        ELSE position

\* The holdings of a market once its opposing outcomes are merged.
Merged(m) ==
  LET a == Outcomes[m][1]
      b == Outcomes[m][2]
      amount == Smaller(position[a], position[b])
  IN  IF amount >= MinMerge
        THEN [position EXCEPT ![a] = @ - amount, ![b] = @ - amount]
        ELSE position

StartMarket ==
  /\ at > 0
  /\ key = 0
  /\ position' = Merged(active[at])
  /\ held' = position'
  /\ trade' \in TradeSizes
  /\ key' = 1
  /\ UNCHANGED <<active, at, buysAllowed, resting, wanted>>

SettleKey ==
  /\ at > 0
  /\ key > 0
  /\ \E through, moved \in BOOLEAN :
       LET m == active[at]
           k == Keys[key]
           quoted == through /\ OwnKey(m, k)
       IN  Settle(m, k, IF quoted THEN QuoteSize(k) ELSE 0, moved)
  /\ IF key < Len(Keys)
       THEN key' = key + 1 /\ UNCHANGED <<at, trade, held>>
       ELSE /\ key' = 0
            /\ at' = IF at < Len(active) THEN at + 1 ELSE 0
            /\ trade' = 0
            /\ held' = Nothing
  /\ UNCHANGED <<active, buysAllowed>>

\* A market message lets the broker fill an open order.
Trade(k, i, q) ==
  /\ at = 0
  /\ q \in Fills(resting[k][i].size)
  /\ position' = PositionAfter(position, k, q)
  /\ resting' = [resting EXCEPT ![k] = SubSeq(@, 1, i - 1) \o SubSeq(@, i + 1, Len(@))]
  /\ wanted' = [wanted EXCEPT ![k] = 0]
  /\ UNCHANGED <<active, at, key, trade, held, buysAllowed>>

\* stale_after_ms have passed since an order was placed.
Age(k, i) ==
  /\ at = 0
  /\ ~resting[k][i].aged
  /\ resting' = [resting EXCEPT ![k][i].aged = TRUE]
  /\ UNCHANGED <<active, at, key, trade, held, buysAllowed, position, wanted>>

Next ==
  \/ \E selection \in Selections : Iterate(selection)
  \/ StartMarket
  \/ SettleKey
  \/ \E k \in Key : \E i \in DOMAIN resting[k] :
       \/ \E q \in Fills(resting[k][i].size) : Trade(k, i, q)
       \/ Age(k, i)

Spec == Init /\ [][Next]_vars

-----------------------------------------------------------------------------
(* Fairness: the script's loop goes on while the session lasts and nothing *)
(* in a pass can block.                                                    *)

Fairness ==
  /\ WF_vars(\E selection \in Selections : Iterate(selection))
  /\ WF_vars(StartMarket)
  /\ WF_vars(SettleKey)

FairSpec == Spec /\ Fairness

-----------------------------------------------------------------------------
(* Properties.                                                             *)

\* The planner knows one open order per key (_existing_orders_by_quote_key
\* keeps the last it sees); a second one would be out of its reach for good.
\* Replacements, fills and dropped markets never leave two behind.
OneOrderPerQuote == \A k \in Key : Len(resting[k]) <= 1

\* Between passes nothing is on offer that the last pass did not want there:
\* a quote the filters stopped, or one of a market that was dropped, has been
\* cancelled, whatever was filled and replaced meanwhile.
NothingUnwantedOnOffer ==
  at = 0 => \A k \in Key : resting[k] # <<>> => wanted[k] > 0

\* Between passes every quote the last pass wanted is on offer, to within the
\* 10% that is not worth a replacement, unless it was filled.  With several
\* active markets this is what run_core_mm.py:61 promises of
\* --max-active-markets, "Max markets to quote simultaneously".
PlanIsOnOffer ==
  at = 0 =>
    \A k \in Key : wanted[k] > 0 =>
      \E i \in DOMAIN resting[k] :
        LET size == resting[k][i].size
        IN  10 * (wanted[k] - size) <= size /\ 10 * (size - wanted[k]) <= size

\* A pass that an aggregate cap left without a balance (runner.py:226, 234)
\* takes the buys of earlier passes off the market as well.
CappedPassLeavesNoBuys ==
  at = 0 /\ ~buysAllowed => \A t \in Tokens : resting[<<t, "buy">>] = <<>>

\* Between passes a token's open sell never exceeds its holdings by more than
\* the 10% tolerance of the diffing: merges and fills since the order was
\* placed are followed up by the next pass.
SellsNearlyCovered ==
  at = 0 =>
    \A t \in Tokens : \A i \in DOMAIN resting[<<t, "sell">>] :
      10 * (resting[<<t, "sell">>][i].size - position[t]) <= resting[<<t, "sell">>][i].size

\* Holdings stay within max_size, plus what can be left unmerged of the other
\* outcome.  This is why merging before quoting matters: sizing.py bounds net
\* exposure only, and holdings of both outcomes could otherwise grow together.
\* An order that is kept stays within it: what is held of a token grows by the
\* fills of its own buy only, of which there is one.
HoldingMax == EffectiveMax + Larger(MinMerge - 1, 0)
HoldingsBounded == \A t \in Tokens : position[t] <= HoldingMax

\* An order that outlived stale_after_ms is executed, cancelled or replaced,
\* whatever its key, as long as passes keep coming: no quote is left behind.
Stale(k) == \E i \in DOMAIN resting[k] : resting[k][i].aged
StaleQuotesGo == \A k \in Key : ([]<>(at > 0)) => (Stale(k) ~> ~Stale(k))
=============================================================================
