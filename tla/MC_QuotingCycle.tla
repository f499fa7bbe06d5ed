-------------------------- MODULE MC_QuotingCycle --------------------------
(* One market, or two, with two outcomes each.                             *)
EXTENDS QuotingCycle, TLC

CONSTANTS m1, m2, y1, n1, y2, n2

OneMarket == m1 :> <<y1, n1>>
TwoMarkets == OneMarket @@ (m2 :> <<y2, n2>>)

KeysOf(y, n) == << <<n, "buy">>, <<n, "sell">>, <<y, "buy">>, <<y, "sell">> >>
OneMarketKeys == KeysOf(y1, n1)
TwoMarketKeys == KeysOf(y1, n1) \o KeysOf(y2, n2)
=============================================================================
