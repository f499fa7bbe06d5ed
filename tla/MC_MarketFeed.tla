--------------------------- MODULE MC_MarketFeed ----------------------------
(* Three markets compete for two slots.                                    *)
EXTENDS MarketFeed
=============================================================================
