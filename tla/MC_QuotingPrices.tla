-------------------------- MODULE MC_QuotingPrices --------------------------
(* The quoting of one market, with levels that are dust, count only for want  *)
(* of better ones, or are thick.  A behaviour is one of the cycle or of the   *)
(* prices, the other rests.                                                   *)
EXTENDS MC_QuotingCycle, MarketQuoting

VARIABLE subject

\* A tightening to 4/5 shows on wide books only; 1/3 does on one of six ticks.
MCRegimes == {<<1, 3>>}

\* Adverse fills outweigh the tightening, as 13/10 does 4/5.
MCAdverse == {<<4, 1>>}

Filled(sizes) == [p \in 1..6 |-> IF p \in DOMAIN sizes THEN sizes[p] ELSE 0]

\* Nothing, and a wide market.
MCSnapshots ==
  {[bids |-> Filled(<<>>), asks |-> Filled(<<>>)],
   [bids |-> Filled([p \in {1} |-> 7]), asks |-> Filled([p \in {6} |-> 7])]}

MCInit == subject \in {"cycle", "prices"} /\ Init /\ P!Init

MCNext == \/ subject = "cycle" /\ Next /\ UNCHANGED <<subject, prices>>
          \/ subject = "prices" /\ P!Next /\ UNCHANGED <<subject, cycle>>

MCSpec == MCInit /\ [][MCNext]_<<subject, cycle, prices>>
=============================================================================
