--------------------------- MODULE MC_RuntimeFeeds ---------------------------
(* The components of RuntimeFeeds side by side: a behaviour is one of one of  *)
(* them, and the others rest.                                                 *)
EXTENDS RuntimeFeeds

VARIABLE subject

InRollover == subject = "rollover"
InDiscovery == subject = "discovery"
InReference == subject = "reference"

MCInit == /\ subject \in {"rollover", "discovery", "reference"}
          /\ Init /\ D!Init /\ R!Init
          /\ ~InDiscovery => listed = {}
          /\ ~InRollover => market = CHOOSE m \in Markets : TRUE
          /\ ~InReference => \A v \in R!Venues : kind[v] = "poll"

MCNext == \/ InRollover /\ Next /\ UNCHANGED <<subject, discovery, reference>>
          \/ InDiscovery /\ D!Next /\ UNCHANGED <<subject, rollover, reference>>
          \/ InReference /\ R!Next /\ UNCHANGED <<subject, rollover, discovery>>

MCSpec == /\ MCInit /\ [][MCNext]_<<subject, rollover, discovery, reference>>
          /\ InRollover => Fairness
=============================================================================
