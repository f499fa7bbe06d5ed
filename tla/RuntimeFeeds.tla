---------------------------- MODULE RuntimeFeeds ----------------------------
(* What the runtime listens to: the switch of its market stream to the next   *)
(* market (MarketRollover), the search for that market (MarketDiscovery), and *)
(* the reference price of its symbol (ReferencePrice), each with constants    *)
(* and variables of its own.  Rollover takes any answer of discovery and the  *)
(* price only knows of its own resets, so the three share nothing.            *)
EXTENDS MarketRollover

CONSTANTS
  Window, Ttl, Back, Forward, LastTime,   \* of discovery
  MaxAge, Behind, Ahead                   \* of the price: Behind is its Late

VARIABLES now, listed, slugFile, eventFile, result, trouble,
          kind, link, mute, apart, latest, answered, calm

rollover == vars
discovery == <<now, listed, slugFile, eventFile, result, trouble>>
reference == <<kind, link, mute, apart, latest, answered, calm>>

D == INSTANCE MarketDiscovery

R == INSTANCE ReferencePrice WITH Late <- Behind, heard <- answered

ASSUME DiscoveryConstants == D!DiscoveryAssumption
ASSUME ReferenceConstants == R!ReferenceAssumption

-----------------------------------------------------------------------------

\* Discovery: selections are of recent data.
AnswersAreRecent == D!AnswersAreRecent

\* Discovery: an open market that is listed is found again in time.
TroubleIsForgotten == D!TroubleIsForgotten

\* The price: never from a quote that arrived long ago.
PriceIsRecent == R!PriceIsRecent

\* The price: it is back soon after troubles end.
PriceReturns == R!PriceReturns

=============================================================================
