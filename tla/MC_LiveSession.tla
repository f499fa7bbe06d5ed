--------------------------- MODULE MC_LiveSession ---------------------------
(* One market of two outcomes.                                             *)
EXTENDS LiveSession

\* "market:token:side" in the order of the strings.
AllKeys ==
  << <<No, "BUY">>, <<No, "SELL">>, <<No, "buy">>, <<No, "sell">>,
     <<Yes, "BUY">>, <<Yes, "SELL">>, <<Yes, "buy">>, <<Yes, "sell">> >>
=============================================================================
