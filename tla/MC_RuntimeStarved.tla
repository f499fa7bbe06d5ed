--------------------------- MODULE MC_RuntimeStarved ---------------------------
(* The liveness watch over one token whose market feed falls silent.          *)
EXTENDS RuntimeHealth
MCOrder == <<"token">>
=============================================================================
