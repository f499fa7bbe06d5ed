---------------------------- MODULE MC_TokenGates ----------------------------
\* A market of two outcomes; imbalances in units of 2500 bps.
EXTENDS TokenGates

MCTokens == <<"yes", "no">>
=============================================================================
