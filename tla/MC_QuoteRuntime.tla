--------------------------- MODULE MC_QuoteRuntime ---------------------------
EXTENDS QuoteRuntime
=============================================================================
