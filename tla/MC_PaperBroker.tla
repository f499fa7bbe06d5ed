-------------------------- MODULE MC_PaperBroker --------------------------
(* A market with two outcomes on a two-tick price grid, sessions of two    *)
(* orders in two folders, and a short tape.  A behaviour is one of the     *)
(* broker, the records or the replay, and the others rest.                 *)
EXTENDS PaperTrading, TLC

CONSTANTS yes, no

MCTokens == {yes, no}
MCReverse == (yes :> no) @@ (no :> yes)

\* A two-sided book with thin asks, and a thin one that has lost its asks.
TwoSided == [bid |-> 1, ask |-> 2, bidSize |-> 8, askSize |-> 2]
BidOnly == [bid |-> 2, ask |-> NoPrice, bidSize |-> 2, askSize |-> 0]

\* A message carries the books of both outcomes.
MCUpdates ==
  {(yes :> [quote |-> TwoSided, fresh |-> TRUE]) @@ (no :> [quote |-> BidOnly, fresh |-> TRUE])}

\* Buys that cross, and are filled in part, or wait to be touched; a sell that
\* may exceed what is held; a buy of the other outcome to merge with.
MCRequests ==
  { [token |-> yes, side |-> "buy", price |-> 2, size |-> 2],
    [token |-> yes, side |-> "buy", price |-> 1, size |-> 3],
    [token |-> yes, side |-> "sell", price |-> 1, size |-> 3],
    [token |-> no, side |-> "buy", price |-> 2, size |-> 2] }

\* A book with two sides and one without bids; the other asset has none.
MCTops == {[bid |-> 4, ask |-> 5], [bid |-> 0, ask |-> 5]}
MCSkews == {-1}

-----------------------------------------------------------------------------
VARIABLE subject

\* Folders and orders of a session are interchangeable.
MCSymmetry == Permutations(Folders) \cup Permutations(SessionOrders)

MCInit == /\ subject \in {"broker", "records", "replay"}
          /\ Init /\ R!Init /\ D!Init
          /\ subject # "replay" => ~trained

MCNext == \/ subject = "broker" /\ Next /\ UNCHANGED <<subject, records, replay>>
          \/ subject = "records" /\ R!Next /\ UNCHANGED <<subject, broker, replay>>
          \/ subject = "replay" /\ D!Next /\ UNCHANGED <<subject, broker, records>>

MCSpec == MCInit /\ [][MCNext]_<<subject, broker, records, replay>>
=============================================================================
