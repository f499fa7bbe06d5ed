---------------------------- MODULE TradeLedger ----------------------------
(***************************************************************************)
(* What an exchange promises its client, whichever way it matches orders:  *)
(* an order's terms never change, it trades at most once, only while it is *)
(* live, in its own token and direction, for at most its size and at its   *)
(* limit or better; once it has traded or was withdrawn it never trades    *)
(* again; holdings move by what was traded, or by a redemption that takes  *)
(* the same quantity of both outcomes.  PaperBroker implements this.       *)
(***************************************************************************)
EXTENDS Integers, Sequences

CONSTANTS Tokens, Reverse, Prices, Requests

VARIABLES
  terms,      \* what each order asked for, by order id
  live,       \* the orders that may still trade
  trades,     \* every trade, in order
  holdings    \* lots held of each token

vars == <<terms, live, trades, holdings>>

Init ==
  /\ terms = <<>>
  /\ live = {}
  /\ trades = <<>>
  /\ holdings = [t \in Tokens |-> 0]

Agreeable(r, price, size) ==
  /\ size \in 1..r.size
  /\ IF r.side = "buy" THEN price <= r.price ELSE price >= r.price

HoldingsAfter(r, size) ==
  [holdings EXCEPT ![r.token] =
     IF r.side = "buy" THEN @ + size ELSE IF size < @ THEN @ - size ELSE 0]

\* Order i with terms r trades: it leaves the market.
Trade(i, r) ==
  \E price \in Prices, size \in 1..r.size :
    /\ Agreeable(r, price, size)
    /\ trades' = Append(trades, [order |-> i, price |-> price, size |-> size])
    /\ holdings' = HoldingsAfter(r, size)

AcceptAndRest ==
  \E r \in Requests :
    /\ terms' = Append(terms, r)
    /\ live' = live \cup {Len(terms) + 1}
    /\ UNCHANGED <<trades, holdings>>

AcceptAndTrade ==
  \E r \in Requests :
    /\ terms' = Append(terms, r)
    /\ Trade(Len(terms) + 1, r)
    /\ UNCHANGED live

TradeResting ==
  \E i \in live :
    /\ Trade(i, terms[i])
    /\ live' = live \ {i}
    /\ UNCHANGED terms

Withdraw ==
  /\ live' \in SUBSET live
  /\ UNCHANGED <<terms, trades, holdings>>

Redeem ==
  \E a \in Tokens : \E q \in 0..holdings[a] :
    /\ a # Reverse[a]
    /\ q <= holdings[Reverse[a]]
    /\ holdings' = [holdings EXCEPT ![a] = @ - q, ![Reverse[a]] = @ - q]
    /\ UNCHANGED <<terms, live, trades>>

Next ==
  \/ AcceptAndRest
  \/ AcceptAndTrade
  \/ TradeResting
  \/ Withdraw
  \/ Redeem

Spec == Init /\ [][Next]_vars
=============================================================================
