---------------------------- MODULE PaperBroker ----------------------------
(***************************************************************************)
(* The simulated exchange of PAPER mode: core_mm/paper_broker.py together  *)
(* with the PositionTracker it shares with the runner (positions.py) and   *)
(* the top of the books it reads (book_manager.py).                        *)
(*                                                                         *)
(* The event loop is single threaded.  A call is one step, except for the  *)
(* sweep that follows a market message: it walks the registered orders in  *)
(* the order they were placed, one order per step, and no call of another  *)
(* task comes in between (`sweep' is the order it is at, 0 when no sweep   *)
(* is under way).                                                          *)
(*                                                                         *)
(* Data.  Prices are ticks and sizes are lots.  A book is its two best     *)
(* levels: a fill price is the opposite best price or lies inside the      *)
(* spread, so no deeper level is ever looked at.  Time is two flags that   *)
(* the clock flips: a book is `fresh' until stale_book_ms have passed and  *)
(* an order is `queued' once min_queue_wait_ms have.  Average prices,      *)
(* PnL statistics and markouts, which nothing here branches on, are left   *)
(* out; the bankroll is kept as gross flows and the notional fee_bps is    *)
(* charged on.                                                             *)
(***************************************************************************)
EXTENDS Integers, Sequences, FiniteSets

CONSTANTS
  Tokens,       \* outcome tokens
  Reverse,      \* Reverse[t]: the other outcome of t's market
  Prices,       \* prices in ticks
  Requests,     \* orders a caller may place: token, side, price, size
  Updates,      \* market messages: the new top of book of some tokens
  QueueShare,   \* 1 / (1 - queue_depth_fraction): 2 for the default 0.5
  MinMerge,     \* min_merge_size, in lots
  MaxOrders     \* bound of the model: orders placed in a behaviour

NoPrice == 0

Sides == {"buy", "sell"}
Request == [token : Tokens, side : Sides, price : Prices, size : Nat \ {0}]
Quote == [bid : Prices \cup {NoPrice}, ask : Prices \cup {NoPrice},
          bidSize : Nat, askSize : Nat]

ASSUME TokensAssumption == Reverse \in [Tokens -> Tokens]
ASSUME PricesAssumption == Prices \subseteq Nat \ {NoPrice}
ASSUME RequestsAssumption == Requests \subseteq Request
ASSUME UpdatesAssumption ==
  \A u \in Updates :
    DOMAIN u \subseteq Tokens /\ \A t \in DOMAIN u : u[t] \in [quote : Quote, fresh : BOOLEAN]
ASSUME QueueShareAssumption == QueueShare \in Nat \ {0}
ASSUME MinMergeAssumption == MinMerge \in Nat
ASSUME MaxOrdersAssumption == MaxOrders \in Nat

VARIABLES
  books,      \* best levels of each token and whether they are fresh
  orders,     \* every order ever placed, by order id
  position,   \* lots held, as the PositionTracker knows it
  fifo,       \* open lots, oldest first: the fill that bought each one
  fills,      \* every fill, in order
  cursor,     \* fills already handed to the script
  tape,       \* what the script received, in order
  spent,      \* gross notional of the buy fills
  received,   \* gross notional of the sell fills
  feeable,    \* notional of the fills fee_bps was charged on
  sweep       \* the order the running sweep is at, 0 when none runs

feedVars == <<books, sweep>>
ledgerVars == <<position, fifo, fills, spent, received, feeable>>
tapeVars == <<cursor, tape>>
vars == <<books, orders, position, fifo, fills, cursor, tape, spent, received,
          feeable, sweep>>

Statuses == {"open", "filled", "partial", "canceled"}

Order == [token : Tokens, side : Sides, price : Prices, size : Nat \ {0},
          queued : BOOLEAN, status : Statuses]
Fill == [order : Nat \ {0}, token : Tokens, side : Sides, price : Prices,
         size : Nat \ {0}, trigger : {"cross", "touch"}]

TypeOK ==
  /\ books \in [Tokens -> [quote : Quote, fresh : BOOLEAN]]
  /\ orders \in Seq(Order)
  /\ position \in [Tokens -> Nat]
  /\ fifo \in [Tokens -> Seq(Nat \ {0})]
  /\ fills \in Seq(Fill)
  /\ cursor \in 0..Len(fills)
  /\ tape \in Seq(Fill)
  /\ spent \in Nat
  /\ received \in Nat
  /\ feeable \in Nat
  /\ sweep \in 0..Len(orders)

NoQuote == [bid |-> NoPrice, ask |-> NoPrice, bidSize |-> 0, askSize |-> 0]

\* A token without a book and a token with an empty one both fill nothing.
Init ==
  /\ books = [t \in Tokens |-> [quote |-> NoQuote, fresh |-> FALSE]]
  /\ orders = <<>>
  /\ position = [t \in Tokens |-> 0]
  /\ fifo = [t \in Tokens |-> <<>>]
  /\ fills = <<>>
  /\ cursor = 0
  /\ tape = <<>>
  /\ spent = 0
  /\ received = 0
  /\ feeable = 0
  /\ sweep = 0

-----------------------------------------------------------------------------
(* How an order meets a book: the decision part of _try_fill.              *)

Smaller(m, n) == IF m < n THEN m ELSE n

Crosses(o, q) ==
  IF o.side = "buy" THEN q.ask # NoPrice /\ o.price >= q.ask
                    ELSE q.bid # NoPrice /\ o.price <= q.bid

Touches(o, q) ==
  IF o.side = "buy" THEN q.bid # NoPrice /\ o.price >= q.bid
                    ELSE q.ask # NoPrice /\ o.price <= q.ask

FillPrice(o, q) ==
  IF Crosses(o, q) THEN (IF o.side = "buy" THEN q.ask ELSE q.bid) ELSE o.price

\* The size displayed at a fill's price: a buy looks among the asks and a
\* sell among the bids; 0 when that side has no such level.
LevelSize(side, price, q) ==
  CASE side = "buy" /\ price = q.ask -> q.askSize
    [] side = "sell" /\ price = q.bid -> q.bidSize
    [] OTHER -> 0

FillSize(o, q) ==
  LET level == LevelSize(o.side, FillPrice(o, q), q)
  IN  IF level > 0 THEN Smaller(o.size, level \div QueueShare) ELSE o.size

\* An order placed just now can only cross; a swept one may also be touched.
Fillable(o, allowTouch) ==
  LET q == books[o.token].quote
  IN  /\ books[o.token].fresh
      /\ Crosses(o, q) \/ (allowTouch /\ o.queued /\ Touches(o, q))
      /\ FillSize(o, q) > 0

FillOf(i, o) ==
  LET q == books[o.token].quote
  IN  [order |-> i, token |-> o.token, side |-> o.side,
       price |-> FillPrice(o, q), size |-> FillSize(o, q),
       trigger |-> IF Crosses(o, q) THEN "cross" ELSE "touch"]

StatusAfter(o) ==
  IF FillSize(o, books[o.token].quote) < o.size THEN "partial" ELSE "filled"

-----------------------------------------------------------------------------
(* What a fill does to the books of account.                               *)

\* Variant: a sell larger than the position takes it below zero.
BugPositionAfter(held, f) ==
  IF f.side = "buy" THEN held + f.size ELSE held - f.size

PositionAfter(held, f) ==
  CASE f.side = "buy" -> held + f.size
    [] f.side = "sell" /\ f.size < held -> held - f.size
    [] OTHER -> 0

\* Variant: the newest lots are closed first.
BugConsumeFifo(lots, qty) == SubSeq(lots, 1, Len(lots) - qty)

\* The lots of a buy are filed under its place in the list of fills.
ConsumeFifo(lots, qty) == SubSeq(lots, qty + 1, Len(lots))

FifoAfter(lots, f) ==
  IF f.side = "buy" THEN lots \o [k \in 1..f.size |-> Len(fills) + 1]
                    ELSE ConsumeFifo(lots, f.size)

Book(f) ==
  /\ position' = [position EXCEPT ![f.token] = PositionAfter(@, f)]
  /\ fifo' = [fifo EXCEPT ![f.token] = FifoAfter(@, f)]
  /\ fills' = Append(fills, f)
  /\ spent' = IF f.side = "buy" THEN spent + f.price * f.size ELSE spent
  /\ received' = IF f.side = "sell" THEN received + f.price * f.size ELSE received
  /\ feeable' = IF f.trigger = "cross" THEN feeable + f.price * f.size ELSE feeable

-----------------------------------------------------------------------------
(* The calls.                                                              *)

PlaceOrder(token, side, price, size) ==
  LET o == [token |-> token, side |-> side, price |-> price, size |-> size,
            queued |-> FALSE, status |-> "open"]
      i == Len(orders) + 1
  IN  /\ sweep = 0
      /\ \/ /\ Fillable(o, FALSE)
            /\ orders' = Append(orders, [o EXCEPT !.status = StatusAfter(o)])
            /\ Book(FillOf(i, o))
         \/ /\ ~Fillable(o, FALSE)
            /\ orders' = Append(orders, o)
            /\ UNCHANGED ledgerVars
      /\ UNCHANGED <<books, sweep, cursor, tape>>

\* Any known order is marked, whatever its status.
CancelOrder(i) ==
  /\ sweep = 0
  /\ orders' = [orders EXCEPT ![i].status = "canceled"]
  /\ UNCHANGED <<books, sweep, cursor, tape, position, fifo, fills, spent,
                 received, feeable>>

CancelAll ==
  /\ sweep = 0
  /\ orders' = [i \in DOMAIN orders |-> [orders[i] EXCEPT !.status = "canceled"]]
  /\ UNCHANGED <<books, sweep, cursor, tape, position, fifo, fills, spent,
                 received, feeable>>

\* Event time comes from the message, so new levels may be stale already.
\* One market message carries new levels for some tokens; the sweep of all
\* orders starts once every change of the message is applied.
MarketMessage(update) ==
  /\ sweep = 0
  /\ books' = [t \in Tokens |-> IF t \in DOMAIN update THEN update[t] ELSE books[t]]
  /\ sweep' = IF orders = <<>> THEN 0 ELSE 1
  /\ UNCHANGED <<orders, position, fifo, fills, spent, received, feeable,
                 cursor, tape>>

\* Variant: the sweep skips executed orders only.
BugOnOffer(o) == o.status \in {"open", "canceled"}

OnOffer(o) == o.status = "open"

SweepOne ==
  /\ sweep > 0
  /\ LET o == orders[sweep]
     IN  \/ /\ OnOffer(o)
            /\ Fillable(o, TRUE)
            /\ orders' = [orders EXCEPT ![sweep].status = StatusAfter(o)]
            /\ Book(FillOf(sweep, o))
         \/ /\ ~(OnOffer(o) /\ Fillable(o, TRUE))
            /\ UNCHANGED <<orders, position, fifo, fills, spent, received, feeable>>
  /\ sweep' = IF sweep = Len(orders) THEN 0 ELSE sweep + 1
  /\ UNCHANGED <<books, cursor, tape>>

\* Variant: only the first outcome's FIFO queue is told of the merge.
BugMerge(a) ==
  LET b == Reverse[a]
      amount == Smaller(position[a], position[b])
  IN  /\ sweep = 0
      /\ a # b
      /\ amount >= MinMerge
      /\ position' = [position EXCEPT ![a] = @ - amount, ![b] = @ - amount]
      /\ fifo' = [fifo EXCEPT ![a] = ConsumeFifo(@, amount)]
      /\ UNCHANGED <<books, orders, fills, spent, received, feeable, cursor,
                     tape, sweep>>

\* The runner merges a market's two outcomes before it quotes, and has the
\* broker close the same quantity in both FIFO queues.
Merge(a) ==
  LET b == Reverse[a]
      amount == Smaller(position[a], position[b])
  IN  /\ sweep = 0
      /\ a # b
      /\ amount >= MinMerge
      /\ position' = [position EXCEPT ![a] = @ - amount, ![b] = @ - amount]
      /\ fifo' = [fifo EXCEPT ![a] = ConsumeFifo(@, amount),
                              ![b] = ConsumeFifo(@, amount)]
      /\ UNCHANGED <<books, orders, fills, spent, received, feeable, cursor,
                     tape, sweep>>

\* Variant: the drain hands over the latest fill only.
BugDrainNewFills ==
  /\ sweep = 0
  /\ cursor < Len(fills)
  /\ tape' = Append(tape, fills[Len(fills)])
  /\ cursor' = Len(fills)
  /\ UNCHANGED <<books, orders, position, fifo, fills, spent, received,
                 feeable, sweep>>

DrainNewFills ==
  /\ sweep = 0
  /\ cursor < Len(fills)
  /\ tape' = tape \o SubSeq(fills, cursor + 1, Len(fills))
  /\ cursor' = Len(fills)
  /\ UNCHANGED <<books, orders, position, fifo, fills, spent, received,
                 feeable, sweep>>

-----------------------------------------------------------------------------
(* The clock.                                                              *)

BookGoesStale(t) ==
  /\ books[t].fresh
  /\ books' = [books EXCEPT ![t].fresh = FALSE]
  /\ UNCHANGED <<orders, position, fifo, fills, cursor, tape, spent, received,
                 feeable, sweep>>

OrderGetsQueued(i) ==
  /\ orders[i].status = "open"
  /\ ~orders[i].queued
  /\ orders' = [orders EXCEPT ![i].queued = TRUE]
  /\ UNCHANGED <<books, position, fifo, fills, cursor, tape, spent, received,
                 feeable, sweep>>

Next ==
  \/ /\ Len(orders) < MaxOrders
     /\ \E r \in Requests : PlaceOrder(r.token, r.side, r.price, r.size)
  \/ \E i \in DOMAIN orders : CancelOrder(i)
  \/ CancelAll
  \/ \E update \in Updates : MarketMessage(update)
  \/ SweepOne
  \/ \E a \in Tokens : Merge(a)
  \/ DrainNewFills
  \/ \E t \in Tokens : BookGoesStale(t)
  \/ \E i \in DOMAIN orders : OrderGetsQueued(i)

Spec == Init /\ [][Next]_vars

-----------------------------------------------------------------------------
(* Properties.                                                             *)

\* The FIFO queue that holding times are measured on and the position that
\* quotes are sized on agree, whatever mix of buys, partial fills, oversized
\* sells and merges led here, although two objects keep them (PaperBroker's
\* _fifo_entries, PositionTracker's _positions) and the runner updates them
\* in separate calls when it merges.
FifoMatchesPosition == \A t \in Tokens : Len(fifo[t]) = position[t]

\* Sells and merges always close the oldest lots: every open lot was bought by
\* a buy fill of its own token, lots stand in the order they were bought, and
\* all that was bought after the oldest open lot is still open.
FifoClosesOldestFirst ==
  \A t \in Tokens :
    /\ \A k \in DOMAIN fifo[t] :
         /\ fifo[t][k] \in DOMAIN fills
         /\ fills[fifo[t][k]].token = t
         /\ fills[fifo[t][k]].side = "buy"
    /\ \A j, k \in DOMAIN fifo[t] : j <= k => fifo[t][j] <= fifo[t][k]
    /\ fifo[t] # <<>> =>
         \A m \in DOMAIN fills :
           (fills[m].token = t /\ fills[m].side = "buy" /\ m > Head(fifo[t]))
             => Cardinality({k \in DOMAIN fifo[t] : fifo[t][k] = m}) = fills[m].size

\* The script's telemetry sees every fill exactly once and in order, however
\* drains and sweeps alternate.
TapeIsPrefixOfFills == tape = SubSeq(fills, 1, cursor)

\* The promise kept to the rest of the bot.  What it sees of the broker is a
\* ledger: terms on file, live orders, trades and holdings.
Ledger == INSTANCE TradeLedger WITH
  terms <- [i \in DOMAIN orders |->
              [token |-> orders[i].token, side |-> orders[i].side,
               price |-> orders[i].price, size |-> orders[i].size]],
  live <- {i \in DOMAIN orders : orders[i].status = "open"},
  trades <- [k \in DOMAIN fills |->
              [order |-> fills[k].order, price |-> fills[k].price,
               size |-> fills[k].size]],
  holdings <- position

\* Every step of the broker is a step of that ledger or leaves it alone: no
\* canceled, filled or partially filled order ever trades again, no order
\* trades beyond its terms, and holdings never move without a trade or merge.
ImplementsLedger == Ledger!Spec

\* paper_broker.py says of partial fills (lines 291-294): "We model being
\* behind queue_depth_fraction of the displayed size at the fill level [...]
\* Cap the fill to that amount."  A touch fill happens at the order's own
\* price; when that is the best level of its own side, this is the cap.
TouchFillsCapped ==
  [][\A k \in DOMAIN fills' \ DOMAIN fills :
       LET f == fills'[k]
           q == books[f.token].quote
           displayed == IF f.side = "buy" THEN q.bidSize ELSE q.askSize
           best == IF f.side = "buy" THEN q.bid ELSE q.ask
       IN  (f.trigger = "touch" /\ f.price = best)
              => f.size <= displayed \div QueueShare]_vars
=============================================================================
