------------------------ MODULE PaperTrading_proofs ------------------------
(***************************************************************************)
(* Proofs about trading without an exchange: the paper broker for every    *)
(* set of tokens, prices, requests and market messages, and every bound on *)
(* the number of orders; the records of its fills for every number of      *)
(* folders, orders, fills and sessions; the replay for every tape, every   *)
(* lag and skew of the clocks, and every setting of the engine.            *)
(***************************************************************************)
EXTENDS PaperTrading, SequenceTheorems, FiniteSetTheorems, WellFoundedInduction, TLAPS

\* What an order needs of a book to be fillable gives its fill a type.
LEMMA FillType ==
  ASSUME TypeOK, NEW o \in Order, NEW i \in Nat \ {0},
         NEW allowTouch \in BOOLEAN, Fillable(o, allowTouch)
  PROVE  /\ FillOf(i, o) \in Fill
         /\ StatusAfter(o) \in Statuses \ {"open", "canceled"}
         /\ FillOf(i, o).order = i
<1> DEFINE q == books[o.token].quote
<1>1. q \in Quote
  BY DEF TypeOK, Order
<1>2. o.side \in Sides /\ o.price \in Prices /\ o.size \in Nat \ {0} /\ o.token \in Tokens
  BY DEF Order
<1>3. FillSize(o, q) > 0
  BY DEF Fillable
<1>4. FillSize(o, q) \in Nat \ {0}
  <2> DEFINE level == LevelSize(o.side, FillPrice(o, q), q)
  <2>1. level \in Nat
    BY <1>1 DEF LevelSize, Quote
  <2>2. level \div QueueShare \in Int
    BY <2>1, QueueShareAssumption
  <2>3. FillSize(o, q) = IF level > 0 THEN Smaller(o.size, level \div QueueShare) ELSE o.size
    BY DEF FillSize
  <2> HIDE DEF level
  <2> QED
    BY <1>2, <1>3, <2>1, <2>2, <2>3 DEF Smaller
<1>5. FillPrice(o, q) \in Prices
  BY <1>1, <1>2 DEF FillPrice, Crosses, Quote, Sides
<1>6. FillOf(i, o) \in Fill
  BY <1>2, <1>4, <1>5 DEF FillOf, Fill
<1>7. StatusAfter(o) \in Statuses \ {"open", "canceled"}
  BY DEF StatusAfter, Statuses
<1> QED
  BY <1>6, <1>7 DEF FillOf

\* Closing lots leaves a queue of lots, shorter by what was closed.
LEMMA ConsumeLots ==
  ASSUME NEW lots \in Seq(Nat \ {0}), NEW qty \in Nat
  PROVE  /\ ConsumeFifo(lots, qty) \in Seq(Nat \ {0})
         /\ Len(ConsumeFifo(lots, qty)) = IF qty < Len(lots) THEN Len(lots) - qty ELSE 0
BY DEF ConsumeFifo

\* The lots one buy adds.
LEMMA BoughtLots ==
  ASSUME NEW n \in Nat, NEW k \in Nat
  PROVE  /\ [j \in 1..n |-> k + 1] \in Seq(Nat \ {0})
         /\ Len([j \in 1..n |-> k + 1]) = n
<1>1. [j \in 1..n |-> k + 1] \in [1..n -> Nat \ {0}]
  OBVIOUS
<1>2. [j \in 1..n |-> k + 1] \in Seq(Nat \ {0})
  BY <1>1, SeqDef
<1> QED
  BY <1>2, LenProperties

LEMMA JoinedLots ==
  ASSUME NEW l \in Seq(Nat \ {0}), NEW m \in Seq(Nat \ {0})
  PROVE  Len(l \o m) = Len(l) + Len(m)
BY ConcatProperties

\* Booking a fill keeps the accounts well typed.
LEMMA BookType ==
  ASSUME TypeOK, NEW f \in Fill, Book(f)
  PROVE  /\ position' \in [Tokens -> Nat]
         /\ fifo' \in [Tokens -> Seq(Nat \ {0})]
         /\ fills' \in Seq(Fill)
         /\ Len(fills') = Len(fills) + 1
         /\ spent' \in Nat /\ received' \in Nat /\ feeable' \in Nat
<1>1. f.token \in Tokens /\ f.size \in Nat \ {0} /\ f.price \in Nat /\ f.side \in Sides
  BY PricesAssumption DEF Fill
<1>2. position' \in [Tokens -> Nat]
  <2>1. position[f.token] \in Nat
    BY <1>1 DEF TypeOK
  <2>2. PositionAfter(position[f.token], f) \in Nat
    BY <1>1, <2>1 DEF PositionAfter
  <2> QED
    BY <1>1, <2>2 DEF Book, TypeOK
<1>3. FifoAfter(fifo[f.token], f) \in Seq(Nat \ {0})
  <2>1. fifo[f.token] \in Seq(Nat \ {0})
    BY <1>1 DEF TypeOK
  <2>2. CASE f.side = "buy"
    <3>1. [k \in 1..f.size |-> Len(fills) + 1] \in Seq(Nat \ {0})
      <4>1. f.size \in Nat /\ Len(fills) \in Nat
        BY <1>1 DEF TypeOK
      <4> QED
        BY <4>1, BoughtLots, Zenon
    <3> QED
      BY <2>1, <2>2, <3>1 DEF FifoAfter
  <2>3. CASE f.side # "buy"
    BY <1>1, <2>1, <2>3, ConsumeLots DEF FifoAfter
  <2> QED
    BY <2>2, <2>3
<1>4. fifo' \in [Tokens -> Seq(Nat \ {0})]
  BY <1>1, <1>3 DEF Book, TypeOK
<1>5. fills' \in Seq(Fill) /\ Len(fills') = Len(fills) + 1
  BY DEF Book, TypeOK
<1>6. f.price * f.size \in Nat
  BY <1>1
<1>7. spent' \in Nat /\ received' \in Nat /\ feeable' \in Nat
  BY <1>6 DEF Book, TypeOK
<1> QED
  BY <1>2, <1>4, <1>5, <1>7

-----------------------------------------------------------------------------
(* Type correctness.                                                       *)

LEMMA InitType == Init => TypeOK
BY DEF Init, TypeOK, NoQuote, Quote, NoPrice

LEMMA NewOrder ==
  ASSUME NEW r \in Requests, NEW s \in Statuses
  PROVE  [token |-> r.token, side |-> r.side, price |-> r.price, size |-> r.size,
          queued |-> FALSE, status |-> s] \in Order
BY RequestsAssumption DEF Request, Order

LEMMA OrderUpdates ==
  ASSUME NEW o \in Order, NEW s \in Statuses
  PROVE  /\ [o EXCEPT !.status = s] \in Order
         /\ [o EXCEPT !.queued = TRUE] \in Order
BY DEF Order

LEMMA KnownOrder ==
  ASSUME TypeOK, NEW i \in DOMAIN orders
  PROVE  i \in 1..Len(orders) /\ orders[i] \in Order
BY DEF TypeOK

LEMMA PlaceOrderType ==
  ASSUME TypeOK, NEW r \in Requests, PlaceOrder(r.token, r.side, r.price, r.size)
  PROVE  TypeOK'
<1> DEFINE o == [token |-> r.token, side |-> r.side, price |-> r.price,
                 size |-> r.size, queued |-> FALSE, status |-> "open"]
           i == Len(orders) + 1
<1>1. o \in Order /\ i \in Nat \ {0}
  <2>1. "open" \in Statuses
    BY DEF Statuses
  <2>2. o \in Order
    BY <2>1, NewOrder, Zenon
  <2>3. i \in Nat \ {0}
    BY DEF TypeOK
  <2> QED
    BY <2>2, <2>3
<1>2. sweep = 0 /\ UNCHANGED <<books, sweep, cursor, tape>>
  BY DEF PlaceOrder
<1>3. CASE /\ Fillable(o, FALSE)
           /\ orders' = Append(orders, [o EXCEPT !.status = StatusAfter(o)])
           /\ Book(FillOf(i, o))
  <2>1. FillOf(i, o) \in Fill /\ StatusAfter(o) \in Statuses
    BY <1>1, <1>3, FillType
  <2>2. [o EXCEPT !.status = StatusAfter(o)] \in Order
    BY <1>1, <2>1 DEF Order
  <2>3. orders' \in Seq(Order) /\ Len(orders') = Len(orders) + 1
    BY <1>3, <2>2 DEF TypeOK
  <2> QED
    BY <1>2, <1>3, <2>1, <2>3, BookType DEF TypeOK
<1>4. CASE orders' = Append(orders, o) /\ UNCHANGED ledgerVars
  BY <1>1, <1>2, <1>4 DEF TypeOK, ledgerVars
<1> QED
  BY <1>3, <1>4 DEF PlaceOrder

LEMMA CancelOrderType ==
  ASSUME TypeOK, NEW i \in DOMAIN orders, CancelOrder(i)
  PROVE  TypeOK'
<1>1. [orders[i] EXCEPT !.status = "canceled"] \in Order
  BY KnownOrder, OrderUpdates DEF Statuses
<1>2. orders' \in Seq(Order) /\ Len(orders') = Len(orders)
  BY <1>1 DEF CancelOrder, TypeOK
<1> QED
  BY <1>2 DEF CancelOrder, TypeOK

LEMMA CancelAllType ==
  ASSUME TypeOK, CancelAll
  PROVE  TypeOK'
<1>1. ASSUME NEW i \in DOMAIN orders
      PROVE  [orders[i] EXCEPT !.status = "canceled"] \in Order
  BY KnownOrder, OrderUpdates DEF Statuses
<1>2. orders' \in [1..Len(orders) -> Order]
  <2>1. DOMAIN orders = 1..Len(orders)
    BY DEF TypeOK
  <2> QED
    BY <1>1, <2>1 DEF CancelAll
<1>3. orders' \in Seq(Order) /\ Len(orders') = Len(orders)
  <2>1. Len(orders) \in Nat
    BY DEF TypeOK
  <2>2. orders' \in Seq(Order)
    BY <1>2, <2>1, SeqDef
  <2>3. Len(orders') \in Nat /\ DOMAIN orders' = 1..Len(orders')
    BY <2>2, LenProperties
  <2>4. DOMAIN orders' = 1..Len(orders)
    BY <1>2
  <2> QED
    BY <2>1, <2>2, <2>3, <2>4
<1> QED
  BY <1>3 DEF CancelAll, TypeOK

LEMMA MarketMessageType ==
  ASSUME TypeOK, NEW update \in Updates, MarketMessage(update)
  PROVE  TypeOK'
<1>1. books' \in [Tokens -> [quote : Quote, fresh : BOOLEAN]]
  BY UpdatesAssumption DEF MarketMessage, TypeOK
<1>2. sweep' \in 0..Len(orders)
  BY DEF MarketMessage, TypeOK
<1> QED
  BY <1>1, <1>2 DEF MarketMessage, TypeOK

LEMMA SweepOneType ==
  ASSUME TypeOK, SweepOne
  PROVE  TypeOK'
<1> DEFINE o == orders[sweep]
<1>1. sweep \in Nat \ {0} /\ sweep \in 1..Len(orders) /\ o \in Order
  BY DEF SweepOne, TypeOK
<1>2. sweep' \in 0..Len(orders) /\ UNCHANGED <<books, cursor, tape>>
  BY DEF SweepOne, TypeOK
<1>3. CASE /\ Fillable(o, TRUE)
           /\ orders' = [orders EXCEPT ![sweep].status = StatusAfter(o)]
           /\ Book(FillOf(sweep, o))
  <2>1. FillOf(sweep, o) \in Fill /\ StatusAfter(o) \in Statuses
    BY <1>1, <1>3, FillType
  <2>2. [o EXCEPT !.status = StatusAfter(o)] \in Order
    BY <1>1, <2>1 DEF Order
  <2>3. orders' \in Seq(Order) /\ Len(orders') = Len(orders)
    BY <1>1, <1>3, <2>2 DEF TypeOK
  <2> QED
    BY <1>2, <1>3, <2>1, <2>3, BookType DEF TypeOK
<1>4. CASE UNCHANGED <<orders, position, fifo, fills, spent, received, feeable>>
  BY <1>2, <1>4 DEF TypeOK
<1> QED
  BY <1>3, <1>4 DEF SweepOne

LEMMA MergeType ==
  ASSUME TypeOK, NEW a \in Tokens, Merge(a)
  PROVE  TypeOK'
<1> DEFINE b == Reverse[a]
           amount == Smaller(position[a], position[b])
<1>1. b \in Tokens /\ a # b
  BY TokensAssumption DEF Merge
<1>2. /\ amount \in Nat /\ amount <= position[a] /\ amount <= position[b]
      /\ position[a] \in Nat /\ position[b] \in Nat
  BY <1>1 DEF TypeOK, Smaller
<1>3. position' = [position EXCEPT ![a] = @ - amount, ![b] = @ - amount]
  BY DEF Merge
<1>4. position' \in [Tokens -> Nat]
  <2>1. position[a] - amount \in Nat /\ position[b] - amount \in Nat
    BY <1>2
  <2> HIDE DEF amount
  <2> QED
    BY <1>1, <1>3, <2>1 DEF TypeOK
<1>5. fifo' = [fifo EXCEPT ![a] = ConsumeFifo(@, amount), ![b] = ConsumeFifo(@, amount)]
  BY DEF Merge
<1>6. fifo' \in [Tokens -> Seq(Nat \ {0})]
  <2>1. fifo[a] \in Seq(Nat \ {0}) /\ fifo[b] \in Seq(Nat \ {0})
    BY <1>1 DEF TypeOK
  <2>2. /\ ConsumeFifo(fifo[a], amount) \in Seq(Nat \ {0})
        /\ ConsumeFifo(fifo[b], amount) \in Seq(Nat \ {0})
    BY <1>2, <2>1, ConsumeLots
  <2> HIDE DEF amount
  <2> QED
    BY <1>1, <1>5, <2>2 DEF TypeOK
<1> QED
  BY <1>4, <1>6 DEF Merge, TypeOK

LEMMA DrainNewFillsType ==
  ASSUME TypeOK, DrainNewFills
  PROVE  TypeOK'
<1>1. SubSeq(fills, cursor + 1, Len(fills)) \in Seq(Fill)
  BY DEF TypeOK
<1> QED
  BY <1>1 DEF DrainNewFills, TypeOK

LEMMA ClockType ==
  ASSUME TypeOK,
         \/ \E t \in Tokens : BookGoesStale(t)
         \/ \E i \in DOMAIN orders : OrderGetsQueued(i)
  PROVE  TypeOK'
<1>1. ASSUME NEW t \in Tokens, BookGoesStale(t)
      PROVE  TypeOK'
  <2>1. books[t] \in [quote : Quote, fresh : BOOLEAN]
    BY DEF TypeOK
  <2>2. [books[t] EXCEPT !.fresh = FALSE] \in [quote : Quote, fresh : BOOLEAN]
    BY <2>1
  <2>3. books' \in [Tokens -> [quote : Quote, fresh : BOOLEAN]]
    BY <1>1, <2>2 DEF TypeOK, BookGoesStale
  <2> QED
    BY <1>1, <2>3 DEF TypeOK, BookGoesStale
<1>2. ASSUME NEW i \in DOMAIN orders, OrderGetsQueued(i)
      PROVE  TypeOK'
  <2>1. [orders[i] EXCEPT !.queued = TRUE] \in Order
    BY KnownOrder, OrderUpdates DEF Statuses
  <2>2. orders' \in Seq(Order) /\ Len(orders') = Len(orders)
    BY <1>2, <2>1 DEF TypeOK, OrderGetsQueued
  <2> QED
    BY <1>2, <2>2 DEF TypeOK, OrderGetsQueued
<1> QED
  BY <1>1, <1>2

LEMMA NextType == TypeOK /\ [Next]_vars => TypeOK'
<1> SUFFICES ASSUME TypeOK, [Next]_vars PROVE TypeOK'
  OBVIOUS
<1>1. CASE UNCHANGED vars
  BY <1>1 DEF TypeOK, vars
<1>2. CASE Next
  BY <1>2, PlaceOrderType, CancelOrderType, CancelAllType, MarketMessageType,
     SweepOneType, MergeType, DrainNewFillsType, ClockType DEF Next
<1> QED
  BY <1>1, <1>2

\* The broker's state never leaves its types: in particular positions never
\* go below zero and the sweep never runs past the registered orders.
THEOREM TypeCorrect == Spec => []TypeOK
BY InitType, NextType, PTL DEF Spec

-----------------------------------------------------------------------------
(* FIFO queues and positions agree.                                        *)

LEMMA BookKeepsFifo ==
  ASSUME TypeOK, FifoMatchesPosition, NEW f \in Fill, Book(f)
  PROVE  FifoMatchesPosition'
<1> DEFINE lots == fifo[f.token]
           held == position[f.token]
<1>1. f.token \in Tokens /\ f.size \in Nat \ {0} /\ f.side \in Sides
  BY DEF Fill
<1>2. lots \in Seq(Nat \ {0}) /\ held \in Nat /\ Len(lots) = held
  BY <1>1 DEF TypeOK, FifoMatchesPosition
<1>3. Len(FifoAfter(lots, f)) = PositionAfter(held, f)
  <2>1. CASE f.side = "buy"
    <3> DEFINE new == [k \in 1..f.size |-> Len(fills) + 1]
    <3>1. f.size \in Nat /\ Len(fills) \in Nat
      BY <1>1 DEF TypeOK
    <3>2. new \in Seq(Nat \ {0}) /\ Len(new) = f.size
      BY <3>1, BoughtLots, Zenon
    <3>3. FifoAfter(lots, f) = lots \o new
      BY <2>1 DEF FifoAfter
    <3> HIDE DEF new, lots, held
    <3>4. Len(lots \o new) = Len(lots) + Len(new)
      BY <1>2, <3>2, JoinedLots, Zenon
    <3>5. Len(lots \o new) = held + f.size
      BY <1>2, <3>2, <3>4, Zenon
    <3> QED
      BY <2>1, <3>3, <3>5 DEF PositionAfter
  <2>2. CASE f.side = "sell"
    BY <1>1, <1>2, <2>2, ConsumeLots DEF FifoAfter, PositionAfter
  <2> QED
    BY <1>1, <2>1, <2>2 DEF Sides
<1>4. /\ position' = [position EXCEPT ![f.token] = PositionAfter(held, f)]
      /\ fifo' = [fifo EXCEPT ![f.token] = FifoAfter(lots, f)]
  BY DEF Book
<1> HIDE DEF lots, held
<1> QED
  BY <1>1, <1>3, <1>4 DEF TypeOK, FifoMatchesPosition

LEMMA MergeKeepsFifo ==
  ASSUME TypeOK, FifoMatchesPosition, NEW a \in Tokens, Merge(a)
  PROVE  FifoMatchesPosition'
<1> DEFINE b == Reverse[a]
           amount == Smaller(position[a], position[b])
<1>1. b \in Tokens /\ a # b
  BY TokensAssumption DEF Merge
<1>2. /\ amount \in Nat /\ amount <= position[a] /\ amount <= position[b]
      /\ position[a] \in Nat /\ position[b] \in Nat
  BY <1>1 DEF TypeOK, Smaller
<1>3. \A t \in {a, b} : Len(ConsumeFifo(fifo[t], amount)) = position[t] - amount
  <2> SUFFICES ASSUME NEW t \in {a, b}
               PROVE  Len(ConsumeFifo(fifo[t], amount)) = position[t] - amount
    OBVIOUS
  <2>1. /\ fifo[t] \in Seq(Nat \ {0}) /\ Len(fifo[t]) = position[t]
        /\ amount <= position[t] /\ position[t] \in Nat
    BY <1>1, <1>2 DEF TypeOK, FifoMatchesPosition
  <2> HIDE DEF amount
  <2>2. Len(ConsumeFifo(fifo[t], amount)) =
          IF amount < Len(fifo[t]) THEN Len(fifo[t]) - amount ELSE 0
    BY <1>2, <2>1, ConsumeLots, Zenon
  <2> QED
    BY <1>2, <2>1, <2>2
<1>4. /\ position' = [position EXCEPT ![a] = @ - amount, ![b] = @ - amount]
      /\ fifo' = [fifo EXCEPT ![a] = ConsumeFifo(@, amount), ![b] = ConsumeFifo(@, amount)]
  BY DEF Merge
<1> HIDE DEF amount
<1> QED
  BY <1>1, <1>3, <1>4 DEF TypeOK, FifoMatchesPosition

\* Only two kinds of step touch the accounts: booking the fill of a known or
\* a new order, and a merge.
LEMMA AccountsMove ==
  ASSUME TypeOK, Next
  PROVE  \/ \E f \in Fill : Book(f)
         \/ \E a \in Tokens : Merge(a)
         \/ UNCHANGED ledgerVars
<1>1. ASSUME NEW r \in Requests, PlaceOrder(r.token, r.side, r.price, r.size)
      PROVE  (\E f \in Fill : Book(f)) \/ UNCHANGED ledgerVars
  <2> DEFINE o == [token |-> r.token, side |-> r.side, price |-> r.price,
                   size |-> r.size, queued |-> FALSE, status |-> "open"]
             i == Len(orders) + 1
  <2>1. "open" \in Statuses
    BY DEF Statuses
  <2>2. o \in Order
    BY <2>1, NewOrder, Zenon
  <2>3. i \in Nat \ {0}
    BY DEF TypeOK
  <2>4. \/ Fillable(o, FALSE) /\ Book(FillOf(i, o))
        \/ UNCHANGED ledgerVars
    BY <1>1 DEF PlaceOrder
  <2> QED
    BY <2>2, <2>3, <2>4, FillType
<1>2. ASSUME SweepOne
      PROVE  (\E f \in Fill : Book(f)) \/ UNCHANGED ledgerVars
  <2>1. sweep \in Nat \ {0} /\ orders[sweep] \in Order
    BY <1>2 DEF SweepOne, TypeOK
  <2>2. \/ Fillable(orders[sweep], TRUE) /\ Book(FillOf(sweep, orders[sweep]))
        \/ UNCHANGED ledgerVars
    BY <1>2 DEF SweepOne, ledgerVars
  <2> QED
    BY <2>1, <2>2, FillType
<1>3. ASSUME \/ \E i \in DOMAIN orders : CancelOrder(i)
             \/ CancelAll
             \/ \E update \in Updates : MarketMessage(update)
             \/ DrainNewFills
             \/ \E t \in Tokens : BookGoesStale(t)
             \/ \E i \in DOMAIN orders : OrderGetsQueued(i)
      PROVE  UNCHANGED ledgerVars
  BY <1>3 DEF CancelOrder, CancelAll, MarketMessage, DrainNewFills,
              BookGoesStale, OrderGetsQueued, ledgerVars
<1> QED
  BY <1>1, <1>2, <1>3 DEF Next

\* The number of open FIFO lots of a token is its position, in every
\* reachable state: placements, sweeps, oversized sells and merges keep the
\* two in step although separate objects hold them.
THEOREM FifoCorrect == Spec => []FifoMatchesPosition
<1>1. Init => FifoMatchesPosition
  BY DEF Init, FifoMatchesPosition
<1>2. TypeOK /\ FifoMatchesPosition /\ [Next]_vars => FifoMatchesPosition'
  <2> SUFFICES ASSUME TypeOK, FifoMatchesPosition, [Next]_vars
               PROVE  FifoMatchesPosition'
    OBVIOUS
  <2>1. CASE UNCHANGED ledgerVars
    BY <2>1 DEF FifoMatchesPosition, ledgerVars
  <2>2. CASE UNCHANGED vars
    BY <2>2 DEF FifoMatchesPosition, vars
  <2>3. CASE Next
    BY <2>1, <2>3, AccountsMove, BookKeepsFifo, MergeKeepsFifo
  <2> QED
    BY <2>2, <2>3
<1> QED
  BY <1>1, <1>2, TypeCorrect, PTL DEF Spec

-----------------------------------------------------------------------------
(* Orders and their fills.                                                 *)

\* f is no worse for us than o: same token and side, at most the size asked
\* for, at the limit price or better.
Honours(f, o) ==
  /\ f.token = o.token /\ f.side = o.side
  /\ f.size \in 1..o.size
  /\ o.status = "filled" => f.size = o.size
  /\ IF f.side = "buy" THEN f.price <= o.price ELSE f.price >= o.price

\* The fill of an order honours it, with the status it leaves behind.
LEMMA FillHonours ==
  ASSUME TypeOK, NEW o \in Order, NEW i \in Nat \ {0},
         NEW allowTouch \in BOOLEAN, Fillable(o, allowTouch)
  PROVE  Honours(FillOf(i, o), [o EXCEPT !.status = StatusAfter(o)])
<1> DEFINE q == books[o.token].quote
           level == LevelSize(o.side, FillPrice(o, q), q)
           f == FillOf(i, o)
           done == [o EXCEPT !.status = StatusAfter(o)]
<1>1. q \in Quote /\ o.side \in Sides /\ o.price \in Nat /\ o.size \in Nat \ {0}
  BY PricesAssumption DEF TypeOK, Order
<1>2. FillSize(o, q) \in 1..o.size
  <2>1. level \in Nat
    BY <1>1 DEF LevelSize, Quote
  <2>2. level \div QueueShare \in Int
    BY <2>1, QueueShareAssumption
  <2>3. FillSize(o, q) = IF level > 0 THEN Smaller(o.size, level \div QueueShare) ELSE o.size
    BY DEF FillSize
  <2>4. FillSize(o, q) > 0
    BY DEF Fillable
  <2> HIDE DEF level
  <2> QED
    BY <1>1, <2>1, <2>2, <2>3, <2>4 DEF Smaller
<1>3. IF o.side = "buy" THEN FillPrice(o, q) <= o.price ELSE FillPrice(o, q) >= o.price
  BY <1>1 DEF FillPrice, Crosses, Sides
<1>4. /\ f.token = o.token /\ f.side = o.side
      /\ f.size = FillSize(o, q) /\ f.price = FillPrice(o, q)
  BY DEF FillOf
<1>5. StatusAfter(o) = "filled" => FillSize(o, q) = o.size
  BY <1>1, <1>2 DEF StatusAfter
<1>6. /\ done.token = o.token /\ done.side = o.side
      /\ done.size = o.size /\ done.price = o.price
      /\ done.status = StatusAfter(o)
  BY DEF Order
<1>7. Honours(f, done)
  <2> HIDE DEF f, q, done
  <2> QED
    BY <1>2, <1>3, <1>4, <1>5, <1>6 DEF Honours
<1> QED
  BY <1>7

\* A step keeps the terms of the orders it finds, and opens none again.
KeepsOrders ==
  \A j \in DOMAIN orders :
    /\ j \in DOMAIN orders'
    /\ orders'[j].token = orders[j].token
    /\ orders'[j].side = orders[j].side
    /\ orders'[j].price = orders[j].price
    /\ orders'[j].size = orders[j].size
    /\ orders[j].status # "open" => orders'[j].status \in {orders[j].status, "canceled"}

\* f is the fill of an order that was open or is new, and is open no more.
Fills(f) ==
  /\ f \in Fill
  /\ fills' = Append(fills, f)
  /\ f.order \in DOMAIN orders'
  /\ orders'[f.order].status # "open"
  /\ Honours(f, orders'[f.order])
  /\ f.order \in DOMAIN orders => orders[f.order].status = "open"

\* What placing an order comes to: it rests, or it is filled at once.
LEMMA PlaceOrderEffect ==
  ASSUME TypeOK, NEW r \in Requests, PlaceOrder(r.token, r.side, r.price, r.size)
  PROVE  \E o \in Order :
           /\ orders' = Append(orders, o)
           /\ o.token = r.token /\ o.side = r.side /\ o.price = r.price /\ o.size = r.size
           /\ \/ o.status = "open" /\ UNCHANGED ledgerVars
              \/ \E f \in Fill : /\ o.status # "open" /\ f.order = Len(orders) + 1
                                 /\ Honours(f, o) /\ Book(f)
<1> DEFINE o == [token |-> r.token, side |-> r.side, price |-> r.price,
                 size |-> r.size, queued |-> FALSE, status |-> "open"]
           i == Len(orders) + 1
           done == [o EXCEPT !.status = StatusAfter(o)]
<1>1. o \in Order
  <2>1. "open" \in Statuses
    BY DEF Statuses
  <2> QED
    BY <2>1, NewOrder, Zenon
<1>2. i \in Nat \ {0}
  BY DEF TypeOK
<1>3. CASE /\ Fillable(o, FALSE)
           /\ orders' = Append(orders, done)
           /\ Book(FillOf(i, o))
  <2>1. /\ FillOf(i, o) \in Fill /\ FillOf(i, o).order = i
        /\ StatusAfter(o) \in Statuses \ {"open", "canceled"}
    BY <1>1, <1>2, <1>3, FillType
  <2>2. Honours(FillOf(i, o), done)
    BY <1>1, <1>2, <1>3, FillHonours
  <2>3. /\ done \in Order /\ done.status # "open"
        /\ done.token = r.token /\ done.side = r.side
        /\ done.price = r.price /\ done.size = r.size
    BY <1>1, <2>1 DEF Order
  <2> HIDE DEF o, i, done
  <2> QED
    BY <1>3, <2>1, <2>2, <2>3 DEF i
<1>4. CASE orders' = Append(orders, o) /\ UNCHANGED ledgerVars
  <2>1. o.token = r.token /\ o.side = r.side /\ o.price = r.price /\ o.size = r.size /\ o.status = "open"
    OBVIOUS
  <2> HIDE DEF o
  <2> QED
    BY <1>1, <1>4, <2>1
<1> QED
  BY <1>3, <1>4 DEF PlaceOrder

\* What the sweep does to the order it is at: nothing, or it is filled.
LEMMA SweepOneEffect ==
  ASSUME TypeOK, SweepOne
  PROVE  /\ sweep \in DOMAIN orders /\ orders[sweep] \in Order
         /\ \/ UNCHANGED <<orders, position, fifo, fills, spent, received, feeable>>
            \/ \E s \in Statuses \ {"open", "canceled"}, f \in Fill :
                 /\ orders[sweep].status = "open"
                 /\ orders' = [orders EXCEPT ![sweep] = [orders[sweep] EXCEPT !.status = s]]
                 /\ f.order = sweep
                 /\ Honours(f, [orders[sweep] EXCEPT !.status = s])
                 /\ Book(f)
<1> DEFINE o == orders[sweep]
<1>1. sweep \in Nat \ {0} /\ sweep \in DOMAIN orders /\ o \in Order
  BY DEF SweepOne, TypeOK
<1>2. CASE /\ OnOffer(o)
           /\ Fillable(o, TRUE)
           /\ orders' = [orders EXCEPT ![sweep].status = StatusAfter(o)]
           /\ Book(FillOf(sweep, o))
  <2>1. /\ FillOf(sweep, o) \in Fill /\ FillOf(sweep, o).order = sweep
        /\ StatusAfter(o) \in Statuses \ {"open", "canceled"}
    BY <1>1, <1>2, FillType
  <2>2. Honours(FillOf(sweep, o), [o EXCEPT !.status = StatusAfter(o)])
    BY <1>1, <1>2, FillHonours
  <2>3. orders' = [orders EXCEPT ![sweep] = [o EXCEPT !.status = StatusAfter(o)]]
    BY <1>2
  <2> QED
    BY <1>1, <1>2, <2>1, <2>2, <2>3 DEF OnOffer
<1> QED
  BY <1>1, <1>2 DEF SweepOne

\* The steps that neither place nor sweep keep the fills and the terms, and
\* no order becomes open by them.
LEMMA OtherSteps ==
  ASSUME TypeOK,
         \/ \E i \in DOMAIN orders : CancelOrder(i) \/ OrderGetsQueued(i)
         \/ CancelAll
         \/ \E update \in Updates : MarketMessage(update)
         \/ \E a \in Tokens : Merge(a)
         \/ DrainNewFills
         \/ \E t \in Tokens : BookGoesStale(t)
  PROVE  /\ fills' = fills
         /\ DOMAIN orders' = DOMAIN orders
         /\ KeepsOrders
         /\ \A j \in DOMAIN orders : orders'[j].status = "open" => orders[j].status = "open"
<1>1. \A j \in DOMAIN orders : orders[j] \in Order
  BY DEF TypeOK
<1>2. CASE \E i \in DOMAIN orders : CancelOrder(i)
  BY <1>1, <1>2 DEF CancelOrder, KeepsOrders, Order
<1>3. CASE \E i \in DOMAIN orders : OrderGetsQueued(i)
  BY <1>1, <1>3 DEF OrderGetsQueued, KeepsOrders, Order
<1>4. CASE CancelAll
  BY <1>1, <1>4 DEF CancelAll, KeepsOrders, Order
<1>5. CASE UNCHANGED <<fills, orders>>
  BY <1>5 DEF KeepsOrders
<1> QED
  BY <1>2, <1>3, <1>4, <1>5 DEF MarketMessage, Merge, DrainNewFills, BookGoesStale

LEMMA OrdersKept ==
  ASSUME TypeOK, Next
  PROVE  KeepsOrders /\ (fills' = fills \/ \E f : Fills(f))
<1>1. DOMAIN orders = 1..Len(orders) /\ Len(orders) \in Nat /\ orders \in Seq(Order)
  BY DEF TypeOK
<1>2. ASSUME NEW r \in Requests, PlaceOrder(r.token, r.side, r.price, r.size)
      PROVE  KeepsOrders /\ (fills' = fills \/ \E f : Fills(f))
  <2>1. PICK o \in Order :
           /\ orders' = Append(orders, o)
           /\ \/ o.status = "open" /\ UNCHANGED ledgerVars
              \/ \E f \in Fill : /\ o.status # "open" /\ f.order = Len(orders) + 1
                                 /\ Honours(f, o) /\ Book(f)
    BY <1>2, PlaceOrderEffect
  <2>2. /\ DOMAIN orders' = 1..(Len(orders) + 1)
        /\ orders'[Len(orders) + 1] = o
        /\ \A j \in DOMAIN orders : orders'[j] = orders[j]
    BY <1>1, <2>1
  <2>3. KeepsOrders
    BY <1>1, <2>2 DEF KeepsOrders
  <2>4. CASE UNCHANGED ledgerVars
    BY <2>3, <2>4 DEF ledgerVars
  <2>5. ASSUME NEW f \in Fill, o.status # "open", f.order = Len(orders) + 1,
               Honours(f, o), Book(f)
        PROVE  Fills(f)
    BY <1>1, <2>2, <2>5 DEF Fills, Book
  <2> QED
    BY <2>1, <2>3, <2>4, <2>5
<1>3. CASE SweepOne
  <2>1. CASE UNCHANGED <<orders, fills>>
    BY <2>1 DEF KeepsOrders
  <2>2. ASSUME NEW s \in Statuses \ {"open", "canceled"}, NEW f \in Fill,
               sweep \in DOMAIN orders, orders[sweep] \in Order,
               orders[sweep].status = "open",
               orders' = [orders EXCEPT ![sweep] = [orders[sweep] EXCEPT !.status = s]],
               f.order = sweep,
               Honours(f, [orders[sweep] EXCEPT !.status = s]),
               Book(f)
        PROVE  KeepsOrders /\ Fills(f)
    <3>1. KeepsOrders
      BY <2>2 DEF KeepsOrders, Order
    <3>2. orders'[sweep] = [orders[sweep] EXCEPT !.status = s] /\ sweep \in DOMAIN orders'
      BY <2>2
    <3>3. orders'[sweep].status # "open"
      BY <2>2, <3>2 DEF Order
    <3> QED
      BY <2>2, <3>1, <3>2, <3>3 DEF Fills, Book
  <2> QED
    BY <1>3, <2>1, <2>2, SweepOneEffect
<1> QED
  BY <1>2, <1>3, OtherSteps DEF Next

\* An order is filled at most once: a sweep, a later sweep, the crossing check
\* of its own placement and a cancel in between never fill it a second time,
\* and the order of a fill is never on offer (get_open_orders) again.
FilledAtMostOnce ==
  /\ \A j, k \in DOMAIN fills : fills[j].order = fills[k].order => j = k
  /\ \A k \in DOMAIN fills : orders[fills[k].order].status # "open"

\* No fill is worse for us than its order.
FillsHonourTheirOrder ==
  \A k \in DOMAIN fills :
    fills[k].order \in DOMAIN orders /\ Honours(fills[k], orders[fills[k].order])

LEMMA FillsStep ==
  TypeOK /\ FilledAtMostOnce /\ FillsHonourTheirOrder /\ [Next]_vars
    => FilledAtMostOnce' /\ FillsHonourTheirOrder'
<1> SUFFICES ASSUME TypeOK, FilledAtMostOnce, FillsHonourTheirOrder, [Next]_vars
             PROVE  FilledAtMostOnce' /\ FillsHonourTheirOrder'
  OBVIOUS
<1>1. CASE UNCHANGED vars
  BY <1>1 DEF FilledAtMostOnce, FillsHonourTheirOrder, vars
<1>2. CASE Next
  <2>1. KeepsOrders
    BY <1>2, OrdersKept
  <2>2. \A k \in DOMAIN fills :
          /\ fills[k].order \in DOMAIN orders'
          /\ orders'[fills[k].order].status # "open"
          /\ Honours(fills[k], orders'[fills[k].order])
    BY <2>1 DEF KeepsOrders, FilledAtMostOnce, FillsHonourTheirOrder, Honours
  <2>3. CASE fills' = fills
    BY <2>2, <2>3 DEF FilledAtMostOnce, FillsHonourTheirOrder
  <2>4. ASSUME NEW f, Fills(f)
        PROVE  FilledAtMostOnce' /\ FillsHonourTheirOrder'
    <3>1. /\ DOMAIN fills' = 1..(Len(fills) + 1) /\ DOMAIN fills = 1..Len(fills)
          /\ Len(fills) \in Nat
          /\ fills'[Len(fills) + 1] = f
          /\ \A k \in DOMAIN fills : fills'[k] = fills[k]
      BY <2>4 DEF Fills, TypeOK
    <3>2. \A k \in DOMAIN fills : fills[k].order # f.order
      BY <2>4 DEF Fills, FilledAtMostOnce, FillsHonourTheirOrder
    <3> QED
      BY <2>2, <2>4, <3>1, <3>2 DEF Fills, FilledAtMostOnce, FillsHonourTheirOrder
  <2> QED
    BY <1>2, <2>3, <2>4, OrdersKept
<1> QED
  BY <1>1, <1>2

\* Whatever sweeps, placements and cancels do in whatever order, an order is
\* filled at most once, within its terms, and is off the market from then on.
THEOREM FillsCorrect == Spec => [](FilledAtMostOnce /\ FillsHonourTheirOrder)
<1>1. Init => FilledAtMostOnce /\ FillsHonourTheirOrder
  BY DEF Init, FilledAtMostOnce, FillsHonourTheirOrder
<1> QED
  BY <1>1, FillsStep, TypeCorrect, PTL DEF Spec

-----------------------------------------------------------------------------
(* The broker implements the ledger.                                       *)

\* What the ledger sees of the broker.
TermsOf(o) == [token |-> o.token, side |-> o.side, price |-> o.price, size |-> o.size]
Terms == [i \in DOMAIN orders |-> TermsOf(orders[i])]
Live == {i \in DOMAIN orders : orders[i].status = "open"}
TradeOf(f) == [order |-> f.order, price |-> f.price, size |-> f.size]
Trades == [k \in DOMAIN fills |-> TradeOf(fills[k])]

TermsTyped == Terms \in Seq(Request) /\ Len(Terms) = Len(orders)

LEMMA TermsType == TypeOK => TermsTyped
<1> SUFFICES ASSUME TypeOK PROVE TermsTyped
  OBVIOUS
<1>1. DOMAIN orders = 1..Len(orders) /\ Len(orders) \in Nat
  BY DEF TypeOK
<1>2. \A i \in DOMAIN orders : TermsOf(orders[i]) \in Request
  <2>1. \A o \in Order : TermsOf(o) \in Request
    BY DEF Order, TermsOf, Request
  <2> QED
    BY <2>1 DEF TypeOK
<1>3. Terms \in [1..Len(orders) -> Request]
  BY <1>1, <1>2 DEF Terms
<1>4. Terms \in Seq(Request)
  BY <1>1, <1>3, SeqDef
<1>5. Len(Terms) \in Nat /\ DOMAIN Terms = 1..Len(Terms)
  BY <1>4, LenProperties
<1> QED
  BY <1>1, <1>3, <1>4, <1>5 DEF TermsTyped

\* What a trade is: a record of three fields.
TradeRecord == [order : Nat, price : Prices, size : Nat]

TradesTyped == Trades \in Seq(TradeRecord) /\ Len(Trades) = Len(fills)

LEMMA TradesType == TypeOK => TradesTyped
<1> SUFFICES ASSUME TypeOK PROVE TradesTyped
  OBVIOUS
<1>1. DOMAIN fills = 1..Len(fills) /\ Len(fills) \in Nat
  BY DEF TypeOK
<1>2. \A k \in DOMAIN fills : TradeOf(fills[k]) \in TradeRecord
  <2>1. \A f \in Fill : TradeOf(f) \in TradeRecord
    BY DEF Fill, TradeOf, TradeRecord
  <2> QED
    BY <2>1 DEF TypeOK
<1>3. Trades \in [1..Len(fills) -> TradeRecord]
  BY <1>1, <1>2 DEF Trades
<1>4. Trades \in Seq(TradeRecord)
  BY <1>1, <1>3, SeqDef
<1>5. Len(Trades) \in Nat /\ DOMAIN Trades = 1..Len(Trades)
  BY <1>4, LenProperties
<1> QED
  BY <1>1, <1>3, <1>4, <1>5 DEF TradesTyped

\* Appending an order files its terms; appending a fill, its trade.
LEMMA TermsAppended ==
  ASSUME TypeOK, TypeOK', NEW o \in Order, orders' = Append(orders, o)
  PROVE  Terms' = Append(Terms, TermsOf(o))
<1>1. Terms \in Seq(Request) /\ Len(Terms) = Len(orders)
  BY TermsType DEF TermsTyped
<1>2. Terms' \in Seq(Request) /\ Len(Terms') = Len(orders')
  <2>1. TermsTyped'
    BY TermsType, PTL
  <2> QED
    BY <2>1 DEF TermsTyped
<1>3. /\ Len(orders') = Len(orders) + 1 /\ Len(orders) \in Nat
      /\ DOMAIN orders = 1..Len(orders) /\ DOMAIN orders' = 1..Len(orders')
      /\ orders'[Len(orders) + 1] = o
      /\ \A i \in 1..Len(orders) : orders'[i] = orders[i]
  BY DEF TypeOK
<1>4. TermsOf(o) \in Request
  BY DEF Order, TermsOf, Request
<1>5. /\ Append(Terms, TermsOf(o)) \in Seq(Request)
      /\ Len(Append(Terms, TermsOf(o))) = Len(orders')
      /\ Append(Terms, TermsOf(o))[Len(orders) + 1] = TermsOf(o)
      /\ \A i \in 1..Len(orders) : Append(Terms, TermsOf(o))[i] = Terms[i]
  BY <1>1, <1>3, <1>4, AppendProperties
<1>6. ASSUME NEW i \in 1..Len(orders')
      PROVE  Terms'[i] = Append(Terms, TermsOf(o))[i]
  <2>1. Terms'[i] = TermsOf(orders'[i])
    BY <1>3 DEF Terms, TermsOf
  <2>2. CASE i = Len(orders) + 1
    <3>1. Terms'[i] = TermsOf(o)
      BY <1>3, <2>1, <2>2
    <3> QED
      BY <1>5, <2>2, <3>1
  <2>3. CASE i \in 1..Len(orders)
    <3>1. Terms[i] = TermsOf(orders[i])
      BY <1>3, <2>3 DEF Terms
    <3>2. Terms'[i] = TermsOf(orders[i])
      BY <1>3, <2>1, <2>3
    <3> QED
      BY <1>5, <2>3, <3>1, <3>2
  <2>4. i = Len(orders) + 1 \/ i \in 1..Len(orders)
    BY <1>3
  <2> QED
    BY <2>2, <2>3, <2>4, Zenon
<1> QED
  BY <1>2, <1>5, <1>6, SeqEqual

LEMMA TradeAppended ==
  ASSUME TypeOK, TypeOK', NEW f \in Fill, fills' = Append(fills, f)
  PROVE  Trades' = Append(Trades, TradeOf(f))
<1>1. Trades \in Seq(TradeRecord) /\ Len(Trades) = Len(fills)
  BY TradesType DEF TradesTyped
<1>2. Trades' \in Seq(TradeRecord) /\ Len(Trades') = Len(fills')
  <2>1. TradesTyped'
    BY TradesType, PTL
  <2> QED
    BY <2>1 DEF TradesTyped
<1>3. /\ Len(fills') = Len(fills) + 1 /\ Len(fills) \in Nat
      /\ DOMAIN fills = 1..Len(fills) /\ DOMAIN fills' = 1..Len(fills')
      /\ fills'[Len(fills) + 1] = f
      /\ \A k \in 1..Len(fills) : fills'[k] = fills[k]
  BY DEF TypeOK
<1>4. TradeOf(f) \in TradeRecord
  BY DEF Fill, TradeOf, TradeRecord
<1>5. /\ Append(Trades, TradeOf(f)) \in Seq(TradeRecord)
      /\ Len(Append(Trades, TradeOf(f))) = Len(fills')
      /\ Append(Trades, TradeOf(f))[Len(fills) + 1] = TradeOf(f)
      /\ \A k \in 1..Len(fills) : Append(Trades, TradeOf(f))[k] = Trades[k]
  BY <1>1, <1>3, <1>4, AppendProperties
<1>6. ASSUME NEW k \in 1..Len(fills')
      PROVE  Trades'[k] = Append(Trades, TradeOf(f))[k]
  <2>1. Trades'[k] = TradeOf(fills'[k])
    BY <1>3 DEF Trades, TradeOf
  <2>2. CASE k = Len(fills) + 1
    <3>1. Trades'[k] = TradeOf(f)
      BY <1>3, <2>1, <2>2
    <3> QED
      BY <1>5, <2>2, <3>1
  <2>3. CASE k \in 1..Len(fills)
    <3>1. Trades[k] = TradeOf(fills[k])
      BY <1>3, <2>3 DEF Trades
    <3>2. Trades'[k] = TradeOf(fills[k])
      BY <1>3, <2>1, <2>3
    <3> QED
      BY <1>5, <2>3, <3>1, <3>2
  <2>4. k = Len(fills) + 1 \/ k \in 1..Len(fills)
    BY <1>3
  <2> QED
    BY <2>2, <2>3, <2>4, Zenon
<1> QED
  BY <1>2, <1>5, <1>6, SeqEqual

\* Orders that keep their number and their terms leave the ledger's terms.
LEMMA TermsUnmoved ==
  ASSUME TypeOK, TypeOK', KeepsOrders, DOMAIN orders' = DOMAIN orders
  PROVE  Terms' = Terms
<1>1. \A i \in DOMAIN orders : TermsOf(orders'[i]) = TermsOf(orders[i])
  BY DEF KeepsOrders, TermsOf
<1> QED
  BY <1>1 DEF Terms, TermsOf

\* A fill of an order on its terms is a trade of the ledger.
LEMMA FillTrades ==
  ASSUME TypeOK, TypeOK', NEW i \in Nat, NEW o \in Order, NEW f \in Fill,
         NEW r, r = TermsOf(o), f.order = i, Honours(f, o), Book(f)
  PROVE  Ledger!Trade(i, r)
<1>1. /\ r.token = o.token /\ r.side = o.side
      /\ r.price = o.price /\ r.size = o.size
  BY DEF TermsOf
<1>2. f.price \in Prices /\ f.size \in 1..r.size
  BY <1>1 DEF Honours, Fill
<1>3. Ledger!Agreeable(r, f.price, f.size)
  BY <1>1 DEF Ledger!Agreeable, Honours
<1>4. Trades' = Append(Trades, [order |-> i, price |-> f.price, size |-> f.size])
  BY TradeAppended DEF Book, TradeOf
<1>5. position' = Ledger!HoldingsAfter(r, f.size)
  <2>1. position' = [position EXCEPT ![f.token] = PositionAfter(position[f.token], f)]
    BY DEF Book
  <2>2. f.token = o.token /\ f.side = o.side /\ o.token \in Tokens /\ f.side \in Sides
    BY DEF Honours, Order
  <2>3. PositionAfter(position[f.token], f) =
          IF o.side = "buy" THEN position[o.token] + f.size
          ELSE IF f.size < position[o.token] THEN position[o.token] - f.size ELSE 0
    BY <2>2 DEF PositionAfter, Sides
  <2> QED
    BY <1>1, <2>1, <2>2, <2>3 DEF Ledger!HoldingsAfter, TypeOK
<1> QED
  BY <1>2, <1>3, <1>4, <1>5 DEF Ledger!Trade, Trades, TradeOf

\* Placing an order is accepting it, to rest or to trade at once.
LEMMA PlaceOrderLedger ==
  ASSUME TypeOK, TypeOK', NEW r \in Requests, PlaceOrder(r.token, r.side, r.price, r.size)
  PROVE  Ledger!Next
<1>1. PICK o \in Order :
         /\ orders' = Append(orders, o)
         /\ o.token = r.token /\ o.side = r.side /\ o.price = r.price /\ o.size = r.size
         /\ \/ o.status = "open" /\ UNCHANGED ledgerVars
            \/ \E f \in Fill : /\ o.status # "open" /\ f.order = Len(orders) + 1
                               /\ Honours(f, o) /\ Book(f)
  BY PlaceOrderEffect
<1>2. TermsOf(o) = r
  BY <1>1, RequestsAssumption DEF TermsOf, Request
<1>3. Terms' = Append(Terms, r)
  BY <1>1, <1>2, TermsAppended
<1>4. Len(Terms) = Len(orders) /\ Len(orders) \in Nat
  BY TermsType DEF TypeOK, TermsTyped
<1>5. /\ DOMAIN orders' = 1..(Len(orders) + 1) /\ DOMAIN orders = 1..Len(orders)
      /\ orders'[Len(orders) + 1] = o
      /\ \A j \in DOMAIN orders : orders'[j] = orders[j]
  BY <1>1 DEF TypeOK
<1>6. CASE o.status = "open" /\ UNCHANGED ledgerVars
  <2>1. Live' = Live \cup {Len(Terms) + 1}
    BY <1>4, <1>5, <1>6 DEF Live
  <2>2. Trades' = Trades /\ position' = position
    BY <1>6 DEF ledgerVars, Trades
  <2>3. Ledger!AcceptAndRest
    BY <1>3, <2>1, <2>2 DEF Ledger!AcceptAndRest, Terms, TermsOf, Live, Trades, TradeOf
  <2> QED
    BY <2>3 DEF Ledger!Next
<1>7. ASSUME NEW f \in Fill, o.status # "open", f.order = Len(orders) + 1,
             Honours(f, o), Book(f)
      PROVE  Ledger!Next
  <2>1. Live' = Live
    BY <1>4, <1>5, <1>7 DEF Live
  <2>2. Ledger!Trade(Len(Terms) + 1, r)
    BY <1>2, <1>4, <1>7, FillTrades
  <2>3. Ledger!AcceptAndTrade
    BY <1>3, <2>1, <2>2 DEF Ledger!AcceptAndTrade, Terms, TermsOf, Live
  <2> QED
    BY <2>3 DEF Ledger!Next
<1> QED
  BY <1>1, <1>6, <1>7

\* The sweep leaves the ledger alone or trades an order that was live.
LEMMA SweepOneLedger ==
  ASSUME TypeOK, TypeOK', SweepOne
  PROVE  Ledger!Next \/ UNCHANGED Ledger!vars
<1>1. sweep \in DOMAIN orders /\ orders[sweep] \in Order /\ sweep \in Nat
  BY SweepOneEffect DEF TypeOK
<1>2. CASE UNCHANGED <<orders, position, fills>>
  BY <1>2 DEF Ledger!vars
<1>3. ASSUME NEW s \in Statuses \ {"open", "canceled"}, NEW f \in Fill,
             orders[sweep].status = "open",
             orders' = [orders EXCEPT ![sweep] = [orders[sweep] EXCEPT !.status = s]],
             f.order = sweep,
             Honours(f, [orders[sweep] EXCEPT !.status = s]),
             Book(f)
      PROVE  Ledger!Next
  <2> DEFINE done == [orders[sweep] EXCEPT !.status = s]
  <2>1. PICK o \in Order : o = done
    BY <1>1, <1>3 DEF Order
  <2>2. TermsOf(o) = TermsOf(orders[sweep]) /\ o.status # "open"
    BY <1>1, <1>3, <2>1 DEF Order, TermsOf
  <2>3. PICK i \in Nat, r \in Request : i = sweep /\ r = TermsOf(o) /\ r = Terms[sweep]
    <3>1. TermsOf(o) \in Request
      BY DEF Order, TermsOf, Request
    <3> QED
      BY <1>1, <2>2, <3>1 DEF Terms
  <2>4. Ledger!Trade(i, r)
    <3>1. Honours(f, o) /\ f.order = i /\ Book(f)
      BY <1>3, <2>1, <2>3
    <3> QED
      BY <2>3, <3>1, FillTrades
  <2>5. Ledger!Trade(sweep, Terms[sweep])
    BY <2>3, <2>4 DEF Ledger!Trade, Ledger!Agreeable, Ledger!HoldingsAfter
  <2>6. KeepsOrders /\ DOMAIN orders' = DOMAIN orders
    BY <1>1, <1>3 DEF KeepsOrders, Order
  <2>7. Terms' = Terms
    BY <2>6, TermsUnmoved
  <2>8. Live' = Live \ {sweep} /\ sweep \in Live
    BY <1>1, <1>3, <2>1, <2>2 DEF Live
  <2>9. Ledger!TradeResting
    BY <2>5, <2>7, <2>8 DEF Ledger!TradeResting, Ledger!Trade, Terms, TermsOf, Live
  <2> QED
    BY <2>9 DEF Ledger!Next
<1> QED
  BY <1>2, <1>3, SweepOneEffect

\* A merge is a redemption.
LEMMA MergeLedger ==
  ASSUME TypeOK, NEW a \in Tokens, Merge(a)
  PROVE  Ledger!Next
<1> DEFINE amount == Smaller(position[a], position[Reverse[a]])
<1>1. Reverse[a] \in Tokens /\ a # Reverse[a]
  BY TokensAssumption DEF Merge
<1>2. amount \in 0..position[a] /\ amount <= position[Reverse[a]]
  BY <1>1 DEF TypeOK, Smaller
<1>3. /\ position' = [position EXCEPT ![a] = @ - amount, ![Reverse[a]] = @ - amount]
      /\ UNCHANGED <<orders, fills>>
  BY DEF Merge
<1> HIDE DEF amount
<1>4. Ledger!Redeem
  BY <1>1, <1>2, <1>3 DEF Ledger!Redeem
<1> QED
  BY <1>4 DEF Ledger!Next

\* The other steps withdraw orders or are not seen at all.
LEMMA OtherLedger ==
  ASSUME TypeOK, TypeOK',
         \/ \E i \in DOMAIN orders : CancelOrder(i) \/ OrderGetsQueued(i)
         \/ CancelAll
         \/ \E update \in Updates : MarketMessage(update)
         \/ DrainNewFills
         \/ \E t \in Tokens : BookGoesStale(t)
  PROVE  Ledger!Next
<1>1. /\ fills' = fills /\ DOMAIN orders' = DOMAIN orders /\ KeepsOrders
      /\ \A j \in DOMAIN orders : orders'[j].status = "open" => orders[j].status = "open"
  BY OtherSteps
<1>2. position' = position
  BY DEF CancelOrder, OrderGetsQueued, CancelAll, MarketMessage, DrainNewFills, BookGoesStale
<1>3. Terms' = Terms
  BY <1>1, TermsUnmoved
<1>4. Live' \in SUBSET Live
  BY <1>1 DEF Live
<1>5. Ledger!Withdraw
  BY <1>1, <1>2, <1>3, <1>4 DEF Ledger!Withdraw, Terms, TermsOf, Live
<1> QED
  BY <1>5 DEF Ledger!Next

\* The broker keeps the ledger's promises, for every set of markets, requests
\* and messages: its steps are steps of the ledger or are not seen by it.
THEOREM LedgerImplemented == Spec => ImplementsLedger
<1>1. Init => Ledger!Init
  <2> SUFFICES ASSUME Init PROVE Ledger!Init
    OBVIOUS
  <2>1. orders = <<>> /\ fills = <<>> /\ position = [t \in Tokens |-> 0]
    BY DEF Init
  <2>2. DOMAIN orders = {} /\ DOMAIN fills = {}
    BY <2>1
  <2>3. Terms = <<>> /\ Trades = <<>>
    BY <2>2 DEF Terms, Trades
  <2> QED
    BY <2>1, <2>2, <2>3 DEF Ledger!Init, Terms, TermsOf, Trades, TradeOf
<1>2. TypeOK /\ TypeOK' /\ [Next]_vars => [Ledger!Next]_(Ledger!vars)
  <2> SUFFICES ASSUME TypeOK, TypeOK', [Next]_vars
               PROVE  Ledger!Next \/ UNCHANGED Ledger!vars
    OBVIOUS
  <2>1. CASE UNCHANGED vars
    BY <2>1 DEF vars, Ledger!vars
  <2>2. CASE Next
    BY <2>2, PlaceOrderLedger, SweepOneLedger, MergeLedger, OtherLedger DEF Next
  <2> QED
    BY <2>1, <2>2
<1> QED
  BY <1>1, <1>2, TypeCorrect, PTL DEF Spec, ImplementsLedger, Ledger!Spec

-----------------------------------------------------------------------------
(* The records: types.                                                     *)

\* What a folder shows of fills and of measurements, what is queued included.
FillsShown(f) == tables[f].fills \cup R!Queued(f).fills
RowsShown(f) == tables[f].quality \cup R!Queued(f).quality

LEMMA RowsJoined ==
  ASSUME NEW a \in R!Rows, NEW b \in R!Rows
  PROVE  /\ R!With(a, b) \in R!Rows
         /\ R!With(a, b).fills = a.fills \cup b.fills
         /\ R!With(a, b).quality = a.quality \cup b.quality
BY DEF R!With, R!Rows

LEMMA NoRowsShown ==
  R!NoRows \in R!Rows /\ R!NoRows.fills = {} /\ R!NoRows.quality = {}
BY DEF R!NoRows, R!Rows

\* A row that is being measured keeps its fill, and what was measured.
LEMMA MeasuredRow ==
  ASSUME NEW row \in R!Quality, NEW m \in R!Measured(row)
  PROVE  /\ m \in R!Quality
         /\ m.fill = row.fill
         /\ row.one = "open" \/ m.one = row.one
BY DEF R!Measured, R!Marked, R!Quality, R!Markouts

\* Keys and values of the records that keep their types.
RecordsTypes ==
  /\ place \in R!Places
  /\ folder \in Folders
  /\ traded \in Nat
  /\ traded <= MaxTraded
  /\ drained \in Seq([id : R!Ids, order : SessionOrders])
  /\ recorded \in Nat
  /\ recorded <= Len(drained)
  /\ queue \in R!Rows
  /\ pending \in [SessionOrders -> R!Quality \cup {R!NotPending}]
  /\ tapes \in [Folders -> Seq(R!Ids)]
  /\ tables \in [Folders -> R!Rows]

LEMMA RecordsTypesInit == R!Init => RecordsTypes
<1> SUFFICES ASSUME R!Init PROVE RecordsTypes
  OBVIOUS
<1>1. place \in R!Places /\ folder \in Folders
  BY DEF R!Init, R!Places
<1>2. traded \in Nat /\ traded <= MaxTraded
  BY RecordsConstants DEF R!Init, R!RecordsAssumption
<1>3. drained \in Seq([id : R!Ids, order : SessionOrders]) /\ recorded \in Nat /\ recorded <= Len(drained)
  BY DEF R!Init
<1>4. queue \in R!Rows /\ tables \in [Folders -> R!Rows]
  BY NoRowsShown DEF R!Init
<1>5. pending \in [SessionOrders -> R!Quality \cup {R!NotPending}]
  BY DEF R!Init
<1>6. tapes \in [Folders -> Seq(R!Ids)]
  BY DEF R!Init
<1> QED
  BY <1>1, <1>2, <1>3, <1>4, <1>5, <1>6, Zenon DEF RecordsTypes

\* A flush moves the queue to the folder's tables.
LEMMA Flushed ==
  ASSUME RecordsTypes, R!Flush, folder' = folder
  PROVE  /\ queue' \in R!Rows
         /\ tables' \in [Folders -> R!Rows]
         /\ \A f \in Folders : FillsShown(f)' = FillsShown(f) /\ RowsShown(f)' = RowsShown(f)
         /\ queue' = R!NoRows
<1>1. R!With(tables[folder], queue) \in R!Rows
  BY RowsJoined DEF RecordsTypes
<1>2. queue' = R!NoRows /\ tables' = [tables EXCEPT ![folder] = R!With(tables[folder], queue)]
  BY DEF R!Flush
<1>3. tables' \in [Folders -> R!Rows]
  BY <1>1, <1>2 DEF RecordsTypes
<1>4. ASSUME NEW f \in Folders
      PROVE  FillsShown(f)' = FillsShown(f) /\ RowsShown(f)' = RowsShown(f)
  <2>1. CASE f = folder
    <3>1. tables'[f] = R!With(tables[folder], queue)
      BY <1>2, <2>1 DEF RecordsTypes
    <3>2. /\ tables'[f].fills = tables[f].fills \cup queue.fills
          /\ tables'[f].quality = tables[f].quality \cup queue.quality
      BY <3>1, <2>1, RowsJoined DEF RecordsTypes
    <3> QED
      BY <3>2, <1>2, <2>1, NoRowsShown DEF FillsShown, RowsShown, R!Queued
  <2>2. CASE f # folder
    BY <1>2, <2>2 DEF FillsShown, RowsShown, R!Queued, RecordsTypes
  <2> QED
    BY <2>1, <2>2
<1> QED
  BY <1>2, <1>3, <1>4, NoRowsShown

\* More rows in the queue.
LEMMA Queueing ==
  ASSUME RecordsTypes, NEW more \in R!Rows, queue' = R!With(queue, more),
         UNCHANGED <<folder, tables>>
  PROVE  /\ queue' \in R!Rows
         /\ \A f \in Folders :
              /\ FillsShown(f)' = IF f = folder THEN FillsShown(f) \cup more.fills ELSE FillsShown(f)
              /\ RowsShown(f)' = IF f = folder THEN RowsShown(f) \cup more.quality ELSE RowsShown(f)
<1>1. queue' \in R!Rows
  BY RowsJoined DEF RecordsTypes
<1>2. queue'.fills = queue.fills \cup more.fills /\ queue'.quality = queue.quality \cup more.quality
  BY RowsJoined DEF RecordsTypes
<1> QED
  BY <1>1, <1>2 DEF FillsShown, RowsShown, R!Queued

LEMMA FillRow ==
  ASSUME NEW id \in R!Ids
  PROVE  /\ R!Unmeasured(id) \in R!Quality
         /\ R!Unmeasured(id).fill = id
         /\ R!Unmeasured(id).one = "open" /\ R!Unmeasured(id).five = "open"
         /\ [fills |-> {id}, quality |-> {R!Unmeasured(id)}] \in R!Rows
         /\ [fills |-> {id}, quality |-> {}] \in R!Rows
BY DEF R!Unmeasured, R!Quality, R!Rows, R!Markouts

\* The fill to record next.
LEMMA FillToRecord ==
  ASSUME RecordsTypes, recorded < Len(drained)
  PROVE  /\ recorded + 1 \in DOMAIN drained
         /\ drained[recorded + 1].id \in R!Ids
         /\ drained[recorded + 1].order \in SessionOrders
<1> DEFINE S == [id : R!Ids, order : SessionOrders]
<1>1. drained \in Seq(S) /\ recorded \in Nat
  BY DEF RecordsTypes
<1>2. \A x \in S : x.id \in R!Ids /\ x.order \in SessionOrders
  OBVIOUS
<1> HIDE DEF S
<1>3. recorded + 1 \in 1..Len(drained)
  BY <1>1
<1>4. drained[recorded + 1] \in S
  BY <1>1, <1>3
<1> QED
  BY <1>1, <1>2, <1>3, <1>4

\* Fills and the entries of a tape are numbers.
LEMMA FillNumbers ==
  ASSUME RecordsTypes
  PROVE  /\ \A i \in 1..Len(drained) : drained[i].id \in Nat /\ drained[i].id >= 1
         /\ \A f \in Folders : \A k \in 1..Len(tapes[f]) : tapes[f][k] \in Nat
         /\ Len(drained) \in Nat
         /\ \A f \in Folders : Len(tapes[f]) \in Nat
<1> DEFINE S == [id : R!Ids, order : SessionOrders]
<1>1. drained \in Seq(S) /\ \A x \in S : x.id \in Nat /\ x.id >= 1
  BY DEF RecordsTypes, R!Ids
<1>2. ASSUME NEW f \in Folders
      PROVE  Len(tapes[f]) \in Nat /\ \A k \in 1..Len(tapes[f]) : tapes[f][k] \in Nat
  <2>1. tapes[f] \in Seq(R!Ids) /\ \A x \in R!Ids : x \in Nat
    BY DEF RecordsTypes, R!Ids
  <2> QED
    BY <2>1
<1> HIDE DEF S
<1> QED
  BY <1>1, <1>2

\* A session's fills with one more.
LEMMA OneMoreFill ==
  ASSUME RecordsTypes, NEW o \in SessionOrders, R!Trade(o)
  PROVE  /\ drained' \in Seq([id : R!Ids, order : SessionOrders])
         /\ Len(drained') = Len(drained) + 1
         /\ \A i \in 1..Len(drained) : drained'[i] = drained[i]
         /\ drained'[Len(drained) + 1].id = traded + 1
         /\ traded' = traded + 1
         /\ traded' \in Nat /\ traded' <= MaxTraded
<1> DEFINE fill == [id |-> traded + 1, order |-> o]
<1>1. traded + 1 \in R!Ids /\ traded' = traded + 1 /\ drained' = Append(drained, fill)
  BY RecordsConstants DEF RecordsTypes, R!Trade, R!Ids, R!RecordsAssumption
<1>2. fill \in [id : R!Ids, order : SessionOrders] /\ fill.id = traded + 1
  BY <1>1
<1> HIDE DEF fill
<1>3. /\ drained' \in Seq([id : R!Ids, order : SessionOrders])
      /\ Len(drained') = Len(drained) + 1
      /\ \A i \in 1..Len(drained) : drained'[i] = drained[i]
      /\ drained'[Len(drained) + 1] = fill
  BY <1>1, <1>2 DEF RecordsTypes
<1>4. traded' \in Nat /\ traded' <= MaxTraded
  BY <1>1, RecordsConstants DEF R!Ids, RecordsTypes, R!RecordsAssumption
<1> QED
  BY <1>1, <1>2, <1>3, <1>4

\* A fill more on the tape.
LEMMA TapeAppended ==
  ASSUME RecordsTypes, NEW id \in R!Ids, tapes' = [tapes EXCEPT ![folder] = Append(tapes[folder], id)]
  PROVE  /\ tapes' \in [Folders -> Seq(R!Ids)]
         /\ Len(tapes[folder]) \in Nat
         /\ Len(tapes'[folder]) = Len(tapes[folder]) + 1
         /\ \A i \in 1..Len(tapes[folder]) : tapes'[folder][i] = tapes[folder][i]
         /\ tapes'[folder][Len(tapes[folder]) + 1] = id
         /\ \A f \in Folders \ {folder} : tapes'[f] = tapes[f]
<1>1. tapes[folder] \in Seq(R!Ids) /\ folder \in Folders
  BY DEF RecordsTypes
<1>2. tapes'[folder] = Append(tapes[folder], id)
  BY <1>1 DEF RecordsTypes
<1>3. /\ Append(tapes[folder], id) \in Seq(R!Ids)
      /\ Len(Append(tapes[folder], id)) = Len(tapes[folder]) + 1
      /\ \A i \in 1..Len(tapes[folder]) : Append(tapes[folder], id)[i] = tapes[folder][i]
      /\ Append(tapes[folder], id)[Len(tapes[folder]) + 1] = id
      /\ Len(tapes[folder]) \in Nat
  BY <1>1
<1>4. tapes' \in [Folders -> Seq(R!Ids)] /\ \A f \in Folders \ {folder} : tapes'[f] = tapes[f]
  BY <1>1, <1>3 DEF RecordsTypes
<1> QED
  BY <1>2, <1>3, <1>4

\* What a cycle measures: some orders' fills get one more row each.
LEMMA CycleRows ==
  ASSUME RecordsTypes, R!RecordCycle
  PROVE  \E rows \in SUBSET R!Quality : queue' = R!With(queue, [fills |-> {}, quality |-> rows])
<1>1. PICK now \in [SessionOrders -> R!Quality \cup {R!NotPending}] :
        LET moved == {o \in SessionOrders : now[o] # pending[o]}
        IN  /\ \A o \in SessionOrders :
                 now[o] \in IF pending[o] = R!NotPending THEN {R!NotPending}
                            ELSE R!Measured(pending[o])
            /\ queue' = R!With(queue, [fills |-> {}, quality |-> {now[o] : o \in moved}])
  BY Zenon DEF R!RecordCycle
<1> DEFINE moved == {o \in SessionOrders : now[o] # pending[o]}
<1>2. \A o \in moved : now[o] \in R!Quality
  BY <1>1, MeasuredRow DEF RecordsTypes
<1>3. {now[o] : o \in moved} \in SUBSET R!Quality
  BY <1>2
<1> QED
  BY <1>1, <1>3, Zenon

LEMMA RecordsTypesStep == RecordsTypes /\ [R!Next]_(R!vars) => RecordsTypes'
<1> SUFFICES ASSUME RecordsTypes, [R!Next]_(R!vars) PROVE RecordsTypes'
  OBVIOUS
<1>1. CASE UNCHANGED R!vars
  BY <1>1 DEF RecordsTypes, R!vars, R!session, R!kept, R!past
<1>2. ASSUME NEW o \in SessionOrders, R!Trade(o)
      PROVE  RecordsTypes'
  <2>1. recorded' <= Len(drained')
    BY <1>2, OneMoreFill DEF RecordsTypes, R!Trade
  <2> QED
    BY <1>2, <2>1, OneMoreFill DEF RecordsTypes, R!Trade, R!kept
<1>3. CASE R!Pass
  BY <1>3 DEF RecordsTypes, R!Pass, R!Places, R!kept, R!past
<1>4. CASE R!RecordFill
  <2> DEFINE fill == drained[recorded + 1]
  <2>1. recorded < Len(drained) /\ fill.id \in R!Ids /\ fill.order \in SessionOrders
    BY <1>4, FillToRecord DEF R!RecordFill
  <2>2. recorded' \in Nat /\ recorded' <= Len(drained')
    BY <1>4, <2>1 DEF RecordsTypes, R!RecordFill
  <2>3. tapes' \in [Folders -> Seq(R!Ids)]
    BY <1>4, <2>1, TapeAppended DEF R!RecordFill
  <2>4. queue' \in R!Rows
    BY <1>4, <2>1, FillRow, RowsJoined DEF R!RecordFill, RecordsTypes
  <2>5. pending' \in [SessionOrders -> R!Quality \cup {R!NotPending}]
    BY <1>4, <2>1, FillRow DEF R!RecordFill, RecordsTypes
  <2> QED
    BY <1>4, <2>2, <2>3, <2>4, <2>5 DEF RecordsTypes, R!RecordFill, R!past
<1>5. CASE R!TapeFails
  <2>1. recorded < Len(drained) /\ drained[recorded + 1].id \in R!Ids
    BY <1>5, FillToRecord DEF R!TapeFails
  <2>2. queue' \in R!Rows
    BY <1>5, <2>1, FillRow, RowsJoined DEF R!TapeFails, RecordsTypes
  <2> QED
    BY <1>5, <2>2 DEF RecordsTypes, R!TapeFails, R!Places, R!kept
<1>6. CASE R!FillsRecorded
  <2>1. queue' \in R!Rows /\ tables' \in [Folders -> R!Rows]
    BY <1>6, Flushed DEF R!FillsRecorded
  <2> QED
    BY <1>6, <2>1 DEF RecordsTypes, R!FillsRecorded, R!Places, R!kept, R!past
<1>7. CASE R!RecordCycle
  <2>1. PICK now \in [SessionOrders -> R!Quality \cup {R!NotPending}] :
          LET moved == {o \in SessionOrders : now[o] # pending[o]}
          IN  /\ \A o \in SessionOrders :
                   now[o] \in IF pending[o] = R!NotPending THEN {R!NotPending}
                              ELSE R!Measured(pending[o])
              /\ queue' = R!With(queue, [fills |-> {}, quality |-> {now[o] : o \in moved}])
              /\ pending' = [o \in SessionOrders |->
                               IF o \in moved THEN R!PendingAfter(o, now[o]) ELSE pending[o]]
    BY <1>7, Zenon DEF R!RecordCycle
  <2> DEFINE moved == {o \in SessionOrders : now[o] # pending[o]}
  <2>2. \A o \in moved : now[o] \in R!Quality
    BY <2>1, MeasuredRow DEF RecordsTypes
  <2>3. [fills |-> {}, quality |-> {now[o] : o \in moved}] \in R!Rows
    BY <2>2 DEF R!Rows
  <2>4. queue' \in R!Rows
    BY <2>1, <2>3, RowsJoined DEF RecordsTypes
  <2>5. pending' \in [SessionOrders -> R!Quality \cup {R!NotPending}]
    BY <2>1, <2>2 DEF RecordsTypes, R!PendingAfter
  <2> QED
    BY <1>7, <2>4, <2>5 DEF RecordsTypes, R!RecordCycle, R!Places, R!kept, R!past
<1>8. CASE R!CycleRecorded
  <2>1. queue' \in R!Rows /\ tables' \in [Folders -> R!Rows]
    BY <1>8, Flushed DEF R!CycleRecorded
  <2> QED
    BY <1>8, <2>1 DEF RecordsTypes, R!CycleRecorded, R!Places, R!kept, R!past
<1>9. CASE R!Leave
  BY <1>9 DEF RecordsTypes, R!Leave, R!Places, R!kept, R!past
<1>10. CASE R!Summarize
  <2>1. queue' \in R!Rows /\ tables' \in [Folders -> R!Rows]
    BY <1>10, Flushed DEF R!Summarize
  <2> QED
    BY <1>10, <2>1 DEF RecordsTypes, R!Summarize, R!Places, R!kept, R!past
<1>11. CASE R!SaveHistory
  BY <1>11 DEF RecordsTypes, R!SaveHistory, R!Places, R!past
<1>12. CASE R!SaveMemory
  BY <1>12 DEF RecordsTypes, R!SaveMemory, R!Places, R!past
<1>13. CASE R!Skip
  BY <1>13 DEF RecordsTypes, R!Skip, R!Places, R!kept, R!past
<1>14. CASE R!Close
  <2>1. queue' \in R!Rows /\ tables' \in [Folders -> R!Rows]
    BY <1>14, Flushed DEF R!Close
  <2> QED
    BY <1>14, <2>1 DEF RecordsTypes, R!Close, R!Places, R!kept, R!past
<1>15. CASE R!Kill
  BY <1>15, NoRowsShown DEF RecordsTypes, R!Kill, R!Places, R!kept
<1>16. ASSUME NEW f \in Folders, R!Start(f)
       PROVE  RecordsTypes'
  <2>1. drained' \in Seq([id : R!Ids, order : SessionOrders]) /\ recorded' \in Nat
        /\ recorded' <= Len(drained')
    BY <1>16 DEF R!Start
  <2>2. pending' \in [SessionOrders -> R!Quality \cup {R!NotPending}]
    BY <1>16 DEF R!Start
  <2> QED
    BY <1>16, <2>1, <2>2 DEF RecordsTypes, R!Start, R!Places, R!kept
<1> QED
  BY <1>1, <1>2, <1>3, <1>4, <1>5, <1>6, <1>7, <1>8, <1>9, <1>10, <1>11, <1>12, <1>13, <1>14,
     <1>15, <1>16 DEF R!Next

-----------------------------------------------------------------------------
(* The records: the tape and the tables.                                   *)

\* The inductive invariant.  Fills are numbered as they are traded, so the
\* ones still to be recorded are newer than all a tape tells, and tapes stay in
\* order; the queue is empty when the session waits or is over, so none of its
\* rows can reach another folder.
FillsInOrder ==
  /\ \A i, j \in 1..Len(drained) : i < j => drained[i].id < drained[j].id
  /\ \A i \in 1..Len(drained) : drained[i].id <= traded

TapesOld ==
  \A f \in Folders : \A k \in 1..Len(tapes[f]) :
    /\ tapes[f][k] <= traded
    /\ \A i \in 1..Len(drained) : i > recorded => tapes[f][k] < drained[i].id

TapesInOrder ==
  \A f \in Folders : \A i, j \in 1..Len(tapes[f]) : i < j => tapes[f][i] < tapes[f][j]

OnTape(f, id) == \E k \in 1..Len(tapes[f]) : tapes[f][k] = id

TablesTell ==
  \A f \in Folders :
    /\ f \notin torn => \A id \in FillsShown(f) : OnTape(f, id)
    /\ f \notin killed => \A k \in 1..Len(tapes[f]) : tapes[f][k] \in FillsShown(f)

RecordedOnTape == \A i \in 1..recorded : OnTape(folder, drained[i].id)

QueueEmpty == place \in {"wait", "off"} => queue = R!NoRows

TapeInv ==
  RecordsTypes /\ FillsInOrder /\ TapesOld /\ TapesInOrder /\ TablesTell /\ RecordedOnTape
    /\ QueueEmpty

LEMMA TapeInvImplies == TapeInv => TapeTellsTables
<1> SUFFICES ASSUME TapeInv PROVE TapeTellsTables
  OBVIOUS
<1>1. ASSUME NEW f \in Folders
      PROVE  /\ DOMAIN tapes[f] = 1..Len(tapes[f])
             /\ \A id : id \in R!Range(tapes[f]) <=> OnTape(f, id)
  <2>1. DOMAIN tapes[f] = 1..Len(tapes[f])
    BY DEF TapeInv, RecordsTypes
  <2> QED
    BY <2>1, Zenon DEF R!Range, OnTape
<1>2. ASSUME NEW f \in Folders
      PROVE  /\ \A i, j \in DOMAIN tapes[f] : i < j => tapes[f][i] < tapes[f][j]
             /\ f \notin torn => FillsShown(f) \subseteq R!Range(tapes[f])
             /\ f \notin killed => R!Range(tapes[f]) \subseteq FillsShown(f)
  <2>1. \A i, j \in DOMAIN tapes[f] : i < j => tapes[f][i] < tapes[f][j]
    BY <1>1, Zenon DEF TapeInv, TapesInOrder
  <2>2. f \notin torn => FillsShown(f) \subseteq R!Range(tapes[f])
    BY <1>1, Zenon DEF TapeInv, TablesTell
  <2>3. f \notin killed => R!Range(tapes[f]) \subseteq FillsShown(f)
    <3> SUFFICES ASSUME f \notin killed, NEW id \in R!Range(tapes[f]) PROVE id \in FillsShown(f)
      OBVIOUS
    <3>1. PICK k \in 1..Len(tapes[f]) : tapes[f][k] = id
      BY <1>1 DEF OnTape
    <3> QED
      BY <3>1 DEF TapeInv, TablesTell
  <2> QED
    BY <2>1, <2>2, <2>3
<1>3. \A i \in 1..recorded : drained[i].id \in R!Range(tapes[folder])
  BY <1>1, Zenon DEF TapeInv, RecordsTypes, RecordedOnTape
<1>4. place = "wait" => queue = R!NoRows
  BY DEF TapeInv, QueueEmpty
<1> QED
  BY <1>2, <1>3, <1>4, Zenon DEF TapeTellsTables, R!TapeTellsTables, FillsShown

LEMMA TapeInvInit == R!Init => TapeInv
<1> SUFFICES ASSUME R!Init PROVE TapeInv
  OBVIOUS
<1>1. RecordsTypes
  BY RecordsTypesInit
<1>2. drained = <<>> /\ recorded = 0 /\ queue = R!NoRows
  BY DEF R!Init
<1>3. \A f \in Folders : tapes[f] = <<>> /\ tables[f] = R!NoRows
  BY DEF R!Init
<1>4. Len(<<>>) = 0
  OBVIOUS
<1>5. FillsInOrder /\ RecordedOnTape
  BY <1>2, <1>4 DEF FillsInOrder, RecordedOnTape
<1>6. TapesOld /\ TapesInOrder
  BY <1>3, <1>4 DEF TapesOld, TapesInOrder
<1>7. TablesTell
  BY <1>2, <1>3, <1>4, NoRowsShown DEF TablesTell, FillsShown, R!Queued
<1> QED
  BY <1>1, <1>2, <1>5, <1>6, <1>7 DEF TapeInv, QueueEmpty

\* A step that leaves the fills and the tapes, and what a folder shows unless
\* its tape or its tables were given up.
LEMMA TapeInvKept ==
  ASSUME TapeInv, RecordsTypes', QueueEmpty',
         UNCHANGED <<folder, drained, recorded, tapes, traded>>,
         \A f \in Folders : f \notin torn' => FillsShown(f)' \subseteq FillsShown(f),
         \A f \in Folders : f \notin killed' => FillsShown(f) \subseteq FillsShown(f)',
         torn \subseteq torn', killed \subseteq killed'
  PROVE  TapeInv'
<1>1. FillsInOrder' /\ TapesOld' /\ TapesInOrder' /\ RecordedOnTape'
  BY DEF TapeInv, FillsInOrder, TapesOld, TapesInOrder, RecordedOnTape, OnTape
<1>2. TablesTell'
  BY DEF TapeInv, TablesTell, OnTape
<1> QED
  BY <1>1, <1>2 DEF TapeInv

LEMMA TapeInvStep == TapeInv /\ [R!Next]_(R!vars) => TapeInv'
<1> SUFFICES ASSUME TapeInv, [R!Next]_(R!vars) PROVE TapeInv'
  OBVIOUS
<1>t. RecordsTypes /\ RecordsTypes'
  BY RecordsTypesStep, Zenon DEF TapeInv
<1>n. /\ R!NoRows = R!NoRows
      /\ Len(drained) \in Nat
      /\ \A f \in Folders : Len(tapes[f]) \in Nat
  BY <1>t DEF RecordsTypes
<1>q. place \in {"wait", "off"} => queue = R!NoRows
  BY DEF TapeInv, QueueEmpty
<1>1. CASE UNCHANGED R!vars
  <2>1. UNCHANGED <<place, folder, drained, recorded, queue, tapes, tables, traded, killed, torn>>
    BY <1>1 DEF R!vars, R!session, R!kept, R!past
  <2>2. \A f \in Folders : FillsShown(f)' = FillsShown(f)
    BY <2>1 DEF FillsShown, R!Queued
  <2>3. QueueEmpty'
    BY <2>1, <1>q DEF QueueEmpty
  <2> QED
    BY <1>t, <2>1, <2>2, <2>3, TapeInvKept
<1>2. ASSUME NEW o \in SessionOrders, R!Trade(o)
      PROVE  TapeInv'
  <2>1. /\ Len(drained') = Len(drained) + 1
        /\ \A i \in 1..Len(drained) : drained'[i] = drained[i]
        /\ drained'[Len(drained) + 1].id = traded + 1
        /\ traded' = traded + 1
    BY <1>2, <1>t, OneMoreFill
  <2>2. UNCHANGED <<place, folder, recorded, queue, tables, tapes, killed, torn>>
    BY <1>2 DEF R!Trade, R!kept
  <2> DEFINE n == Len(drained)
  <2>a. n \in Nat /\ traded \in Nat /\ Len(drained') = n + 1 /\ recorded \in 0..n
    BY <1>t, <1>n, <2>1 DEF RecordsTypes
  <2>b. \A i \in 1..n : drained'[i].id = drained[i].id /\ drained[i].id \in Nat /\ drained[i].id <= traded
    BY <1>t, <2>1, FillNumbers DEF TapeInv, FillsInOrder
  <2>c. \A i, j \in 1..n : i < j => drained[i].id < drained[j].id
    BY DEF TapeInv, FillsInOrder
  <2>d. drained'[n + 1].id = traded + 1
    BY <2>1
  <2> HIDE DEF n
  <2>3. FillsInOrder'
    <3>1. ASSUME NEW i \in 1..(n + 1)
          PROVE  drained'[i].id <= traded + 1
      <4>1. i = n + 1 \/ i \in 1..n
        BY <2>a
      <4> QED
        BY <4>1, <2>a, <2>b, <2>d
    <3>2. ASSUME NEW i \in 1..(n + 1), NEW j \in 1..(n + 1), i < j
          PROVE  drained'[i].id < drained'[j].id
      <4>1. i \in 1..n /\ (j = n + 1 \/ j \in 1..n)
        BY <3>2, <2>a
      <4> QED
        BY <3>2, <4>1, <2>a, <2>b, <2>c, <2>d
    <3> QED
      BY <3>1, <3>2, <2>a, <2>1 DEF FillsInOrder
  <2>4. TapesOld'
    <3>1. ASSUME NEW f \in Folders, NEW k \in 1..Len(tapes[f])
          PROVE  /\ tapes[f][k] \in Nat
                 /\ tapes[f][k] <= traded
                 /\ \A i \in 1..n : i > recorded => tapes[f][k] < drained[i].id
      BY <1>t, FillNumbers DEF TapeInv, TapesOld, n
    <3>2. ASSUME NEW f \in Folders, NEW k \in 1..Len(tapes[f]), NEW i \in 1..(n + 1), i > recorded
          PROVE  tapes[f][k] < drained'[i].id
      <4>1. i = n + 1 \/ i \in 1..n
        BY <2>a
      <4> QED
        BY <3>1, <3>2, <4>1, <2>a, <2>b, <2>d
    <3>3. \A f \in Folders : \A k \in 1..Len(tapes[f]) : tapes[f][k] <= traded + 1
      BY <3>1, <2>a
    <3> QED
      BY <3>2, <3>3, <2>a, <2>1, <2>2 DEF TapesOld
  <2>5. TapesInOrder' /\ TablesTell'
    BY <2>2 DEF TapeInv, TapesInOrder, TablesTell, FillsShown, R!Queued, OnTape
  <2>6. RecordedOnTape'
    <3>1. \A i \in 1..recorded : drained'[i] = drained[i]
      BY <1>t, <2>1 DEF RecordsTypes
    <3> QED
      BY <3>1, <2>2 DEF TapeInv, RecordedOnTape, OnTape
  <2> QED
    BY <1>t, <1>q, <2>2, <2>3, <2>4, <2>5, <2>6 DEF TapeInv, QueueEmpty
<1>3. CASE R!Pass
  <2>1. UNCHANGED <<folder, drained, recorded, queue, tapes, tables, traded, killed, torn>>
    BY <1>3 DEF R!Pass, R!kept, R!past
  <2>2. \A f \in Folders : FillsShown(f)' = FillsShown(f)
    BY <2>1 DEF FillsShown, R!Queued
  <2>3. QueueEmpty'
    BY <1>3 DEF QueueEmpty, R!Pass
  <2> QED
    BY <1>t, <2>1, <2>2, <2>3, TapeInvKept
<1>4. CASE R!RecordFill
  <2>0. recorded < Len(drained) /\ drained[recorded + 1].id \in R!Ids
    BY <1>4, <1>t, FillToRecord DEF R!RecordFill
  <2>i. PICK id \in R!Ids : id = drained[recorded + 1].id
    BY <2>0
  <2>g. PICK g \in Folders : g = folder
    BY <1>t DEF RecordsTypes
  <2> DEFINE more == [fills |-> {id}, quality |-> {R!Unmeasured(id)}]
  <2>1. recorded < Len(drained) /\ id = drained[recorded + 1].id /\ recorded + 1 \in 1..Len(drained)
    BY <2>0, <2>i, <1>t, <1>n DEF RecordsTypes
  <2>2. /\ queue' = R!With(queue, more)
        /\ tapes' = [tapes EXCEPT ![folder] = Append(tapes[folder], id)]
        /\ recorded' = recorded + 1
        /\ UNCHANGED <<place, folder, drained, tables, traded, killed, torn>>
    BY <1>4, <2>1 DEF R!RecordFill, R!past
  <2>3. more \in R!Rows /\ more.fills = {id}
    BY <2>1, FillRow
  <2>4. /\ FillsShown(g)' = FillsShown(g) \cup {id}
        /\ \A f \in Folders \ {g} : FillsShown(f)' = FillsShown(f)
    <3> HIDE DEF more
    <3> QED
      BY <1>t, <2>2, <2>3, <2>g, Queueing
  <2>5. id \in Nat /\ folder' = g /\ recorded \in Nat
    BY <2>2, <2>g, <1>t DEF R!Ids, RecordsTypes
  <2> HIDE DEF more
  <2>6. /\ Len(tapes[g]) \in Nat
        /\ Len(tapes'[g]) = Len(tapes[g]) + 1
        /\ \A i \in 1..Len(tapes[g]) : tapes'[g][i] = tapes[g][i]
        /\ tapes'[g][Len(tapes[g]) + 1] = id
        /\ \A f \in Folders \ {g} : tapes'[f] = tapes[f]
    BY <1>t, <2>g, <2>2, TapeAppended
  <2>7. /\ \A i \in 1..Len(drained) : drained[i].id \in Nat /\ drained[i].id <= traded
        /\ \A i \in 1..Len(drained) : i > recorded + 1 => id < drained[i].id
        /\ id <= traded
    <3>1. \A i \in 1..Len(drained) : drained[i].id \in Nat
      <4> DEFINE S == [id : R!Ids, order : SessionOrders]
      <4>1. drained \in Seq(S) /\ \A x \in S : x.id \in Nat
        BY <1>t DEF RecordsTypes, R!Ids
      <4> HIDE DEF S
      <4> QED
        BY <4>1
    <3>2. \A i \in 1..Len(drained) : drained[i].id <= traded
      BY DEF TapeInv, FillsInOrder
    <3>3. \A i \in 1..Len(drained) : i > recorded + 1 => id < drained[i].id
      BY <2>1 DEF TapeInv, FillsInOrder
    <3> QED
      BY <2>1, <3>1, <3>2, <3>3
  <2>8. \A f \in Folders : \A k \in 1..Len(tapes[f]) :
          tapes[f][k] \in Nat /\ tapes[f][k] <= traded /\ tapes[f][k] < id
            /\ \A i \in 1..Len(drained) : i > recorded => tapes[f][k] < drained[i].id
    <3>1. \A f \in Folders : \A k \in 1..Len(tapes[f]) : tapes[f][k] \in Nat
      BY <1>t, FillNumbers
    <3>2. \A f \in Folders : \A k \in 1..Len(tapes[f]) :
            tapes[f][k] <= traded
              /\ \A i \in 1..Len(drained) : i > recorded => tapes[f][k] < drained[i].id
      BY Zenon DEF TapeInv, TapesOld
    <3>3. recorded + 1 > recorded
      BY <2>5
    <3>4. \A f \in Folders : \A k \in 1..Len(tapes[f]) : tapes[f][k] < id
      BY <2>1, <3>2, <3>3, Zenon
    <3> QED
      BY <3>1, <3>2, <3>4, Zenon
  <2>9. FillsInOrder'
    BY <2>2 DEF TapeInv, FillsInOrder
  <2>10. ASSUME NEW f \in Folders, NEW k \in 1..Len(tapes'[f])
         PROVE  /\ tapes'[f][k] <= traded
                /\ \A i \in 1..Len(drained) : i > recorded + 1 => tapes'[f][k] < drained[i].id
    <3>1. CASE f # g
      BY <3>1, <2>5, <2>6, <2>8, <2>10, <1>n
    <3>2. CASE f = g /\ k = Len(tapes[g]) + 1
      BY <3>2, <2>6, <2>7
    <3>3. CASE f = g /\ k # Len(tapes[g]) + 1
      <4>1. k \in 1..Len(tapes[f])
        BY <3>3, <2>6, <2>10
      <4>2. tapes'[f][k] = tapes[f][k]
        BY <4>1, <3>3, <2>6
      <4> QED
        BY <4>1, <4>2, <2>5, <2>8, <1>n
    <3> QED
      BY <3>1, <3>2, <3>3
  <2>11. TapesOld'
    BY <2>2, <2>10 DEF TapesOld
  <2>12. ASSUME NEW f \in Folders, NEW i \in 1..Len(tapes'[f]), NEW j \in 1..Len(tapes'[f]), i < j
         PROVE  tapes'[f][i] < tapes'[f][j]
    <3>1. CASE f # g
      BY <3>1, <2>6, <2>12 DEF TapeInv, TapesInOrder
    <3>2. CASE f = g /\ j = Len(tapes[g]) + 1
      <4>1. i \in 1..Len(tapes[g])
        BY <3>2, <2>6, <2>12
      <4> QED
        BY <4>1, <3>2, <2>5, <2>6, <2>8
    <3>3. CASE f = g /\ j # Len(tapes[g]) + 1
      <4>1. i \in 1..Len(tapes[f]) /\ j \in 1..Len(tapes[f])
        BY <3>3, <2>6, <2>12
      <4> QED
        BY <4>1, <3>3, <2>6, <2>12 DEF TapeInv, TapesInOrder
    <3> QED
      BY <3>1, <3>2, <3>3
  <2>13. TapesInOrder'
    BY <2>12 DEF TapesInOrder
  <2>14. \A f \in Folders : \A x : OnTape(f, x) => OnTape(f, x)'
    <3> SUFFICES ASSUME NEW f \in Folders, NEW x, OnTape(f, x) PROVE OnTape(f, x)'
      OBVIOUS
    <3>1. PICK k \in 1..Len(tapes[f]) : tapes[f][k] = x
      BY DEF OnTape
    <3>2. k \in 1..Len(tapes'[f]) /\ tapes'[f][k] = x
      BY <3>1, <2>6, <1>n
    <3> QED
      BY <3>2 DEF OnTape
  <2>15. OnTape(g, id)'
    <3>1. Len(tapes[g]) + 1 \in 1..Len(tapes'[g])
      BY <2>6
    <3> QED
      BY <3>1, <2>5, <2>6 DEF OnTape
  <2>16. ASSUME NEW f \in Folders
         PROVE  /\ f \notin torn' => \A x \in FillsShown(f)' : OnTape(f, x)'
                /\ f \notin killed' => \A k \in 1..Len(tapes'[f]) : tapes'[f][k] \in FillsShown(f)'
    <3>1. ASSUME f \notin torn', NEW x \in FillsShown(f)'
          PROVE  OnTape(f, x)'
      <4>1. x \in FillsShown(f) => OnTape(f, x)
        BY <3>1, <2>2 DEF TapeInv, TablesTell
      <4>2. x \in FillsShown(f) \/ (f = g /\ x = id)
        BY <3>1, <2>4
      <4> QED
        BY <4>1, <4>2, <2>14, <2>15
    <3>2. ASSUME f \notin killed', NEW k \in 1..Len(tapes'[f])
          PROVE  tapes'[f][k] \in FillsShown(f)'
      <4>1. \A i \in 1..Len(tapes[f]) : tapes[f][i] \in FillsShown(f)'
        BY <3>2, <2>2, <2>4 DEF TapeInv, TablesTell
      <4>2. CASE f # g
        BY <4>1, <4>2, <3>2, <2>6
      <4>3. CASE f = g /\ k = Len(tapes[g]) + 1
        BY <4>3, <2>4, <2>6
      <4>4. CASE f = g /\ k # Len(tapes[g]) + 1
        <5>1. k \in 1..Len(tapes[f])
          BY <4>4, <3>2, <2>6
        <5> QED
          BY <5>1, <4>1, <4>4, <2>6
      <4> QED
        BY <4>2, <4>3, <4>4
    <3> QED
      BY <3>1, <3>2
  <2>17. TablesTell'
    BY <2>16 DEF TablesTell
  <2>18. RecordedOnTape'
    <3>1. ASSUME NEW i \in 1..(recorded + 1)
          PROVE  OnTape(g, drained[i].id)'
      <4>1. CASE i = recorded + 1
        BY <4>1, <2>1, <2>2, <2>15 DEF OnTape
      <4>2. CASE i # recorded + 1
        <5>1. i \in 1..recorded
          BY <4>2, <3>1, <2>5
        <5>2. OnTape(g, drained[i].id)
          BY <5>1, <2>g DEF TapeInv, RecordedOnTape
        <5>3. \A x : OnTape(g, x) => OnTape(g, x)'
          BY <2>5, <2>14
        <5> QED
          BY <5>2, <5>3, <2>2 DEF OnTape
      <4> QED
        BY <4>1, <4>2
    <3> QED
      BY <3>1, <2>2, <2>5 DEF RecordedOnTape, OnTape
  <2>19. QueueEmpty'
    BY <1>4, <2>2 DEF QueueEmpty, R!RecordFill
  <2> QED
    BY <1>t, <2>9, <2>11, <2>13, <2>17, <2>18, <2>19 DEF TapeInv
<1>5. CASE R!TapeFails
  <2> DEFINE id == drained[recorded + 1].id
             more == [fills |-> {id}, quality |-> {}]
  <2>1. id \in R!Ids
    BY <1>5, <1>t, FillToRecord DEF R!TapeFails
  <2>2. /\ queue' = R!With(queue, more)
        /\ torn' = torn \cup {folder}
        /\ UNCHANGED <<folder, drained, recorded, tapes, tables, traded, killed>>
    BY <1>5 DEF R!TapeFails, R!kept
  <2>3. more \in R!Rows
    BY <2>1, FillRow
  <2>4. \A f \in Folders :
          FillsShown(f) \subseteq FillsShown(f)' /\ (f # folder => FillsShown(f)' = FillsShown(f))
    <3> HIDE DEF more
    <3> QED
      BY <1>t, <2>2, <2>3, Queueing
  <2>5. \A f \in Folders : f \notin torn' => FillsShown(f)' \subseteq FillsShown(f)
    BY <2>2, <2>4
  <2>6. \A f \in Folders : f \notin killed' => FillsShown(f) \subseteq FillsShown(f)'
    BY <2>4
  <2>7. QueueEmpty'
    BY <1>5 DEF QueueEmpty, R!TapeFails
  <2> QED
    BY <1>t, <2>2, <2>5, <2>6, <2>7, TapeInvKept
<1>6. CASE R!FillsRecorded
  <2>1. /\ UNCHANGED <<folder, drained, recorded, tapes, traded, killed, torn>>
        /\ R!Flush
    BY <1>6 DEF R!FillsRecorded, R!kept, R!past
  <2>2. queue' = R!NoRows /\ \A f \in Folders : FillsShown(f)' = FillsShown(f)
    BY <1>t, <2>1, Flushed
  <2> QED
    BY <1>t, <2>1, <2>2, TapeInvKept DEF QueueEmpty
<1>7. CASE R!RecordCycle
  <2>1. PICK rows \in SUBSET R!Quality : queue' = R!With(queue, [fills |-> {}, quality |-> rows])
    BY <1>7, <1>t, CycleRows, Zenon
  <2>2. /\ UNCHANGED <<folder, drained, recorded, tapes, tables, traded, killed, torn>>
        /\ place' = "written"
    BY <1>7 DEF R!RecordCycle, R!kept, R!past
  <2> DEFINE more == [fills |-> {}, quality |-> rows]
  <2>3. more \in R!Rows /\ more.fills = {}
    BY DEF R!Rows
  <2>4. \A f \in Folders : FillsShown(f)' = FillsShown(f)
    <3> HIDE DEF more
    <3>1. queue' = R!With(queue, more)
      BY <2>1 DEF more
    <3> QED
      BY <1>t, <2>2, <2>3, <3>1, Queueing
  <2> QED
    BY <1>t, <2>2, <2>4, TapeInvKept DEF QueueEmpty
<1>8. CASE R!CycleRecorded
  <2>1. /\ UNCHANGED <<folder, drained, recorded, tapes, traded, killed, torn>>
        /\ R!Flush
    BY <1>8 DEF R!CycleRecorded, R!kept, R!past
  <2>2. queue' = R!NoRows /\ \A f \in Folders : FillsShown(f)' = FillsShown(f)
    BY <1>t, <2>1, Flushed
  <2> QED
    BY <1>t, <2>1, <2>2, TapeInvKept DEF QueueEmpty
<1>9. CASE R!Leave
  <2>1. /\ UNCHANGED <<folder, drained, recorded, queue, tapes, tables, traded, killed, torn>>
        /\ place' \notin {"wait", "off"}
    BY <1>9 DEF R!Leave, R!kept, R!past
  <2>2. \A f \in Folders : FillsShown(f)' = FillsShown(f)
    BY <2>1 DEF FillsShown, R!Queued
  <2> QED
    BY <1>t, <2>1, <2>2, TapeInvKept DEF QueueEmpty
<1>10. CASE R!Summarize
  <2>1. /\ UNCHANGED <<folder, drained, recorded, tapes, traded, killed, torn>>
        /\ R!Flush
    BY <1>10 DEF R!Summarize, R!kept, R!past
  <2>2. queue' = R!NoRows /\ \A f \in Folders : FillsShown(f)' = FillsShown(f)
    BY <1>t, <2>1, Flushed
  <2> QED
    BY <1>t, <2>1, <2>2, TapeInvKept DEF QueueEmpty
<1>11. CASE R!SaveHistory
  <2>1. /\ UNCHANGED <<folder, drained, recorded, queue, tapes, tables, traded, killed, torn>>
        /\ place' \notin {"wait", "off"}
    BY <1>11 DEF R!SaveHistory, R!kept, R!past
  <2>2. \A f \in Folders : FillsShown(f)' = FillsShown(f)
    BY <2>1 DEF FillsShown, R!Queued
  <2> QED
    BY <1>t, <2>1, <2>2, TapeInvKept DEF QueueEmpty
<1>12. CASE R!SaveMemory
  <2>1. /\ UNCHANGED <<folder, drained, recorded, queue, tapes, tables, traded, killed, torn>>
        /\ place' \notin {"wait", "off"}
    BY <1>12 DEF R!SaveMemory, R!kept, R!past
  <2>2. \A f \in Folders : FillsShown(f)' = FillsShown(f)
    BY <2>1 DEF FillsShown, R!Queued
  <2> QED
    BY <1>t, <2>1, <2>2, TapeInvKept DEF QueueEmpty
<1>13. CASE R!Skip
  <2>1. /\ UNCHANGED <<folder, drained, recorded, queue, tapes, tables, traded, killed, torn>>
        /\ place' \notin {"wait", "off"}
    BY <1>13 DEF R!Skip, R!kept, R!past
  <2>2. \A f \in Folders : FillsShown(f)' = FillsShown(f)
    BY <2>1 DEF FillsShown, R!Queued
  <2> QED
    BY <1>t, <2>1, <2>2, TapeInvKept DEF QueueEmpty
<1>14. CASE R!Close
  <2>1. /\ UNCHANGED <<folder, drained, recorded, tapes, traded, killed, torn>>
        /\ R!Flush
    BY <1>14 DEF R!Close, R!kept, R!past
  <2>2. queue' = R!NoRows /\ \A f \in Folders : FillsShown(f)' = FillsShown(f)
    BY <1>t, <2>1, Flushed
  <2> QED
    BY <1>t, <2>1, <2>2, TapeInvKept DEF QueueEmpty
<1>15. CASE R!Kill
  <2>1. /\ UNCHANGED <<folder, drained, recorded, tapes, tables, traded, torn>>
        /\ queue' = R!NoRows
        /\ killed' = killed \cup {folder}
    BY <1>15 DEF R!Kill, R!kept
  <2>2. \A f \in Folders : FillsShown(f)' \subseteq FillsShown(f)
    BY <2>1, NoRowsShown DEF FillsShown, R!Queued
  <2>3. \A f \in Folders : f \notin killed' => FillsShown(f) \subseteq FillsShown(f)'
    BY <2>1 DEF FillsShown, R!Queued
  <2> QED
    BY <1>t, <2>1, <2>2, <2>3, TapeInvKept DEF QueueEmpty
<1>16. ASSUME NEW f \in Folders, R!Start(f)
       PROVE  TapeInv'
  <2>1. /\ drained' = <<>> /\ recorded' = 0
        /\ UNCHANGED <<queue, tables, tapes, traded, killed, torn>>
        /\ queue = R!NoRows
    BY <1>16, <1>q DEF R!Start, R!kept
  <2>2. \A g \in Folders : FillsShown(g)' = FillsShown(g)
    BY <2>1 DEF FillsShown, R!Queued
  <2>3. Len(drained') = 0
    BY <2>1
  <2>4. FillsInOrder' /\ RecordedOnTape'
    BY <2>1, <2>3 DEF FillsInOrder, RecordedOnTape
  <2>5. TapesOld'
    BY <2>1, <2>3 DEF TapeInv, TapesOld
  <2>6. TapesInOrder' /\ TablesTell'
    BY <2>1, <2>2 DEF TapeInv, TapesInOrder, TablesTell, OnTape
  <2> QED
    BY <1>t, <2>1, <2>4, <2>5, <2>6 DEF TapeInv, QueueEmpty
<1> QED
  BY <1>1, <1>2, <1>3, <1>4, <1>5, <1>6, <1>7, <1>8, <1>9, <1>10, <1>11, <1>12, <1>13, <1>14,
     <1>15, <1>16 DEF R!Next

(* The tape and the tables tell the same fills, each once and in order:    *)
(* whatever interleaves trading, recording, flushing, failing and killing, *)
(* over any number of sessions and folders (StandaloneTelemetry).          *)
THEOREM TapeTellsTablesCorrect == R!Spec => []TapeTellsTables
<1>1. R!Init => TapeInv
  BY TapeInvInit
<1>2. TapeInv /\ [R!Next]_(R!vars) => TapeInv'
  BY TapeInvStep
<1>3. TapeInv => TapeTellsTables
  BY TapeInvImplies
<1> QED
  BY <1>1, <1>2, <1>3, PTL DEF R!Spec

-----------------------------------------------------------------------------
(* The records: the markouts.                                              *)

Agree(r, s) ==
  r.fill = s.fill =>
    /\ r.one = s.one \/ r.one = "open" \/ s.one = "open"
    /\ r.five = s.five \/ r.five = "open" \/ s.five = "open"

\* Older than every fill still to be recorded.
Older(id) == id <= traded /\ \A i \in 1..Len(drained) : i > recorded => id < drained[i].id

\* The inductive invariant.  A fill that is still being measured has no row with
\* its second markout, and none with another first markout than what is
\* remembered of it; and no fill is measured twice at a time.
RowsOld == \A f \in Folders : \A r \in RowsShown(f) : Older(r.fill)

PendingOld == \A o \in SessionOrders : pending[o] # R!NotPending => Older(pending[o].fill)

PendingApart ==
  \A o, p \in SessionOrders :
    o # p /\ pending[o] # R!NotPending /\ pending[p] # R!NotPending =>
      pending[o].fill # pending[p].fill

PendingFits(row, r) == r.fill = row.fill => r.five = "open" /\ r.one \in {"open", row.one}

PendingOpen ==
  \A o \in SessionOrders : pending[o] # R!NotPending =>
    /\ pending[o].five = "open"
    /\ \A f \in Folders : \A r \in RowsShown(f) : PendingFits(pending[o], r)

RowsAgree == \A f \in Folders : \A r, s \in RowsShown(f) : Agree(r, s)

MarkoutInv == TapeInv /\ RowsOld /\ PendingOld /\ PendingApart /\ PendingOpen /\ RowsAgree

LEMMA MarkoutInvImplies == MarkoutInv => MarkoutsAgree
BY Zenon DEF MarkoutInv, RowsAgree, Agree, RowsShown, MarkoutsAgree, R!MarkoutsAgree

LEMMA MarkoutInvInit == R!Init => MarkoutInv
<1> SUFFICES ASSUME R!Init PROVE MarkoutInv
  OBVIOUS
<1>1. TapeInv
  BY TapeInvInit
<1>2. queue = R!NoRows /\ \A f \in Folders : tables[f] = R!NoRows
  BY DEF R!Init
<1>3. \A f \in Folders : RowsShown(f) = {}
  BY <1>2, NoRowsShown DEF RowsShown, R!Queued
<1>4. \A o \in SessionOrders : pending[o] = R!NotPending
  BY DEF R!Init
<1> QED
  BY <1>1, <1>3, <1>4 DEF MarkoutInv, RowsOld, PendingOld, PendingApart, PendingOpen, RowsAgree

\* Rows and what is being measured.
LEMMA MarkoutTypes ==
  ASSUME RecordsTypes
  PROVE  /\ \A f \in Folders : \A r \in RowsShown(f) : r \in R!Quality /\ r.fill \in Nat
         /\ \A o \in SessionOrders : pending[o] # R!NotPending =>
              pending[o] \in R!Quality /\ pending[o].fill \in Nat
<1>1. \A r \in R!Quality : r.fill \in Nat
  BY DEF R!Quality, R!Ids
<1>2. \A rows \in R!Rows : rows.quality \subseteq R!Quality
  BY DEF R!Rows
<1>3. \A f \in Folders : RowsShown(f) \subseteq R!Quality
  BY <1>2, NoRowsShown DEF RecordsTypes, RowsShown, R!Queued
<1>4. \A o \in SessionOrders : pending[o] # R!NotPending => pending[o] \in R!Quality
  BY DEF RecordsTypes
<1> QED
  BY <1>1, <1>3, <1>4

\* A step that measures nothing, adds no row, and leaves no fill to record that
\* is not newer than what was measured.
LEMMA MarkoutInvKept ==
  ASSUME MarkoutInv, TapeInv',
         \A o \in SessionOrders : pending'[o] \in {pending[o], R!NotPending},
         \A f \in Folders : RowsShown(f)' \subseteq RowsShown(f),
         \A id \in Nat : Older(id) => Older(id)'
  PROVE  MarkoutInv'
<1>1. RowsOld' /\ PendingOld'
  BY MarkoutTypes DEF MarkoutInv, TapeInv, RowsOld, PendingOld
<1>2. PendingApart' /\ PendingOpen' /\ RowsAgree'
  BY DEF MarkoutInv, PendingApart, PendingOpen, RowsAgree, PendingFits, Agree
<1> QED
  BY <1>1, <1>2 DEF MarkoutInv

LEMMA MarkoutInvStep == MarkoutInv /\ [R!Next]_(R!vars) => MarkoutInv'
<1> SUFFICES ASSUME MarkoutInv, [R!Next]_(R!vars) PROVE MarkoutInv'
  OBVIOUS
<1>t. RecordsTypes /\ TapeInv /\ TapeInv'
  BY TapeInvStep, Zenon DEF MarkoutInv, TapeInv
<1>q. place = "off" => queue = R!NoRows
  BY <1>t DEF TapeInv, QueueEmpty
<1>1. CASE UNCHANGED R!vars
  <2>1. UNCHANGED <<folder, drained, recorded, queue, tables, pending, traded>>
    BY <1>1 DEF R!vars, R!session, R!kept, R!past
  <2>2. \A f \in Folders : RowsShown(f)' = RowsShown(f)
    BY <2>1 DEF RowsShown, R!Queued
  <2> QED
    BY <1>t, <2>1, <2>2, MarkoutInvKept DEF Older
<1>2. ASSUME NEW o \in SessionOrders, R!Trade(o)
      PROVE  MarkoutInv'
  <2>1. UNCHANGED <<folder, recorded, queue, tables, pending>>
    BY <1>2 DEF R!Trade
  <2>2. \A f \in Folders : RowsShown(f)' = RowsShown(f)
    BY <2>1 DEF RowsShown, R!Queued
  <2>3. ASSUME NEW id \in Nat, Older(id)
        PROVE  Older(id)'
    <3> DEFINE n == Len(drained)
    <3>1. /\ n \in Nat /\ traded \in Nat /\ Len(drained') = n + 1
          /\ \A i \in 1..n : drained'[i] = drained[i]
          /\ drained'[n + 1].id = traded + 1 /\ traded' = traded + 1
      BY <1>2, <1>t, OneMoreFill, FillNumbers DEF RecordsTypes
    <3>2. id <= traded /\ \A i \in 1..n : i > recorded => id < drained[i].id
      BY <2>3 DEF Older
    <3> HIDE DEF n
    <3>3. ASSUME NEW i \in 1..(n + 1), i > recorded
          PROVE  id < drained'[i].id
      <4>1. i = n + 1 \/ i \in 1..n
        BY <3>1
      <4> QED
        BY <3>1, <3>2, <3>3, <4>1
    <3> QED
      BY <3>1, <3>2, <3>3, <2>1 DEF Older
  <2> QED
    BY <1>t, <2>1, <2>2, <2>3, MarkoutInvKept
<1>3. CASE R!Pass
  <2>1. UNCHANGED <<folder, drained, recorded, queue, tables, pending, traded>>
    BY <1>3 DEF R!Pass, R!past
  <2>2. \A f \in Folders : RowsShown(f)' = RowsShown(f)
    BY <2>1 DEF RowsShown, R!Queued
  <2> QED
    BY <1>t, <2>1, <2>2, MarkoutInvKept DEF Older
<1>4. CASE R!RecordFill
  <2>0. /\ recorded < Len(drained) /\ drained[recorded + 1].id \in R!Ids
        /\ drained[recorded + 1].order \in SessionOrders
    BY <1>4, <1>t, FillToRecord DEF R!RecordFill
  <2>i. PICK id \in R!Ids : id = drained[recorded + 1].id
    BY <2>0
  <2>o. PICK p \in SessionOrders : p = drained[recorded + 1].order
    BY <2>0
  <2>r. PICK row \in R!Quality : row = R!Unmeasured(id) /\ row.fill = id /\ row.one = "open" /\ row.five = "open"
    BY FillRow
  <2> DEFINE more == [fills |-> {id}, quality |-> {row}]
  <2>1. /\ queue' = R!With(queue, more)
        /\ recorded' = recorded + 1
        /\ pending' = [pending EXCEPT ![p] = row]
        /\ UNCHANGED <<folder, drained, tables, traded>>
    BY <1>4, <2>i, <2>o, <2>r DEF R!RecordFill, R!past
  <2>2. more \in R!Rows /\ more.quality = {row}
    BY <2>r DEF R!Rows
  <2>3. \A f \in Folders : RowsShown(f)' \subseteq RowsShown(f) \cup {row}
    <3> HIDE DEF more
    <3> QED
      BY <1>t, <2>1, <2>2, Queueing
  <2>4. /\ Len(drained) \in Nat /\ recorded \in Nat /\ recorded < Len(drained) /\ traded \in Nat
        /\ \A i \in 1..Len(drained) : drained[i].id \in Nat
        /\ id = drained[recorded + 1].id /\ id \in Nat
    BY <1>t, <2>0, <2>i, FillNumbers DEF RecordsTypes, R!Ids
  <2>5. FillsInOrder
    BY <1>t DEF TapeInv
  <2>6. \A x \in Nat : Older(x) => x < id /\ Older(x)'
    BY <2>1, <2>4 DEF Older
  <2>7. Older(id)'
    <3>1. recorded + 1 \in 1..Len(drained)
      BY <2>4
    <3>2. id <= traded
      BY <2>4, <2>5, <3>1 DEF FillsInOrder
    <3>3. \A i \in 1..Len(drained) : i > recorded + 1 => id < drained[i].id
      BY <2>4, <2>5, <3>1 DEF FillsInOrder
    <3> QED
      BY <2>1, <3>2, <3>3 DEF Older
  <2>8. \A f \in Folders : \A r \in RowsShown(f) : r.fill \in Nat /\ r.fill # id /\ Older(r.fill)'
    BY <1>t, <2>4, <2>6, MarkoutTypes DEF MarkoutInv, RowsOld
  <2>9. \A o \in SessionOrders : pending[o] # R!NotPending =>
          pending[o].fill \in Nat /\ pending[o].fill # id /\ Older(pending[o].fill)
    BY <1>t, <2>4, <2>6, MarkoutTypes DEF MarkoutInv, PendingOld
  <2>10. \A o \in SessionOrders : pending'[o] = IF o = p THEN row ELSE pending[o]
    BY <1>t, <2>1 DEF RecordsTypes
  <2>11. RowsOld'
    BY <2>r, <2>3, <2>7, <2>8 DEF RowsOld
  <2>12. PendingOld'
    BY <2>r, <2>6, <2>7, <2>9, <2>10 DEF PendingOld
  <2>13. PendingApart'
    BY <2>r, <2>9, <2>10 DEF MarkoutInv, PendingApart
  <2>14. PendingOpen'
    BY <2>r, <2>3, <2>8, <2>9, <2>10 DEF MarkoutInv, PendingOpen, PendingFits
  <2>15. RowsAgree'
    BY <2>r, <2>3, <2>8 DEF MarkoutInv, RowsAgree, Agree
  <2> QED
    BY <1>t, <2>11, <2>12, <2>13, <2>14, <2>15 DEF MarkoutInv
<1>5. CASE R!TapeFails
  <2> DEFINE id == drained[recorded + 1].id
             more == [fills |-> {id}, quality |-> {}]
  <2>1. id \in R!Ids
    BY <1>5, <1>t, FillToRecord DEF R!TapeFails
  <2>2. /\ queue' = R!With(queue, more)
        /\ UNCHANGED <<folder, drained, recorded, tables, pending, traded>>
    BY <1>5 DEF R!TapeFails
  <2>3. more \in R!Rows /\ more.quality = {}
    BY <2>1, FillRow
  <2>4. \A f \in Folders : RowsShown(f)' \subseteq RowsShown(f)
    <3> HIDE DEF more
    <3> QED
      BY <1>t, <2>2, <2>3, Queueing
  <2> QED
    BY <1>t, <2>2, <2>4, MarkoutInvKept DEF Older
<1>6. CASE R!FillsRecorded
  <2>1. UNCHANGED <<folder, drained, recorded, pending, traded>> /\ R!Flush
    BY <1>6 DEF R!FillsRecorded, R!past
  <2>2. \A f \in Folders : RowsShown(f)' = RowsShown(f)
    BY <1>t, <2>1, Flushed
  <2> QED
    BY <1>t, <2>1, <2>2, MarkoutInvKept DEF Older
<1>7. CASE R!RecordCycle
  <2>1. PICK now \in [SessionOrders -> R!Quality \cup {R!NotPending}] :
          LET moved == {o \in SessionOrders : now[o] # pending[o]}
          IN  /\ \A o \in SessionOrders :
                   now[o] \in IF pending[o] = R!NotPending THEN {R!NotPending}
                              ELSE R!Measured(pending[o])
              /\ queue' = R!With(queue, [fills |-> {}, quality |-> {now[o] : o \in moved}])
              /\ pending' = [o \in SessionOrders |->
                               IF o \in moved THEN R!PendingAfter(o, now[o]) ELSE pending[o]]
    BY <1>7, Zenon DEF R!RecordCycle
  <2> DEFINE moved == {o \in SessionOrders : now[o] # pending[o]}
             more == [fills |-> {}, quality |-> {now[o] : o \in moved}]
  <2>2. /\ \A o \in SessionOrders :
              now[o] \in IF pending[o] = R!NotPending THEN {R!NotPending}
                         ELSE R!Measured(pending[o])
        /\ queue' = R!With(queue, more)
        /\ pending' = [o \in SessionOrders |->
                         IF o \in moved THEN R!PendingAfter(o, now[o]) ELSE pending[o]]
    BY <2>1
  <2>3. UNCHANGED <<folder, drained, recorded, tables, traded>>
    BY <1>7 DEF R!RecordCycle, R!past
  <2>4. ASSUME NEW o \in SessionOrders, pending[o] # R!NotPending
        PROVE  /\ now[o] \in R!Quality /\ now[o].fill = pending[o].fill
               /\ pending[o].one = "open" \/ now[o].one = pending[o].one
    BY <1>t, <2>2, <2>4, MarkoutTypes, MeasuredRow
  <2>5. \A o \in moved : pending[o] # R!NotPending
    BY <2>2
  <2>6. \A o \in SessionOrders : pending'[o] # R!NotPending =>
          /\ pending[o] # R!NotPending /\ pending'[o] = now[o]
          /\ pending'[o].five = "open"
    <3>1. ASSUME NEW o \in SessionOrders, pending'[o] # R!NotPending
          PROVE  /\ pending[o] # R!NotPending /\ pending'[o] = now[o]
                 /\ pending'[o].five = "open"
      <4>1. CASE o \in moved
        BY <2>2, <2>5, <3>1, <4>1 DEF R!PendingAfter
      <4>2. CASE o \notin moved
        BY <2>2, <3>1, <4>2 DEF MarkoutInv, PendingOpen
      <4> QED
        BY <4>1, <4>2
    <3> QED
      BY <3>1
  <2>7. more \in R!Rows /\ more.quality = {now[o] : o \in moved}
    BY <2>4, <2>5 DEF R!Rows
  <2>8. \A f \in Folders : \A r \in RowsShown(f)' :
          r \in RowsShown(f) \/ \E o \in SessionOrders : pending[o] # R!NotPending /\ r = now[o]
    <3>1. \A r \in more.quality : \E o \in SessionOrders : pending[o] # R!NotPending /\ r = now[o]
      BY <2>5, <2>7
    <3> HIDE DEF more
    <3>2. \A f \in Folders : RowsShown(f)' \subseteq RowsShown(f) \cup more.quality
      BY <1>t, <2>2, <2>3, <2>7, Queueing
    <3> QED
      BY <3>1, <3>2
  <2> HIDE DEF moved, more
  <2>9. \A x : Older(x) <=> Older(x)'
    BY <2>3 DEF Older
  <2>10. RowsOld'
    BY <2>4, <2>8, <2>9 DEF MarkoutInv, RowsOld, PendingOld
  <2>11. PendingOld' /\ PendingApart'
    BY <2>4, <2>6, <2>9 DEF MarkoutInv, PendingOld, PendingApart
  <2>12. ASSUME NEW o \in SessionOrders, NEW f \in Folders, NEW r \in RowsShown(f)',
                pending[o] # R!NotPending, r.fill = pending[o].fill
         PROVE  \/ r = now[o]
                \/ r.five = "open" /\ r.one \in {"open", pending[o].one}
    <3>1. CASE r \in RowsShown(f)
      BY <2>12, <3>1 DEF MarkoutInv, PendingOpen, PendingFits
    <3>2. CASE \E p \in SessionOrders : pending[p] # R!NotPending /\ r = now[p]
      BY <2>4, <2>12, <3>2 DEF MarkoutInv, PendingApart
    <3> QED
      BY <2>8, <2>12, <3>1, <3>2
  <2>13. PendingOpen'
    <3>1. ASSUME NEW o \in SessionOrders, pending'[o] # R!NotPending,
                 NEW f \in Folders, NEW r \in RowsShown(f)', r.fill = pending'[o].fill
          PROVE  r.five = "open" /\ r.one \in {"open", pending'[o].one}
      <4>1. pending[o] # R!NotPending /\ pending'[o] = now[o] /\ now[o].five = "open"
        BY <2>6, <3>1
      <4>2. now[o].fill = pending[o].fill /\ (pending[o].one = "open" \/ now[o].one = pending[o].one)
        BY <2>4, <4>1
      <4>3. r = now[o] \/ (r.five = "open" /\ r.one \in {"open", pending[o].one})
        BY <2>12, <3>1, <4>1, <4>2
      <4> QED
        BY <4>1, <4>2, <4>3
    <3> QED
      BY <2>6, <3>1 DEF PendingOpen, PendingFits
  <2>14. ASSUME NEW f \in Folders, NEW o \in SessionOrders, pending[o] # R!NotPending,
                NEW r \in RowsShown(f)'
         PROVE  Agree(r, now[o]) /\ Agree(now[o], r)
    <3> SUFFICES ASSUME r.fill = now[o].fill
                 PROVE  /\ r.one = now[o].one \/ r.one = "open" \/ now[o].one = "open"
                        /\ r.five = now[o].five \/ r.five = "open" \/ now[o].five = "open"
      BY DEF Agree
    <3>1. now[o].fill = pending[o].fill /\ (pending[o].one = "open" \/ now[o].one = pending[o].one)
      BY <2>4, <2>14
    <3>2. r = now[o] \/ (r.five = "open" /\ r.one \in {"open", pending[o].one})
      BY <2>12, <2>14, <3>1
    <3> QED
      BY <3>1, <3>2
  <2>15. RowsAgree'
    <3> SUFFICES ASSUME NEW f \in Folders, NEW r \in RowsShown(f)', NEW s \in RowsShown(f)'
                 PROVE  Agree(r, s)
      BY DEF RowsAgree, Agree
    <3>1. CASE r \in RowsShown(f) /\ s \in RowsShown(f)
      BY <3>1 DEF MarkoutInv, RowsAgree
    <3>2. CASE \E o \in SessionOrders : pending[o] # R!NotPending /\ r = now[o]
      BY <2>14, <3>2
    <3>3. CASE \E o \in SessionOrders : pending[o] # R!NotPending /\ s = now[o]
      BY <2>14, <3>3
    <3> QED
      BY <2>8, <3>1, <3>2, <3>3
  <2> QED
    BY <1>t, <2>10, <2>11, <2>13, <2>15 DEF MarkoutInv
<1>8. CASE R!CycleRecorded
  <2>1. UNCHANGED <<folder, drained, recorded, pending, traded>> /\ R!Flush
    BY <1>8 DEF R!CycleRecorded, R!past
  <2>2. \A f \in Folders : RowsShown(f)' = RowsShown(f)
    BY <1>t, <2>1, Flushed
  <2> QED
    BY <1>t, <2>1, <2>2, MarkoutInvKept DEF Older
<1>9. CASE R!Leave
  <2>1. UNCHANGED <<folder, drained, recorded, queue, tables, pending, traded>>
    BY <1>9 DEF R!Leave, R!past
  <2>2. \A f \in Folders : RowsShown(f)' = RowsShown(f)
    BY <2>1 DEF RowsShown, R!Queued
  <2> QED
    BY <1>t, <2>1, <2>2, MarkoutInvKept DEF Older
<1>10. CASE R!Summarize
  <2>1. UNCHANGED <<folder, drained, recorded, pending, traded>> /\ R!Flush
    BY <1>10 DEF R!Summarize, R!past
  <2>2. \A f \in Folders : RowsShown(f)' = RowsShown(f)
    BY <1>t, <2>1, Flushed
  <2> QED
    BY <1>t, <2>1, <2>2, MarkoutInvKept DEF Older
<1>11. CASE R!SaveHistory
  <2>1. UNCHANGED <<folder, drained, recorded, queue, tables, pending, traded>>
    BY <1>11 DEF R!SaveHistory, R!past
  <2>2. \A f \in Folders : RowsShown(f)' = RowsShown(f)
    BY <2>1 DEF RowsShown, R!Queued
  <2> QED
    BY <1>t, <2>1, <2>2, MarkoutInvKept DEF Older
<1>12. CASE R!SaveMemory
  <2>1. UNCHANGED <<folder, drained, recorded, queue, tables, pending, traded>>
    BY <1>12 DEF R!SaveMemory, R!past
  <2>2. \A f \in Folders : RowsShown(f)' = RowsShown(f)
    BY <2>1 DEF RowsShown, R!Queued
  <2> QED
    BY <1>t, <2>1, <2>2, MarkoutInvKept DEF Older
<1>13. CASE R!Skip
  <2>1. UNCHANGED <<folder, drained, recorded, queue, tables, pending, traded>>
    BY <1>13 DEF R!Skip, R!past
  <2>2. \A f \in Folders : RowsShown(f)' = RowsShown(f)
    BY <2>1 DEF RowsShown, R!Queued
  <2> QED
    BY <1>t, <2>1, <2>2, MarkoutInvKept DEF Older
<1>14. CASE R!Close
  <2>1. UNCHANGED <<folder, drained, recorded, pending, traded>> /\ R!Flush
    BY <1>14 DEF R!Close, R!past
  <2>2. \A f \in Folders : RowsShown(f)' = RowsShown(f)
    BY <1>t, <2>1, Flushed
  <2> QED
    BY <1>t, <2>1, <2>2, MarkoutInvKept DEF Older
<1>15. CASE R!Kill
  <2>1. UNCHANGED <<folder, drained, recorded, tables, pending, traded>> /\ queue' = R!NoRows
    BY <1>15 DEF R!Kill
  <2>2. \A f \in Folders : RowsShown(f)' \subseteq RowsShown(f)
    BY <2>1, NoRowsShown DEF RowsShown, R!Queued
  <2> QED
    BY <1>t, <2>1, <2>2, MarkoutInvKept DEF Older
<1>16. ASSUME NEW f \in Folders, R!Start(f)
       PROVE  MarkoutInv'
  <2>1. /\ drained' = <<>> /\ pending' = [o \in SessionOrders |-> R!NotPending]
        /\ UNCHANGED <<queue, tables, traded>>
        /\ queue = R!NoRows
    BY <1>16, <1>q DEF R!Start
  <2>2. \A g \in Folders : RowsShown(g)' = RowsShown(g)
    BY <2>1 DEF RowsShown, R!Queued
  <2>3. Len(drained') = 0
    BY <2>1
  <2>4. \A id \in Nat : Older(id) => Older(id)'
    BY <2>1, <2>3 DEF Older
  <2>5. \A o \in SessionOrders : pending'[o] = R!NotPending
    BY <2>1
  <2> QED
    BY <1>t, <2>2, <2>4, <2>5, MarkoutInvKept
<1> QED
  BY <1>1, <1>2, <1>3, <1>4, <1>5, <1>6, <1>7, <1>8, <1>9, <1>10, <1>11, <1>12, <1>13, <1>14,
     <1>15, <1>16 DEF R!Next

(* The rows of a fill agree on each markout, however its measurement is     *)
(* spread over cycles, and whatever takes its order's place in between.    *)
THEOREM MarkoutsAgreeCorrect == R!Spec => []MarkoutsAgree
<1>1. R!Init => MarkoutInv
  BY MarkoutInvInit
<1>2. MarkoutInv /\ [R!Next]_(R!vars) => MarkoutInv'
  BY MarkoutInvStep
<1>3. MarkoutInv => MarkoutsAgree
  BY MarkoutInvImplies
<1> QED
  BY <1>1, <1>2, <1>3, PTL DEF R!Spec

-----------------------------------------------------------------------------
(* The replay: largest numbers and sequences.                              *)

\* A set of naturals has a least element.
LEMMA Least ==
  ASSUME NEW S, S \subseteq Nat, S # {}
  PROVE  \E x \in S : \A y \in S : x <= y
<1> DEFINE B == OpToRel(<, Nat)
<1>1. IsWellFoundedOn(B, Nat)
  BY NatLessThanWellFounded, Zenon
<1>2. ASSUME NEW x \in Nat, NEW y \in Nat, ~(<<y, x>> \in B)
      PROVE  x <= y
  BY <1>2 DEF OpToRel
<1> HIDE DEF B
<1>3. PICK x \in S : \A y \in S : ~(<<y, x>> \in B)
  BY <1>1, WFMin, Zenon
<1>4. \A y \in S : x <= y
  BY <1>2, <1>3
<1> QED
  BY <1>4

\* A set of integers with a bound has a greatest element, below the bound.
LEMMA Greatest ==
  ASSUME NEW S \in SUBSET Int, S # {}, NEW t \in Int, \A x \in S : x <= t
  PROVE  D!Max(S) \in S /\ D!Max(S) <= t /\ \A y \in S : y <= D!Max(S)
<1> DEFINE below == {t - x : x \in S}
<1>0. \A x \in S : t - x \in Nat
  OBVIOUS
<1>1. below \subseteq Nat /\ below # {}
  BY <1>0, Zenon
<1>2. PICK d \in below : \A e \in below : d <= e
  BY <1>1, Least, Zenon
<1>3. PICK x \in S : d = t - x
  BY <1>2
<1>4. ASSUME NEW y \in S
      PROVE  x >= y
  <2>1. t - x <= t - y
    BY <1>2, <1>3, <1>4
  <2> QED
    BY <2>1
<1>5. D!Max(S) \in S /\ \A y \in S : D!Max(S) >= y
  BY <1>4, Zenon DEF D!Max
<1> QED
  BY <1>5

\* Putting an element into a sequence adds that element.
LEMMA Inserted ==
  ASSUME NEW S, NEW s \in Seq(S), NEW e \in S, NEW n \in 0..Len(s)
  PROVE  /\ D!InsertAt(s, n + 1, e) \in Seq(S)
         /\ \A i \in DOMAIN D!InsertAt(s, n + 1, e) :
              D!InsertAt(s, n + 1, e)[i] = e \/ \E j \in DOMAIN s : D!InsertAt(s, n + 1, e)[i] = s[j]
<1> DEFINE front == SubSeq(s, 1, n)
           back == SubSeq(s, n + 1, Len(s))
           first == front \o <<e>>
<1>1. front \in Seq(S) /\ Len(front) = n /\ \A i \in 1..n : front[i] = s[i]
  OBVIOUS
<1>2. /\ back \in Seq(S) /\ Len(back) = Len(s) - n
      /\ \A i \in 1..(Len(s) - n) : back[i] = s[n + i]
  OBVIOUS
<1>3. Len(s) \in Nat /\ DOMAIN s = 1..Len(s)
  OBVIOUS
<1>4. D!InsertAt(s, n + 1, e) = first \o back
  <2>1. (n + 1) - 1 = n
    BY <1>3
  <2> QED
    BY <2>1, Zenon DEF D!InsertAt
<1> HIDE DEF front, back
<1>5. first \in Seq(S) /\ Len(first) = n + 1 /\ first[n + 1] = e /\ \A i \in 1..n : first[i] = front[i]
  BY <1>1
<1> HIDE DEF first
<1>6. /\ first \o back \in Seq(S) /\ Len(first \o back) = Len(s) + 1
      /\ DOMAIN (first \o back) = 1..(Len(s) + 1)
  BY <1>2, <1>3, <1>5
<1>7. ASSUME NEW i \in 1..(Len(s) + 1)
      PROVE  (first \o back)[i] = e \/ \E j \in DOMAIN s : (first \o back)[i] = s[j]
  <2>1. CASE i <= n
    <3>1. (first \o back)[i] = first[i]
      BY <1>2, <1>5, <2>1
    <3> QED
      BY <3>1, <1>1, <1>3, <1>5, <2>1
  <2>2. CASE i = n + 1
    BY <1>2, <1>5, <2>2
  <2>3. CASE i > n + 1
    <3>1. (first \o back)[i] = back[i - (n + 1)]
      BY <1>2, <1>3, <1>5, <2>3
    <3>2. i - (n + 1) \in 1..(Len(s) - n)
      BY <1>3, <2>3
    <3>3. back[i - (n + 1)] = s[n + (i - (n + 1))] /\ n + (i - (n + 1)) \in 1..Len(s)
      BY <1>2, <1>3, <2>3, <3>2
    <3> QED
      BY <1>3, <3>1, <3>3
  <2>4. i <= n \/ i = n + 1 \/ i > n + 1
    BY <1>3
  <2> QED
    BY <2>1, <2>2, <2>3, <2>4, Zenon
<1> QED
  BY <1>4, <1>6, <1>7

\* How many of a sequence's indices are in a set.
LEMMA CountedIndices ==
  ASSUME NEW s, NEW n \in Nat, DOMAIN s = 1..n, NEW T \in SUBSET DOMAIN s
  PROVE  D!Cardinality(T) \in 0..n
<1>1. IsFiniteSet(1..n) /\ Cardinality(1..n) = n
  BY FS_Interval
<1>2. IsFiniteSet(T) /\ Cardinality(T) <= n
  BY <1>1, FS_Subset
<1>3. Cardinality(T) \in Nat
  BY <1>2, FS_CardinalityType
<1>4. Cardinality(T) \in 0..n
  BY <1>2, <1>3
<1>5. D!Cardinality(T) = Cardinality(T)
  BY Zenon DEF Cardinality, D!Cardinality
<1> QED
  BY <1>4, <1>5

-----------------------------------------------------------------------------
(* The replay: the dates of decisions and of what they rest on.            *)

\* A time, or none yet.
Time == Nat \cup {D!Never}

ReplayReading == [kind : {"idle", "record", "applied", "end"}, asset : D!Assets,
                  top : Tops \cup {D!NoTop}, at : Nat]
ReplayQuote == [value : Int, recv : Time, wall : Int]
ReplayPoint == [event : Int, recv : Nat, value : Int]

ReplayTypes ==
  /\ clock \in Nat
  /\ reading \in ReplayReading
  /\ quoted \in [D!Sources -> ReplayQuote]
  /\ points \in Seq(ReplayPoint)
  /\ DOMAIN tops = D!Assets /\ \A a \in D!Assets : tops[a].recv \in Time
  /\ last \in [D!Assets -> Time]
  /\ DOMAIN simulated = D!Assets /\ \A a \in D!Assets : simulated[a].since \in Nat
  /\ signal.at \in Time

\* The inductive invariant.  All that was heard came by the clock; a book came
\* before its asset's next heartbeat is due, as overdue heartbeats come first;
\* and no signal and no point of the history is newer than the newest quote.
DatesInOrder ==
  /\ \A s \in D!Sources : quoted[s].recv <= clock
  /\ reading.kind # "end" => reading.at <= clock
  /\ \A a \in D!Assets : last[a] <= reading.at
  /\ \A a \in D!Assets : tops[a].recv # D!Never =>
       last[a] # D!Never /\ tops[a].recv < last[a] + Interval /\ tops[a].recv <= reading.at

Newest(x) == \E s \in D!Heard : x <= quoted[s].recv

FactsHeard ==
  /\ signal.at # D!Never => Newest(signal.at)
  /\ \A i \in DOMAIN points : Newest(points[i].recv)

\* A position's last decision is the one that entered it, or left it open
\* because its time was not up; and when a record has entered its book, no
\* heartbeat is overdue.
PositionsKept ==
  /\ \A a \in D!Assets : simulated[a] # D!Flat =>
       /\ last[a] # D!Never
       /\ simulated[a].since = last[a] \/ last[a] - simulated[a].since < HoldMax
  /\ reading.kind = "applied" =>
       \A a \in D!Assets : last[a] # D!Never /\ reading.at - last[a] < Interval

ReplayInv == ReplayTypes /\ DatesInOrder /\ FactsHeard /\ PositionsKept /\ EntriesKnown

LEMMA Times ==
  /\ Time \subseteq Int /\ D!Never = -1 /\ Nat \subseteq Time /\ D!Never \in Time
  /\ \A x \in Time : x >= -1 /\ (x # D!Never => x \in Nat)
  /\ Interval \in Nat /\ Interval > 0 /\ HoldMax \in Nat /\ Extra \in Nat
BY ReplayConstants DEF Time, D!Never, D!ReplayAssumption

LEMMA ReplayInvImplies == ReplayInv => EntriesKnown /\ PositionsEnd
<1> SUFFICES ASSUME ReplayInv, reading.kind = "applied", NEW a \in D!Assets, simulated[a] # D!Flat
             PROVE  reading.at - simulated[a].since < HoldMax + Interval
  BY DEF ReplayInv, PositionsEnd, D!PositionsEnd
<1>1. reading.at \in Nat /\ last[a] \in Int /\ simulated[a].since \in Nat
  BY Times DEF ReplayInv, ReplayTypes, ReplayReading
<1>2. /\ reading.at - last[a] < Interval
      /\ simulated[a].since = last[a] \/ last[a] - simulated[a].since < HoldMax
  BY DEF ReplayInv, PositionsKept
<1> QED
  BY <1>1, <1>2, Times

LEMMA ReplayInvInit == D!Init => ReplayInv
<1> SUFFICES ASSUME D!Init PROVE ReplayInv
  OBVIOUS
<1>1. clock \in Nat /\ clock = 0
  BY DEF D!Init
<1>2. reading \in ReplayReading /\ reading.at = 0 /\ reading.kind = "idle"
  BY DEF D!Init, D!Idle, ReplayReading, D!Assets
<1>3. quoted \in [D!Sources -> ReplayQuote] /\ \A s \in D!Sources : quoted[s].recv = D!Never
  BY Times DEF D!Init, D!NoQuote, ReplayQuote
<1>4. points \in Seq(ReplayPoint) /\ DOMAIN points = {}
  BY DEF D!Init
<1>5. DOMAIN tops = D!Assets /\ \A a \in D!Assets : tops[a].recv = D!Never
  BY DEF D!Init
<1>6. last \in [D!Assets -> Time] /\ \A a \in D!Assets : last[a] = D!Never
  BY Times DEF D!Init
<1>7. DOMAIN simulated = D!Assets /\ \A a \in D!Assets : simulated[a] = D!Flat /\ simulated[a].since \in Nat
  BY DEF D!Init, D!Flat
<1>8. signal.at = D!Never
  BY DEF D!Init, D!NoSignal
<1>9. EntriesKnown
  BY DEF D!Init, EntriesKnown, D!EntriesKnown
<1>10. ReplayTypes
  BY <1>1, <1>2, <1>3, <1>4, <1>5, <1>6, <1>7, <1>8, Times DEF ReplayTypes
<1>11. DatesInOrder
  BY <1>1, <1>2, <1>3, <1>5, <1>6, Times DEF DatesInOrder
<1>12. FactsHeard /\ PositionsKept
  BY <1>2, <1>4, <1>7, <1>8 DEF FactsHeard, PositionsKept
<1> QED
  BY <1>9, <1>10, <1>11, <1>12 DEF ReplayInv

\* When the later of the sources that spoke did.
LEMMA ReceivedIsHeard ==
  ASSUME ReplayTypes, \A s \in D!Sources : quoted[s].recv <= clock, D!Heard # {}
  PROVE  /\ D!Received \in Nat
         /\ \E s \in D!Heard : D!Received = quoted[s].recv
         /\ \A s \in D!Heard : quoted[s].recv <= D!Received
<1> DEFINE S == {quoted[s].recv : s \in D!Heard}
<1>1. \A s \in D!Heard : quoted[s].recv \in Nat /\ quoted[s].recv <= clock
  BY Times DEF ReplayTypes, ReplayQuote, D!Heard
<1>2. S \in SUBSET Int /\ S # {} /\ \A x \in S : x \in Nat /\ x <= clock
  BY <1>1
<1>3. clock \in Int
  BY DEF ReplayTypes
<1>4. D!Received = D!Max(S)
  BY DEF D!Received
<1> HIDE DEF S
<1>5. D!Max(S) \in S /\ \A y \in S : y <= D!Max(S)
  BY <1>2, <1>3, Greatest
<1> QED
  BY <1>2, <1>4, <1>5 DEF S

\* The signal is as old as it was, or as new as the newest quote.
LEMMA UpdatedSignal ==
  ASSUME ReplayTypes, \A s \in D!Sources : quoted[s].recv <= clock, FactsHeard, NEW t \in Nat
  PROVE  /\ D!Updated(t).at \in Time
         /\ D!Updated(t).at # D!Never => Newest(D!Updated(t).at)
<1>1. CASE D!Updated(t) = signal
  BY <1>1 DEF ReplayTypes, FactsHeard
<1>2. CASE D!Updated(t) # signal
  <2>1. D!Usable(t)
    BY <1>2 DEF D!Updated
  <2>2. D!Heard # {}
    BY <2>1 DEF D!Usable, D!Status
  <2>3. D!Updated(t).at = D!Received
    BY <1>2 DEF D!Updated, D!NoSignal
  <2>4. D!Received \in Nat /\ \E s \in D!Heard : D!Received = quoted[s].recv
    BY <2>2, ReceivedIsHeard
  <2> QED
    BY <2>3, <2>4, Times DEF Newest
<1> QED
  BY <1>1, <1>2

\* At a date when the price is good, all that was heard was heard by then, and
\* with it the signal and the history.
LEMMA FactsKnown ==
  ASSUME ReplayTypes, \A s \in D!Sources : quoted[s].recv <= clock, FactsHeard,
         NEW t \in Nat, NEW a \in D!Assets, NEW sig, sig.at \in Time,
         sig.at # D!Never => Newest(sig.at), tops[a].recv <= t, D!Status(t) = "ok"
  PROVE  D!Known(a, sig, t) <= t
<1>1. D!Future(t) = {} /\ D!Heard # {}
  BY DEF D!Status
<1>2. \A s \in D!Heard : quoted[s].recv \in Nat /\ quoted[s].recv <= t
  <2>1. \A s \in D!Heard : quoted[s].recv \in Nat
    BY Times DEF ReplayTypes, ReplayQuote, D!Heard
  <2>2. \A s \in D!Heard : ~(quoted[s].recv > t)
    BY <1>1 DEF D!Future
  <2> QED
    BY <2>1, <2>2
<1>3. \A x \in Int : Newest(x) => x <= t
  BY <1>2 DEF Newest
<1>4. sig.at \in Int /\ sig.at <= t
  BY <1>3, Times
<1>5. tops[a].recv \in Int /\ tops[a].recv <= t
  BY Times DEF ReplayTypes
<1>6. D!Received \in Int /\ D!Received <= t
  BY <1>1, <1>2, ReceivedIsHeard
<1>7. \A i \in D!History(t) : points[i].recv \in Int /\ points[i].recv <= t
  <2>1. \A i \in DOMAIN points : points[i].recv \in Int
    <3>1. \A p \in ReplayPoint : p.recv \in Int
      BY DEF ReplayPoint
    <3> QED
      BY <3>1 DEF ReplayTypes
  <2> QED
    BY <1>3, <2>1 DEF FactsHeard, D!History
<1> DEFINE S == {tops[a].recv, sig.at}
                \cup (IF D!Usable(t) THEN {D!Received} ELSE {})
                \cup (IF D!Featured(t) THEN {points[i].recv : i \in D!History(t)} ELSE {})
<1>8. S \in SUBSET Int /\ S # {} /\ \A x \in S : x <= t
  BY <1>4, <1>5, <1>6, <1>7
<1>9. D!Known(a, sig, t) = D!Max(S)
  BY DEF D!Known
<1> HIDE DEF S
<1> QED
  BY <1>8, <1>9, Greatest

\* A decision on an asset, dated no earlier than its last and than its book:
\* what an entry rests on was received by its date, and what is held was entered
\* now, or is not due to be closed.
LEMMA DecisionMade ==
  ASSUME ReplayTypes, \A s \in D!Sources : quoted[s].recv <= clock, FactsHeard,
         NEW a \in D!Assets, NEW t \in Nat, tops[a].recv <= t, D!Decide(a, t)
  PROVE  /\ signal'.at \in Time
         /\ signal'.at # D!Never => Newest(signal'.at)
         /\ last' = [last EXCEPT ![a] = t]
         /\ DOMAIN simulated' = D!Assets
         /\ \A b \in D!Assets : b # a => simulated'[b] = simulated[b]
         /\ simulated'[a].since \in Nat
         /\ simulated'[a] # D!Flat => simulated'[a].since = t \/ t - simulated'[a].since < HoldMax
         /\ EntriesKnown'
<1> DEFINE sig == D!Updated(t)
           exits == D!Exits(a, sig, t)
           held == IF exits THEN D!Flat ELSE simulated[a]
           enters == held = D!Flat /\ D!Allowed(a, sig, t)
           best == D!Best(D!Offers(a, sig, t))
<1>1. /\ signal' = sig
      /\ last' = [last EXCEPT ![a] = t]
      /\ simulated' = [simulated EXCEPT ![a] =
                         IF enters THEN [side |-> best.side, since |-> t, edge |-> best.edge] ELSE held]
      /\ decided' = [asset |-> a, at |-> t, exit |-> exits,
                      entry |-> IF enters THEN best.side ELSE "none",
                      known |-> D!Known(a, sig, t)]
  BY Zenon DEF D!Decide
<1>2. sig.at \in Time /\ (sig.at # D!Never => Newest(sig.at))
  BY UpdatedSignal
<1>3. enters => D!Status(t) = "ok"
  BY DEF D!Allowed
<1>4. ~exits => simulated[a] = D!Flat \/ ~(t - simulated[a].since >= HoldMax)
  BY DEF D!Exits
<1>5. simulated[a].since \in Nat /\ DOMAIN simulated = D!Assets /\ D!Flat.since = 0
  BY DEF ReplayTypes, D!Flat
<1> HIDE DEF sig, exits, enters, best
<1>6. decided'.entry # "none" => enters
  BY <1>1
<1>7. enters => D!Known(a, sig, t) <= t
  BY <1>2, <1>3, FactsKnown
<1>8. EntriesKnown'
  BY <1>1, <1>6, <1>7 DEF EntriesKnown, D!EntriesKnown
<1>9. DOMAIN simulated' = D!Assets /\ \A b \in D!Assets : b # a => simulated'[b] = simulated[b]
  BY <1>1, <1>5
<1>10. simulated'[a] = IF enters THEN [side |-> best.side, since |-> t, edge |-> best.edge] ELSE held
  BY <1>1, <1>5
<1>11. CASE enters
  <2>1. simulated'[a].since = t
    BY <1>10, <1>11
  <2> QED
    BY <1>1, <1>2, <1>8, <1>9, <2>1 DEF Newest
<1>12. CASE ~enters
  <2>1. simulated'[a] = held
    BY <1>10, <1>12
  <2>2. held.since \in Nat
    BY <1>5
  <2>3. held # D!Flat => ~exits /\ held = simulated[a] /\ t - held.since < HoldMax
    BY <1>4, <1>5, Times
  <2> HIDE DEF held
  <2> QED
    BY <1>1, <1>2, <1>8, <1>9, <2>1, <2>2, <2>3 DEF Newest
<1> QED
  BY <1>11, <1>12

\* A decision on an asset keeps the invariant, if the record read has not entered
\* its book or has been dealt with by it.
LEMMA DecisionKeeps ==
  ASSUME ReplayInv, NEW a \in D!Assets, NEW t \in Nat, tops[a].recv <= t, D!Decide(a, t),
         last[a] <= t, t <= reading.at, reading' \in ReplayReading, reading'.at = reading.at,
         reading'.kind # "applied", reading'.kind # "end" => reading.at <= clock,
         UNCHANGED <<clock, quoted, points, tops>>
  PROVE  ReplayInv'
<1>1. ReplayTypes /\ DatesInOrder /\ FactsHeard /\ PositionsKept
  BY DEF ReplayInv
<1>2. \A s \in D!Sources : quoted[s].recv <= clock
  BY <1>1 DEF DatesInOrder
<1>3. /\ signal'.at \in Time
      /\ signal'.at # D!Never => Newest(signal'.at)
      /\ last' = [last EXCEPT ![a] = t]
      /\ DOMAIN simulated' = D!Assets
      /\ \A b \in D!Assets : b # a => simulated'[b] = simulated[b]
      /\ simulated'[a].since \in Nat
      /\ simulated'[a] # D!Flat => simulated'[a].since = t \/ t - simulated'[a].since < HoldMax
      /\ EntriesKnown'
  BY <1>1, <1>2, DecisionMade
<1>4. /\ last' \in [D!Assets -> Time] /\ last'[a] = t
      /\ \A b \in D!Assets : b # a => last'[b] = last[b]
  BY <1>1, <1>3, Times DEF ReplayTypes
<1>5. \A b \in D!Assets : simulated'[b].since \in Nat
  BY <1>1, <1>3 DEF ReplayTypes
<1>6. ReplayTypes'
  BY <1>1, <1>3, <1>4, <1>5 DEF ReplayTypes
<1>7. reading.at \in Nat /\ \A b \in D!Assets : last[b] \in Int /\ tops[b].recv \in Int
  BY <1>1, Times DEF ReplayTypes, ReplayReading
<1>8. DatesInOrder'
  <2>1. \A b \in D!Assets : last'[b] <= reading'.at
    BY <1>1, <1>4 DEF DatesInOrder
  <2>2. ASSUME NEW b \in D!Assets, tops[b].recv # D!Never
        PROVE  last'[b] # D!Never /\ tops[b].recv < last'[b] + Interval /\ tops[b].recv <= reading'.at
    <3>1. tops[b].recv < last[b] + Interval /\ last[b] # D!Never /\ tops[b].recv <= reading.at
      BY <1>1, <2>2 DEF DatesInOrder
    <3>2. CASE b = a
      <4>1. t # D!Never /\ tops[b].recv < t + Interval
        BY <1>7, <2>2, <3>1, <3>2, Times
      <4> QED
        BY <1>4, <3>1, <3>2, <4>1
    <3>3. CASE b # a
      BY <1>4, <3>1, <3>3
    <3> QED
      BY <3>2, <3>3
  <2>3. reading'.kind # "end" => reading'.at <= clock'
    OBVIOUS
  <2> QED
    BY <1>2, <2>1, <2>2, <2>3 DEF DatesInOrder
<1>9. FactsHeard'
  <2>1. \A x : Newest(x) => Newest(x)'
    BY DEF Newest, D!Heard
  <2>2. signal'.at # D!Never => (\E s \in D!Heard' : signal'.at <= quoted'[s].recv)
    BY <1>3 DEF Newest, D!Heard
  <2> QED
    BY <1>1, <2>1, <2>2 DEF FactsHeard, Newest
<1>10. PositionsKept'
  <2>1. ASSUME NEW b \in D!Assets, simulated'[b] # D!Flat
        PROVE  /\ last'[b] # D!Never
               /\ simulated'[b].since = last'[b] \/ last'[b] - simulated'[b].since < HoldMax
    <3>1. CASE b = a
      BY <1>3, <1>4, <2>1, <3>1, Times
    <3>2. CASE b # a
      BY <1>1, <1>3, <1>4, <2>1, <3>2 DEF PositionsKept
    <3> QED
      BY <3>1, <3>2
  <2> QED
    BY <2>1 DEF PositionsKept
<1> QED
  BY <1>3, <1>6, <1>8, <1>9, <1>10 DEF ReplayInv

LEMMA EndedReading ==
  ASSUME NEW r \in ReplayReading, NEW k \in {"applied", "end"}, NEW n \in Nat
  PROVE  /\ [r EXCEPT !.kind = k, !.at = @ + n] \in ReplayReading
         /\ [r EXCEPT !.kind = k, !.at = @ + n].kind = k
         /\ [r EXCEPT !.kind = k, !.at = @ + n].at = r.at + n
<1>1. r.at + n \in Nat
  BY DEF ReplayReading
<1> DEFINE m == r.at + n
<1>2. [r EXCEPT !.kind = k, !.at = m] \in ReplayReading
  BY <1>1 DEF ReplayReading
<1> QED
  BY <1>2 DEF ReplayReading

LEMMA ReplayInvStep == ReplayInv /\ [D!Next]_(D!vars) => ReplayInv'
<1> SUFFICES ASSUME ReplayInv, [D!Next]_(D!vars) PROVE ReplayInv'
  OBVIOUS
<1>t. ReplayTypes /\ DatesInOrder /\ FactsHeard /\ PositionsKept /\ EntriesKnown
  BY DEF ReplayInv
<1>n. /\ clock \in Nat /\ reading.at \in Nat /\ reading \in ReplayReading
      /\ \A a \in D!Assets : last[a] \in Time /\ tops[a].recv \in Time
  BY <1>t DEF ReplayTypes, ReplayReading
<1>i. /\ \A a \in D!Assets : last[a] \in Int /\ last[a] >= -1 /\ (last[a] # D!Never => last[a] \in Nat)
      /\ \A a \in D!Assets : tops[a].recv \in Int /\ tops[a].recv >= -1
      /\ \A s \in D!Sources : quoted[s].recv \in Int
  <2>1. \A q \in ReplayQuote : q.recv \in Time
    BY DEF ReplayQuote
  <2>2. \A x \in Time : x \in Int /\ x >= -1 /\ (x # D!Never => x \in Nat)
    BY Times
  <2> QED
    BY <1>t, <1>n, <2>1, <2>2 DEF ReplayTypes
<1>1. CASE UNCHANGED D!vars
  BY <1>1, <1>t DEF ReplayInv, D!vars, ReplayTypes, DatesInOrder, FactsHeard, Newest, D!Heard,
     PositionsKept, EntriesKnown, D!EntriesKnown
<1>2. ASSUME NEW s \in D!Sources, D!Quote(s)
      PROVE  ReplayInv'
  <2>1. PICK t \in D!Later, value \in Values, lag \in Lags, skew \in Skews :
          /\ clock' = t
          /\ quoted' = [quoted EXCEPT ![s] = [value |-> value, recv |-> t, wall |-> t + skew]]
          /\ LET before == D!Cardinality({i \in DOMAIN points : points[i].event <= t - lag})
             IN points' = IF trained
                          THEN D!InsertAt(points, before + 1, [event |-> t - lag, recv |-> t, value |-> value])
                          ELSE points
    BY <1>2, Zenon DEF D!Quote
  <2>2. /\ reading.kind = "idle"
        /\ UNCHANGED <<reading, signal, tops, last, simulated, decided>>
    BY <1>2 DEF D!Quote
  <2>3. /\ t \in Nat /\ t >= clock
        /\ value \in Int /\ lag \in Int /\ skew \in Int
    <3>1. PICK d \in Steps : t = clock + d
      BY DEF D!Later
    <3> QED
      BY <1>n, <1>i, <3>1, ReplayConstants DEF D!ReplayAssumption
  <2> DEFINE quote == [value |-> value, recv |-> t, wall |-> t + skew]
             point == [event |-> t - lag, recv |-> t, value |-> value]
  <2>4. quote \in ReplayQuote /\ quote.recv = t /\ point \in ReplayPoint /\ point.recv = t
    <3>1. t \in Time /\ t + skew \in Int /\ t - lag \in Int
      BY <2>3, Times
    <3> QED
      BY <2>3, <3>1 DEF ReplayQuote, ReplayPoint
  <2> HIDE DEF quote
  <2>5. quoted' = [quoted EXCEPT ![s] = quote]
    BY <2>1 DEF quote
  <2>6. /\ quoted' \in [D!Sources -> ReplayQuote]
        /\ \A r \in D!Sources : quoted'[r] = IF r = s THEN quote ELSE quoted[r]
    BY <1>t, <2>4, <2>5 DEF ReplayTypes
  <2>7. \A r \in D!Sources : quoted[r].recv \in Int /\ quoted[r].recv <= clock
    BY <1>t, Times DEF ReplayTypes, ReplayQuote, DatesInOrder
  <2>8. \A r \in D!Sources : quoted'[r].recv <= clock'
    BY <1>n, <1>i, <2>1, <2>3, <2>4, <2>6, <2>7
  <2>9. \A x \in Int : Newest(x) \/ x = t => \E r \in D!Sources : quoted'[r].recv # D!Never /\ x <= quoted'[r].recv
    <3>1. t # D!Never
      BY <2>3, Times
    <3>2. ASSUME NEW x \in Int, x <= t
          PROVE  \E r \in D!Sources : quoted'[r].recv # D!Never /\ x <= quoted'[r].recv
      BY <2>4, <2>6, <3>1, <3>2
    <3>3. ASSUME NEW x \in Int, Newest(x)
          PROVE  x <= t
      BY <1>n, <1>i, <2>3, <2>7, <3>3 DEF Newest, D!Heard
    <3> QED
      BY <2>3, <3>2, <3>3
  <2>10. \A x \in Int : Newest(x) \/ x = t => \E r \in D!Heard' : x <= quoted'[r].recv
    BY <2>9 DEF D!Heard
  <2>11. /\ points' \in Seq(ReplayPoint)
         /\ \A i \in DOMAIN points' :
              points'[i] = point \/ \E j \in DOMAIN points : points'[i] = points[j]
    <3> DEFINE before == D!Cardinality({i \in DOMAIN points : points[i].event <= t - lag})
    <3>1. points \in Seq(ReplayPoint)
      BY <1>t DEF ReplayTypes
    <3>2. before \in 0..Len(points)
      <4>1. Len(points) \in Nat /\ DOMAIN points = 1..Len(points)
        BY <3>1
      <4> DEFINE T == {i \in DOMAIN points : points[i].event <= t - lag}
      <4>2. T \in SUBSET DOMAIN points
        OBVIOUS
      <4> HIDE DEF T
      <4>3. D!Cardinality(T) \in 0..Len(points)
        BY <4>1, <4>2, CountedIndices
      <4> QED
        BY <4>3 DEF T
    <3>3. points' = IF trained THEN D!InsertAt(points, before + 1, point) ELSE points
      BY <2>1
    <3> HIDE DEF before, point
    <3>4. CASE trained
      <4>1. points' = D!InsertAt(points, before + 1, point)
        BY <3>3, <3>4
      <4> QED
        BY <4>1, <3>1, <3>2, <2>4, Inserted
    <3>5. CASE ~trained
      BY <3>1, <3>3, <3>5
    <3> QED
      BY <3>4, <3>5
  <2> HIDE DEF point
  <2>12. ReplayTypes'
    BY <1>t, <2>1, <2>2, <2>3, <2>6, <2>11 DEF ReplayTypes
  <2>13. DatesInOrder'
    <3>1. reading.at <= clock'
      BY <1>t, <1>n, <1>i, <2>1, <2>2, <2>3 DEF DatesInOrder
    <3> QED
      BY <1>t, <2>2, <2>8, <3>1 DEF DatesInOrder
  <2>14. FactsHeard'
    <3>1. signal'.at # D!Never => \E r \in D!Heard' : signal'.at <= quoted'[r].recv
      BY <1>t, <2>2, <2>10, Times DEF FactsHeard, ReplayTypes
    <3>2. ASSUME NEW i \in DOMAIN points'
          PROVE  \E r \in D!Heard' : points'[i].recv <= quoted'[r].recv
      <4>1. CASE points'[i] = point
        BY <2>3, <2>4, <2>10, <4>1
      <4>2. CASE points'[i] # point
        <5>1. PICK j \in DOMAIN points : points'[i] = points[j]
          BY <2>11, <3>2, <4>2
        <5>2. points[j].recv \in Int /\ Newest(points[j].recv)
          <6>1. \A p \in ReplayPoint : p.recv \in Int
            BY DEF ReplayPoint
          <6> QED
            BY <1>t, <6>1 DEF ReplayTypes, FactsHeard
        <5> QED
          BY <2>10, <5>1, <5>2
      <4> QED
        BY <4>1, <4>2
    <3> QED
      BY <3>1, <3>2 DEF FactsHeard, Newest
  <2>15. PositionsKept' /\ EntriesKnown'
    BY <1>t, <2>2 DEF PositionsKept, EntriesKnown, D!EntriesKnown
  <2> QED
    BY <2>12, <2>13, <2>14, <2>15 DEF ReplayInv
<1>3. CASE D!Read
  <2>1. PICK t \in D!Later, a \in Traded, top \in Tops :
          clock' = t /\ reading' = [kind |-> "record", asset |-> a, top |-> top, at |-> t]
    BY <1>3 DEF D!Read
  <2>2. /\ reading.kind = "idle"
        /\ UNCHANGED <<quoted, points, signal, tops, last, simulated, decided>>
    BY <1>3 DEF D!Read
  <2>3. t \in Nat /\ t >= clock
    <3>1. PICK d \in Steps : t = clock + d
      BY DEF D!Later
    <3> QED
      BY <1>n, <1>i, <3>1, ReplayConstants DEF D!ReplayAssumption
  <2>4. reading' \in ReplayReading /\ reading'.kind = "record" /\ reading'.at = t
    BY <2>1, <2>3, ReplayConstants DEF D!ReplayAssumption, ReplayReading
  <2>5. t >= reading.at
    BY <1>t, <1>n, <1>i, <2>2, <2>3 DEF DatesInOrder
  <2>6. ReplayTypes'
    BY <1>t, <2>1, <2>2, <2>3, <2>4 DEF ReplayTypes
  <2>7. DatesInOrder'
    <3>1. \A s \in D!Sources : quoted[s].recv <= clock'
      BY <1>t, <1>n, <1>i, <2>1, <2>3 DEF DatesInOrder
    <3>2. \A b \in D!Assets : last[b] <= t /\ (tops[b].recv # D!Never => tops[b].recv <= t)
      BY <1>t, <1>n, <1>i, <2>3, <2>5, Times DEF DatesInOrder
    <3> QED
      BY <1>t, <2>1, <2>2, <2>3, <2>4, <3>1, <3>2 DEF DatesInOrder
  <2>8. FactsHeard' /\ PositionsKept' /\ EntriesKnown'
    BY <1>t, <2>2, <2>4
       DEF FactsHeard, Newest, D!Heard, PositionsKept, EntriesKnown, D!EntriesKnown
  <2> QED
    BY <2>6, <2>7, <2>8 DEF ReplayInv
<1>4. CASE D!End
  <2>1. /\ reading' = [reading EXCEPT !.kind = "end", !.at = @ + Extra]
        /\ UNCHANGED <<clock, quoted, points, signal, tops, last, simulated, decided>>
    BY <1>4 DEF D!End
  <2>2. reading' \in ReplayReading /\ reading'.kind = "end" /\ reading'.at = reading.at + Extra
    BY <1>n, <2>1, EndedReading, Times
  <2>3. ReplayTypes'
    BY <1>t, <2>1, <2>2 DEF ReplayTypes
  <2>4. DatesInOrder'
    <3>1. \A a \in D!Assets : last[a] <= reading.at + Extra
                             /\ (tops[a].recv # D!Never => tops[a].recv <= reading.at + Extra)
      BY <1>t, <1>n, <1>i, Times DEF DatesInOrder
    <3> QED
      BY <1>t, <2>1, <2>2, <3>1 DEF DatesInOrder
  <2>5. FactsHeard' /\ PositionsKept' /\ EntriesKnown'
    BY <1>t, <2>1, <2>2
       DEF FactsHeard, Newest, D!Heard, PositionsKept, EntriesKnown, D!EntriesKnown
  <2> QED
    BY <2>3, <2>4, <2>5 DEF ReplayInv
<1>5. CASE D!Heartbeat
  <2>1. /\ reading.kind \in {"record", "end"} /\ D!Overdue # {}
        /\ UNCHANGED <<clock, reading, quoted, points, tops>>
    BY <1>5 DEF D!Heartbeat
  <2>2. D!NextOverdue \in D!Overdue
    BY <2>1 DEF D!NextOverdue, D!Overdue, D!Assets
  <2>3. PICK a \in D!Assets : a = D!NextOverdue
    BY <2>2 DEF D!Overdue
  <2>4. last[a] = D!Never \/ reading.at - last[a] >= Interval
    BY <2>2, <2>3 DEF D!Overdue
  <2>5. PICK t \in Nat : t = IF last[a] = D!Never THEN reading.at ELSE last[a] + Interval
    BY <1>n, <1>i, Times
  <2>6. D!Decide(a, t)
    BY <1>5, <2>3, <2>5 DEF D!Heartbeat
  <2>7. t <= reading.at /\ last[a] <= t
    BY <1>n, <1>i, <2>4, <2>5, Times
  <2>8. tops[a].recv <= t
    <3>1. CASE tops[a].recv = D!Never
      BY <3>1, Times
    <3>2. CASE tops[a].recv # D!Never
      <4>1. last[a] # D!Never /\ tops[a].recv < last[a] + Interval
        BY <1>t, <3>2 DEF DatesInOrder
      <4> QED
        BY <1>n, <1>i, <2>5, <4>1, Times
    <3> QED
      BY <3>1, <3>2
  <2>9. /\ reading' \in ReplayReading /\ reading'.at = reading.at /\ reading'.kind # "applied"
        /\ reading'.kind # "end" => reading.at <= clock
    BY <1>t, <1>n, <1>i, <2>1 DEF DatesInOrder
  <2> QED
    BY <2>1, <2>6, <2>7, <2>8, <2>9, DecisionKeeps
<1>6. CASE D!ApplyBook
  <2>1. /\ reading.kind = "record" /\ D!Overdue = {}
        /\ reading' = [reading EXCEPT !.kind = "applied"]
        /\ tops' = [tops EXCEPT ![reading.asset] = [top |-> reading.top, recv |-> reading.at]]
        /\ UNCHANGED <<clock, quoted, points, signal, last, simulated, decided>>
    BY <1>6 DEF D!ApplyBook
  <2>2. reading' \in ReplayReading /\ reading'.kind = "applied" /\ reading'.at = reading.at
    BY <1>n, <1>i, <2>1 DEF ReplayReading
  <2>3. \A a \in D!Assets : last[a] # D!Never /\ reading.at - last[a] < Interval
    BY <1>n, <1>i, <2>1, Times DEF D!Overdue
  <2>4. /\ DOMAIN tops' = D!Assets
        /\ \A a \in D!Assets : tops'[a].recv \in {tops[a].recv, reading.at}
    BY <1>t, <2>1 DEF ReplayTypes
  <2>5. \A a \in D!Assets : tops'[a].recv \in Time
    BY <1>n, <1>i, <2>4, Times
  <2>6. ReplayTypes'
    BY <1>t, <2>1, <2>2, <2>4, <2>5 DEF ReplayTypes
  <2>7. DatesInOrder'
    <3>1. ASSUME NEW a \in D!Assets, tops'[a].recv # D!Never
          PROVE  /\ last[a] # D!Never /\ tops'[a].recv < last[a] + Interval
                 /\ tops'[a].recv <= reading.at
      <4>1. CASE tops'[a].recv = reading.at
        BY <1>n, <1>i, <2>3, <4>1, Times
      <4>2. CASE tops'[a].recv # reading.at
        BY <1>t, <2>4, <3>1, <4>2 DEF DatesInOrder
      <4> QED
        BY <4>1, <4>2
    <3> QED
      BY <1>t, <2>1, <2>2, <3>1 DEF DatesInOrder
  <2>8. FactsHeard' /\ EntriesKnown'
    BY <1>t, <2>1 DEF FactsHeard, Newest, D!Heard, EntriesKnown, D!EntriesKnown
  <2>9. PositionsKept'
    BY <1>t, <2>1, <2>2, <2>3 DEF PositionsKept
  <2> QED
    BY <2>6, <2>7, <2>8, <2>9 DEF ReplayInv
<1>7. CASE D!OnBookUpdate
  <2>1. /\ reading.kind = "applied"
        /\ reading' = [D!Idle EXCEPT !.at = reading.at]
        /\ UNCHANGED <<clock, quoted, points, tops>>
    BY <1>7 DEF D!OnBookUpdate
  <2>2. reading' \in ReplayReading /\ reading'.kind = "idle" /\ reading'.at = reading.at
    BY <1>n, <1>i, <2>1 DEF ReplayReading, D!Idle, D!Assets
  <2>3. reading.at <= clock
    BY <1>t, <2>1 DEF DatesInOrder
  <2>4. CASE UNCHANGED <<signal, last, simulated, decided>>
    BY <1>t, <2>1, <2>2, <2>3, <2>4
       DEF ReplayInv, ReplayTypes, DatesInOrder, FactsHeard, Newest, D!Heard, PositionsKept,
           EntriesKnown, D!EntriesKnown
  <2>5. CASE D!Decide(reading.asset, reading.at)
    <3>1. PICK a \in D!Assets : a = reading.asset
      BY <1>n DEF ReplayReading
    <3>2. PICK t \in Nat : t = reading.at
      BY <1>n
    <3>3. D!Decide(a, t)
      BY <2>5, <3>1, <3>2
    <3>4. last[a] <= t /\ t <= reading.at
      BY <1>t, <1>n, <1>i, <3>2 DEF DatesInOrder
    <3>5. tops[a].recv <= t
      <4>1. CASE tops[a].recv = D!Never
        BY <4>1, Times
      <4>2. CASE tops[a].recv # D!Never
        BY <1>t, <3>2, <4>2 DEF DatesInOrder
      <4> QED
        BY <4>1, <4>2
    <3>6. reading'.kind # "applied"
      BY <2>2
    <3> QED
      BY <2>1, <2>2, <2>3, <3>3, <3>4, <3>5, <3>6, DecisionKeeps
  <2> QED
    BY <1>7, <2>4, <2>5 DEF D!OnBookUpdate
<1> QED
  BY <1>1, <1>2, <1>3, <1>4, <1>5, <1>6, <1>7 DEF D!Next

(* A position of the replay is entered by a decision that rests on facts   *)
(* received by its own date, whatever the lags and the two clocks, though  *)
(* heartbeats are made up for later (core/replay, core/decision_engine).   *)
THEOREM EntriesKnownCorrect == D!Spec => []EntriesKnown
<1>1. D!Init => ReplayInv
  BY ReplayInvInit
<1>2. ReplayInv /\ [D!Next]_(D!vars) => ReplayInv'
  BY ReplayInvStep
<1>3. ReplayInv => EntriesKnown
  BY ReplayInvImplies
<1> QED
  BY <1>1, <1>2, <1>3, PTL DEF D!Spec

(* By the tape, no position is older than the longest hold and one         *)
(* heartbeat, whatever has become of its price and its book.               *)
THEOREM PositionsEndCorrect == D!Spec => []PositionsEnd
<1>1. D!Init => ReplayInv
  BY ReplayInvInit
<1>2. ReplayInv /\ [D!Next]_(D!vars) => ReplayInv'
  BY ReplayInvStep
<1>3. ReplayInv => PositionsEnd
  BY ReplayInvImplies
<1> QED
  BY <1>1, <1>2, <1>3, PTL DEF D!Spec

=============================================================================
