------------------------ MODULE MarketQuoting_proofs ------------------------
(***************************************************************************)
(* Proofs about quoting for every set of markets, every size and cap, any  *)
(* number of active markets, and every book and tick: the quotes of the    *)
(* cycle (QuotingCycle) and the prices they are given (QuotePrices).       *)
(***************************************************************************)
EXTENDS MarketQuoting, SequenceTheorems, WellFoundedInduction, TLAPS

-----------------------------------------------------------------------------
(* Sequences.                                                              *)

LEMMA Prefix ==
  ASSUME NEW S, NEW s \in Seq(S), NEW n \in 0..Len(s)
  PROVE  SubSeq(s, 1, n) \in Seq(S) /\ Len(SubSeq(s, 1, n)) = n
OBVIOUS

LEMMA DropLast ==
  ASSUME NEW S, NEW s \in Seq(S), s # <<>>
  PROVE  /\ SubSeq(s, 1, Len(s) - 1) \in Seq(S)
         /\ Len(SubSeq(s, 1, Len(s) - 1)) = Len(s) - 1
         /\ Len(s) \in Nat \ {0}
         /\ s[Len(s)] \in S
<1>1. Len(s) \in Nat \ {0}
  OBVIOUS
<1>2. s[Len(s)] \in S
  BY <1>1
<1> DEFINE n == Len(s) - 1
<1>3. n \in 0..Len(s)
  BY <1>1
<1> HIDE DEF n
<1>4. SubSeq(s, 1, n) \in Seq(S) /\ Len(SubSeq(s, 1, n)) = n
  BY <1>3, Prefix, Zenon
<1> QED
  BY <1>1, <1>2, <1>4, Zenon DEF n

LEMMA DropOne ==
  ASSUME NEW S, NEW s \in Seq(S), NEW i \in 1..Len(s)
  PROVE  /\ SubSeq(s, 1, i - 1) \o SubSeq(s, i + 1, Len(s)) \in Seq(S)
         /\ Len(SubSeq(s, 1, i - 1) \o SubSeq(s, i + 1, Len(s))) = Len(s) - 1
<1> DEFINE front == SubSeq(s, 1, i - 1)
           back == SubSeq(s, i + 1, Len(s))
<1>1. front \in Seq(S) /\ Len(front) = i - 1
  OBVIOUS
<1>2. back \in Seq(S) /\ Len(back) = Len(s) - i
  OBVIOUS
<1>3. Len(s) \in Nat
  OBVIOUS
<1> HIDE DEF front, back
<1>4. front \o back \in Seq(S) /\ Len(front \o back) = Len(front) + Len(back)
  BY <1>1, <1>2, ConcatProperties, Zenon
<1>5. Len(front) + Len(back) = Len(s) - 1
  BY <1>1, <1>2, <1>3
<1> QED
  BY <1>4, <1>5, Zenon DEF front, back

LEMMA AddLast ==
  ASSUME NEW S, NEW s \in Seq(S), NEW e \in S
  PROVE  /\ Append(s, e) \in Seq(S)
         /\ Len(Append(s, e)) = Len(s) + 1
         /\ Append(s, e)[Len(s) + 1] = e
OBVIOUS

LEMMA EmptyIsNoLength ==
  ASSUME NEW S, NEW s \in Seq(S)
  PROVE  Len(s) = 0 <=> s = <<>>
OBVIOUS

LEMMA OnlyElement ==
  ASSUME NEW S, NEW s \in Seq(S), s # <<>>, Len(s) <= 1
  PROVE  Len(s) = 1
<1> DEFINE n == Len(s)
<1>1. n \in Nat
  OBVIOUS
<1>2. n # 0
  BY EmptyIsNoLength, Zenon
<1>3. n <= 1
  OBVIOUS
<1> HIDE DEF n
<1>4. n = 1
  BY <1>1, <1>2, <1>3
<1> QED
  BY <1>4 DEF n

-----------------------------------------------------------------------------
(* Tokens and sizes.                                                       *)

LEMMA KeyParts ==
  ASSUME NEW k \in Key
  PROVE  /\ k[1] \in Tokens /\ k[2] \in Sides
         /\ k[2] = "buy" \/ k[2] = "sell"
         /\ k = <<k[1], k[2]>>
BY DEF Key, Sides

LEMMA OutcomeTokens ==
  ASSUME NEW m \in Markets
  PROVE  Outcomes[m][1] \in Tokens /\ Outcomes[m][2] \in Tokens
BY DEF Tokens

LEMMA OtherToken ==
  ASSUME NEW t \in Tokens
  PROVE  Other(t) \in Tokens
<1>1. \E m \in Markets : t \in {Outcomes[m][1], Outcomes[m][2]}
  BY DEF Tokens
<1>2. MarketOf(t) \in Markets
  BY <1>1 DEF MarketOf
<1> QED
  BY <1>2, OutcomeTokens DEF Other

LEMMA MaxIsPositive == EffectiveMax \in Nat \ {0}
BY SizesAssumption DEF EffectiveMax, Smaller

\* Sizes are whole lots, boosted or not.
LEMMA TradeSizesNatural == TradeSizes \subseteq Nat
<1>1. TradeSize \in Nat
  BY SizesAssumption
<1>2. TradeSize * ArbFactor \in Nat
  BY SizesAssumption
<1> QED
  BY <1>1, <1>2, Zenon DEF TradeSizes

LEMMA QuoteSizeType ==
  ASSUME TypeOK, NEW k \in Key
  PROVE  /\ QuoteSize(k) \in Nat
         /\ k[2] = "sell" => QuoteSize(k) <= held[k[1]]
<1> DEFINE t == k[1]
           net == NetLong(t)
           room == EffectiveMax - net
           scale == Larger(0, EffectiveMax - SkewFactor * net)
           boost == EffectiveMax + SkewFactor * Smaller(net, EffectiveMax)
<1>1. t \in Tokens
  BY DEF Key
<1>2. held[t] \in Nat /\ held[Other(t)] \in Nat
  BY <1>1, OtherToken DEF TypeOK
<1>3. net \in Nat
  BY <1>2 DEF NetLong, Larger
<1>4. trade \in Nat
  BY TradeSizesNatural DEF TypeOK
<1>5. SkewFactor \in Nat /\ MinOrder \in Nat
  BY SizesAssumption
<1> HIDE DEF net
<1>6. SkewFactor * net \in Nat
  BY <1>3, <1>5
<1>7. scale \in Nat
  BY <1>6, MaxIsPositive DEF Larger
<1>8. boost \in Nat
  <2>1. Smaller(net, EffectiveMax) \in Nat
    BY <1>3, MaxIsPositive DEF Smaller
  <2>2. SkewFactor * Smaller(net, EffectiveMax) \in Nat
    BY <1>5, <2>1
  <2> QED
    BY <2>2, MaxIsPositive
<1> HIDE DEF scale, boost
<1>9. ASSUME NEW n \in Nat
      PROVE  n \div EffectiveMax \in Nat
  BY MaxIsPositive
<1>10. room > 0 => (Smaller(trade, room) * scale) \div EffectiveMax \in Nat
  <2> SUFFICES ASSUME room > 0
               PROVE  (Smaller(trade, room) * scale) \div EffectiveMax \in Nat
    OBVIOUS
  <2>1. Smaller(trade, room) \in Nat
    BY <1>3, <1>4, MaxIsPositive DEF Smaller
  <2>2. Smaller(trade, room) * scale \in Nat
    BY <1>7, <2>1
  <2> QED
    BY <1>9, <2>2
<1>11. (trade * boost) \div EffectiveMax \in Nat
  <2>1. trade * boost \in Nat
    BY <1>4, <1>8
  <2> QED
    BY <1>9, <2>1
<1>12. BuySize(t) \in Nat
  BY <1>5, <1>10, Zenon DEF BuySize, OrNothing, room, scale, net
<1>13. SellSize(t) \in Nat /\ SellSize(t) <= held[t]
  <2>1. SellSize(t) = OrNothing(Smaller(held[t], (trade * boost) \div EffectiveMax))
    BY DEF SellSize, boost, net
  <2> QED
    BY <1>2, <1>5, <1>11, <2>1 DEF OrNothing, Smaller
<1> QED
  BY <1>12, <1>13 DEF QuoteSize

LEMMA PositionType ==
  ASSUME NEW pos \in [Tokens -> Nat], NEW k \in Key, NEW q \in Nat
  PROVE  /\ PositionAfter(pos, k, q) \in [Tokens -> Nat]
         /\ \A t \in Tokens \ {k[1]} : PositionAfter(pos, k, q)[t] = pos[t]
         /\ k[2] = "buy" => PositionAfter(pos, k, q)[k[1]] >= pos[k[1]]
         /\ k[2] = "sell" => PositionAfter(pos, k, q)[k[1]] <= pos[k[1]]
<1>1. k[1] \in Tokens /\ pos[k[1]] \in Nat
  BY DEF Key
<1>2. pos[k[1]] + q \in Nat /\ pos[k[1]] + q >= pos[k[1]]
  BY <1>1
<1>3. Larger(0, pos[k[1]] - q) \in Nat /\ Larger(0, pos[k[1]] - q) <= pos[k[1]]
  BY <1>1 DEF Larger
<1> QED
  BY <1>1, <1>2, <1>3, KeyParts DEF PositionAfter, Sides

LEMMA FillSizes ==
  ASSUME NEW size \in Nat, NEW q \in Fills(size)
  PROVE  q \in Nat /\ q <= size
BY SizesAssumption DEF Fills

LEMMA FreshOrder ==
  ASSUME NEW size \in Nat \ {0}
  PROVE  /\ [size |-> size, aged |-> FALSE] \in Order
         /\ ~Differs([size |-> size, aged |-> FALSE], size)
BY DEF Order, Differs, Larger
-----------------------------------------------------------------------------
(* What settling one key can do.                                           *)

\* The open orders of the key become none, or stay within one.  One that is
\* left is what was desired, to within the tolerance, and nothing traded.
LEMMA PlaceEffect ==
  ASSUME TypeOK, NEW k \in Key, NEW orders \in Seq(Order), NEW size \in Nat \ {0},
         Place(k, orders, size)
  PROVE  /\ position' \in [Tokens -> Nat]
         /\ resting' \in [Key -> Seq(Order)]
         /\ wanted' \in [Key -> Nat]
         /\ \A j \in Key \ {k} : resting'[j] = resting[j] /\ wanted'[j] = wanted[j]
         /\ \A t \in Tokens \ {k[1]} : position'[t] = position[t]
         /\ k[2] = "buy" => position'[k[1]] >= position[k[1]]
         /\ k[2] = "sell" => position'[k[1]] <= position[k[1]]
         /\ orders = <<>> =>
              \/ resting'[k] = <<>> /\ wanted'[k] = 0
              \/ /\ Len(resting'[k]) = 1
                 /\ wanted'[k] = size
                 /\ position' = position
                 /\ ~Differs(resting'[k][1], size)
<1> USE DEF TypeOK
<1>0. position[k[1]] \in Nat
  BY DEF Key
<1>1. CASE /\ resting' = [resting EXCEPT ![k] = Append(orders, [size |-> size, aged |-> FALSE])]
           /\ wanted' = [wanted EXCEPT ![k] = size]
           /\ UNCHANGED position
  <2> DEFINE o == [size |-> size, aged |-> FALSE]
  <2>1. o \in Order /\ ~Differs(o, size)
    BY FreshOrder
  <2> HIDE DEF o
  <2>2. Append(orders, o) \in Seq(Order)
    BY <2>1
  <2>3. resting' = [resting EXCEPT ![k] = Append(orders, o)]
    BY <1>1 DEF o
  <2>4. orders = <<>> => Len(Append(orders, o)) = 1 /\ Append(orders, o)[1] = o
    BY <2>1
  <2> QED
    BY <1>0, <1>1, <2>1, <2>2, <2>3, <2>4
<1>2. ASSUME NEW q \in Fills(size),
             resting' = [resting EXCEPT ![k] = orders],
             position' = PositionAfter(position, k, q),
             wanted' = [wanted EXCEPT ![k] = 0]
      PROVE  /\ position' \in [Tokens -> Nat]
             /\ resting' \in [Key -> Seq(Order)]
             /\ wanted' \in [Key -> Nat]
             /\ \A j \in Key \ {k} : resting'[j] = resting[j] /\ wanted'[j] = wanted[j]
             /\ \A t \in Tokens \ {k[1]} : position'[t] = position[t]
             /\ k[2] = "buy" => position'[k[1]] >= position[k[1]]
             /\ k[2] = "sell" => position'[k[1]] <= position[k[1]]
             /\ orders = <<>> => resting'[k] = <<>> /\ wanted'[k] = 0
  <2>1. q \in Nat
    BY FillSizes
  <2>2. position \in [Tokens -> Nat]
    OBVIOUS
  <2>3. /\ PositionAfter(position, k, q) \in [Tokens -> Nat]
        /\ \A t \in Tokens \ {k[1]} : PositionAfter(position, k, q)[t] = position[t]
        /\ k[2] = "buy" => PositionAfter(position, k, q)[k[1]] >= position[k[1]]
        /\ k[2] = "sell" => PositionAfter(position, k, q)[k[1]] <= position[k[1]]
    BY <2>1, <2>2, PositionType, Zenon
  <2> QED
    BY <1>2, <2>3
<1> QED
  BY <1>1, <1>2 DEF Place

LEMMA SettleEffect ==
  ASSUME TypeOK, NEW m \in Markets, NEW k \in Key, NEW desired \in Nat,
         NEW moved \in BOOLEAN, Settle(m, k, desired, moved)
  PROVE  /\ position' \in [Tokens -> Nat]
         /\ resting' \in [Key -> Seq(Order)]
         /\ wanted' \in [Key -> Nat]
         /\ \A j \in Key \ {k} : resting'[j] = resting[j] /\ wanted'[j] = wanted[j]
         /\ \A t \in Tokens \ {k[1]} : position'[t] = position[t]
         /\ k[2] = "buy" => position'[k[1]] >= position[k[1]]
         /\ k[2] = "sell" => position'[k[1]] <= position[k[1]]
         /\ Len(resting[k]) <= 1 =>
              \/ /\ resting'[k] = <<>>
                 /\ wanted'[k] = 0 \/ (wanted'[k] = wanted[k] /\ ~OwnKey(m, k))
              \/ /\ desired > 0
                 /\ Len(resting'[k]) = 1
                 /\ wanted'[k] = desired
                 /\ position' = position
                 /\ ~Differs(resting'[k][1], desired)
<1> DEFINE orders == resting[k]
           cleared == [wanted EXCEPT ![k] = IF OwnKey(m, k) THEN 0 ELSE @]
<1>1. /\ orders \in Seq(Order) /\ Len(orders) \in Nat
      /\ position \in [Tokens -> Nat] /\ position[k[1]] \in Nat
  BY DEF TypeOK, Key
<1>2. /\ cleared \in [Key -> Nat] /\ \A j \in Key \ {k} : cleared[j] = wanted[j]
      /\ cleared[k] = 0 \/ (cleared[k] = wanted[k] /\ ~OwnKey(m, k))
  BY DEF TypeOK
<1>3. orders # <<>> =>
        /\ WithoutNewest(orders) \in Seq(Order)
        /\ Len(WithoutNewest(orders)) = Len(orders) - 1
  BY <1>1, DropLast, Zenon DEF WithoutNewest
<1>4. orders # <<>> /\ Len(orders) <= 1 =>
        /\ WithoutNewest(orders) = <<>>
        /\ Len(orders) = 1
        /\ Newest(orders) = orders[1]
  <2> SUFFICES ASSUME orders # <<>>, Len(orders) <= 1
               PROVE  /\ WithoutNewest(orders) = <<>>
                      /\ Len(orders) = 1
                      /\ Newest(orders) = orders[1]
    OBVIOUS
  <2>1. Len(orders) = 1
    BY <1>1, OnlyElement, Zenon
  <2> QED
    BY <1>1, <1>3, <2>1, EmptyIsNoLength DEF Newest
<1> HIDE DEF cleared
<1>5. CASE desired = 0 /\ orders = <<>> /\ wanted' = cleared /\ UNCHANGED <<position, resting>>
  BY <1>1, <1>2, <1>5 DEF TypeOK
<1>6. CASE /\ desired = 0 /\ orders # <<>>
           /\ resting' = [resting EXCEPT ![k] = WithoutNewest(@)]
           /\ wanted' = cleared /\ UNCHANGED position
  BY <1>1, <1>2, <1>3, <1>4, <1>6 DEF TypeOK
<1>7. CASE desired > 0 /\ orders = <<>> /\ Place(k, orders, desired)
  <2>1. desired \in Nat \ {0}
    BY <1>7
  <2> QED
    BY <1>1, <1>7, <2>1, PlaceEffect, Zenon
<1>8. CASE desired > 0 /\ orders # <<>> /\ Place(k, WithoutNewest(orders), desired)
  BY <1>1, <1>3, <1>4, <1>8, PlaceEffect
<1>9. CASE /\ desired > 0 /\ orders # <<>>
           /\ ~Replaces(Newest(orders), desired, moved)
           /\ wanted' = [wanted EXCEPT ![k] = desired]
           /\ UNCHANGED <<position, resting>>
  BY <1>1, <1>4, <1>9 DEF TypeOK, Replaces
<1> QED
  BY <1>5, <1>6, <1>7, <1>8, <1>9 DEF Settle, KnownOrders, cleared
-----------------------------------------------------------------------------
(* Type correctness.                                                       *)

\* Between passes no key is being settled.
IdleHasNoKey == at = 0 => key = 0

LEMMA KeyIndex ==
  ASSUME TypeOK
  PROVE  /\ DOMAIN Keys = 1..Len(Keys) /\ DOMAIN Keys \subseteq Nat
         /\ Len(Keys) \in Nat /\ key \in Nat
<1>1. Keys \in Seq(Key)
  BY KeysAssumption
<1>2. DOMAIN Keys = 1..Len(Keys) /\ Len(Keys) \in Nat
  BY <1>1
<1> QED
  BY <1>2 DEF TypeOK

LEMMA SelectionType ==
  ASSUME NEW selection \in Selections
  PROVE  selection \in Seq(Markets) /\ (selection # <<>> => Len(selection) \in Nat \ {0})
<1>1. PICK n \in 0..MaxActive : selection \in [1..n -> Markets]
  BY DEF Selections
<1>2. n \in Nat
  BY <1>1, CapsAssumption
<1>3. selection \in Seq(Markets)
  BY <1>1, <1>2, SeqDef
<1>4. selection # <<>> => Len(selection) # 0
  BY <1>3, EmptyIsNoLength, Zenon
<1> QED
  BY <1>3, <1>4

LEMMA IterateType ==
  ASSUME TypeOK, IdleHasNoKey, NEW selection \in Selections, Iterate(selection)
  PROVE  TypeOK' /\ IdleHasNoKey'
<1>1. active' \in Seq(Markets) /\ at' \in 0..Len(active')
  BY SelectionType DEF Iterate
<1>2. CASE selection = <<>>
  BY <1>1, <1>2 DEF Iterate, TypeOK, IdleHasNoKey
<1>3. CASE selection # <<>>
  <2>1. PICK over \in BOOLEAN : buysAllowed' = ~(over \/ TooManyHold(selection))
    BY <1>3 DEF Iterate
  <2>2. buysAllowed' \in BOOLEAN
    BY <2>1, Zenon
  <2>3. wanted' \in [Key -> Nat]
    BY <1>3 DEF Iterate
  <2> QED
    BY <1>1, <2>2, <2>3 DEF Iterate, TypeOK, IdleHasNoKey
<1> QED
  BY <1>2, <1>3

LEMMA ActiveMarket ==
  ASSUME TypeOK, at > 0
  PROVE  active[at] \in Markets
BY DEF TypeOK

LEMMA MergedType ==
  ASSUME TypeOK, NEW m \in Markets
  PROVE  /\ Merged(m) \in [Tokens -> Nat]
         /\ \A t \in Tokens \ {Outcomes[m][1], Outcomes[m][2]} :
              Merged(m)[t] = position[t]
<1> DEFINE a == Outcomes[m][1]
           b == Outcomes[m][2]
           amount == Smaller(position[a], position[b])
<1>1. a \in Tokens /\ b \in Tokens /\ a # b
  BY OutcomeTokens, OutcomesAssumption
<1>2. position[a] \in Nat /\ position[b] \in Nat
  BY <1>1 DEF TypeOK
<1>3. position[a] - amount \in Nat /\ position[b] - amount \in Nat
  BY <1>2 DEF Smaller
<1>4. Merged(m) = IF amount >= MinMerge
                    THEN [position EXCEPT ![a] = @ - amount, ![b] = @ - amount]
                    ELSE position
  BY DEF Merged
<1> HIDE DEF amount
<1> QED
  BY <1>1, <1>3, <1>4 DEF TypeOK

LEMMA StartMarketType ==
  ASSUME TypeOK, StartMarket
  PROVE  TypeOK' /\ IdleHasNoKey'
<1>1. position' \in [Tokens -> Nat] /\ held' \in [Tokens -> Nat]
  BY ActiveMarket, MergedType DEF StartMarket
<1>2. key' \in 0..Len(Keys)
  <2>1. Keys \in Seq(Key) /\ active[at] \in Markets
    BY KeysAssumption, ActiveMarket DEF StartMarket
  <2>2. <<Outcomes[active[at]][1], "buy">> \in Key
    BY <2>1, OutcomeTokens DEF Key, Sides
  <2>3. PICK i \in DOMAIN Keys : Keys[i] = <<Outcomes[active[at]][1], "buy">>
    BY <2>2, KeysAssumption, Zenon
  <2>4. i \in 1..Len(Keys) /\ Len(Keys) \in Nat
    BY <2>1, <2>3
  <2> QED
    BY <2>4 DEF StartMarket
<1> QED
  BY <1>1, <1>2 DEF StartMarket, TypeOK, IdleHasNoKey

\* The key a step settles, and the size it wants there.
LEMMA SettlingKey ==
  ASSUME TypeOK, SettleKey
  PROVE  /\ Keys[key] \in Key
         /\ key \in 1..Len(Keys)
         /\ active[at] \in Markets
         /\ \E desired \in Nat, moved \in BOOLEAN :
              /\ Settle(active[at], Keys[key], desired, moved)
              /\ desired > 0 => OwnKey(active[at], Keys[key]) /\ desired = QuoteSize(Keys[key])
<1>1. key \in 1..Len(Keys) /\ Keys \in Seq(Key)
  BY KeysAssumption DEF TypeOK, SettleKey
<1>2. Keys[key] \in Key
  BY <1>1
<1>3. active[at] \in Markets
  BY ActiveMarket DEF SettleKey
<1>4. QuoteSize(Keys[key]) \in Nat
  BY <1>2, QuoteSizeType
<1>5. PICK through \in BOOLEAN, moved \in BOOLEAN :
        Settle(active[at], Keys[key],
               IF through /\ OwnKey(active[at], Keys[key]) THEN QuoteSize(Keys[key]) ELSE 0,
               moved)
  BY DEF SettleKey
<1>6. CASE through /\ OwnKey(active[at], Keys[key])
  BY <1>1, <1>2, <1>3, <1>4, <1>5, <1>6
<1>7. CASE ~(through /\ OwnKey(active[at], Keys[key]))
  <2>1. Settle(active[at], Keys[key], 0, moved) /\ 0 \in Nat
    BY <1>5, <1>7
  <2> QED
    BY <1>1, <1>2, <1>3, <2>1
<1> QED
  BY <1>6, <1>7

LEMMA SettleKeyType ==
  ASSUME TypeOK, IdleHasNoKey, SettleKey
  PROVE  TypeOK' /\ IdleHasNoKey'
<1>1. /\ position' \in [Tokens -> Nat]
      /\ resting' \in [Key -> Seq(Order)]
      /\ wanted' \in [Key -> Nat]
  BY SettlingKey, SettleEffect
<1>2. key \in 1..Len(Keys) /\ Len(Keys) \in Nat
  BY SettlingKey, KeysAssumption
<1>3. at \in 1..Len(active) /\ Len(active) \in Nat
  BY DEF SettleKey, TypeOK
<1>4. key' \in 0..Len(Keys) /\ at' \in 0..Len(active') /\ IdleHasNoKey'
  BY <1>2, <1>3 DEF SettleKey, IdleHasNoKey
<1>5. trade' \in TradeSizes \cup {0} /\ held' \in [Tokens -> Nat]
  BY DEF SettleKey, TypeOK, Nothing
<1> QED
  BY <1>1, <1>4, <1>5 DEF SettleKey, TypeOK

LEMMA RestingOrder ==
  ASSUME TypeOK, NEW k \in Key, NEW i \in DOMAIN resting[k]
  PROVE  /\ resting[k] \in Seq(Order)
         /\ i \in 1..Len(resting[k])
         /\ resting[k][i] \in Order
         /\ resting[k][i].size \in Nat \ {0}
<1>1. resting[k] \in Seq(Order)
  BY DEF TypeOK
<1>2. i \in 1..Len(resting[k]) /\ resting[k][i] \in Order
  BY <1>1
<1> QED
  BY <1>1, <1>2 DEF Order

\* What a trade changes.
LEMMA TradeEffect ==
  ASSUME TypeOK, NEW k \in Key, NEW i \in DOMAIN resting[k],
         NEW q \in Fills(resting[k][i].size), Trade(k, i, q)
  PROVE  /\ position' \in [Tokens -> Nat]
         /\ resting' \in [Key -> Seq(Order)]
         /\ wanted' \in [Key -> Nat]
         /\ Len(resting'[k]) = Len(resting[k]) - 1
         /\ Len(resting[k]) \in Nat
         /\ \A j \in Key \ {k} : resting'[j] = resting[j] /\ wanted'[j] = wanted[j]
         /\ \A t \in Tokens \ {k[1]} : position'[t] = position[t]
         /\ k[2] = "buy" => position'[k[1]] >= position[k[1]]
         /\ k[2] = "sell" => position'[k[1]] <= position[k[1]]
<1> DEFINE rest == SubSeq(resting[k], 1, i - 1) \o SubSeq(resting[k], i + 1, Len(resting[k]))
<1>1. q \in Nat
  <2>1. resting[k][i].size \in Nat
    BY RestingOrder
  <2> QED
    BY <2>1, FillSizes
<1>2. position \in [Tokens -> Nat]
  BY DEF TypeOK
<1>3. /\ PositionAfter(position, k, q) \in [Tokens -> Nat]
      /\ \A t \in Tokens \ {k[1]} : PositionAfter(position, k, q)[t] = position[t]
      /\ k[2] = "buy" => PositionAfter(position, k, q)[k[1]] >= position[k[1]]
      /\ k[2] = "sell" => PositionAfter(position, k, q)[k[1]] <= position[k[1]]
  BY <1>1, <1>2, PositionType, Zenon
<1>4. rest \in Seq(Order) /\ Len(rest) = Len(resting[k]) - 1
  <2>1. resting[k] \in Seq(Order) /\ i \in 1..Len(resting[k])
    BY RestingOrder, Zenon
  <2> QED
    BY <2>1, DropOne, Zenon
<1>5. Len(resting[k]) \in Nat
  BY RestingOrder
<1>6. resting' = [resting EXCEPT ![k] = rest]
  BY DEF Trade
<1>7. wanted' = [wanted EXCEPT ![k] = 0] /\ position' = PositionAfter(position, k, q)
  BY DEF Trade
<1> HIDE DEF rest
<1> QED
  BY <1>3, <1>4, <1>5, <1>6, <1>7 DEF TypeOK

\* Ageing changes no size.
LEMMA AgeEffect ==
  ASSUME TypeOK, NEW k \in Key, NEW i \in DOMAIN resting[k], Age(k, i)
  PROVE  /\ resting' \in [Key -> Seq(Order)]
         /\ \A j \in Key :
              /\ Len(resting'[j]) = Len(resting[j])
              /\ DOMAIN resting'[j] = DOMAIN resting[j]
              /\ resting'[j] # <<>> => resting[j] # <<>>
              /\ \A h \in DOMAIN resting[j] : resting'[j][h].size = resting[j][h].size
<1> DEFINE older == [resting[k] EXCEPT ![i].aged = TRUE]
<1>1. /\ resting[k] \in Seq(Order) /\ i \in 1..Len(resting[k])
      /\ resting[k][i] \in Order
  BY RestingOrder
<1>2. [resting[k][i] EXCEPT !.aged = TRUE] \in Order
  BY <1>1 DEF Order
<1>3. /\ older \in Seq(Order) /\ Len(older) = Len(resting[k])
      /\ DOMAIN older = DOMAIN resting[k]
  BY <1>1, <1>2
<1>4. \A h \in DOMAIN resting[k] : older[h].size = resting[k][h].size
  BY <1>1 DEF Order
<1>5. resting' = [resting EXCEPT ![k] = older]
  BY DEF Age
<1>6. resting[k] # <<>>
  BY <1>1
<1> HIDE DEF older
<1> QED
  BY <1>3, <1>4, <1>5, <1>6 DEF TypeOK

LEMMA NextType == TypeOK /\ IdleHasNoKey /\ [Next]_vars => TypeOK' /\ IdleHasNoKey'
<1> SUFFICES ASSUME TypeOK, IdleHasNoKey, [Next]_vars
             PROVE  TypeOK' /\ IdleHasNoKey'
  OBVIOUS
<1>1. CASE \E selection \in Selections : Iterate(selection)
  BY <1>1, IterateType
<1>2. CASE StartMarket
  BY <1>2, StartMarketType
<1>3. CASE SettleKey
  BY <1>3, SettleKeyType
<1>4. ASSUME NEW k \in Key, NEW i \in DOMAIN resting[k],
             NEW q \in Fills(resting[k][i].size), Trade(k, i, q)
      PROVE  TypeOK' /\ IdleHasNoKey'
  BY <1>4, TradeEffect DEF Trade, TypeOK, IdleHasNoKey
<1>5. ASSUME NEW k \in Key, NEW i \in DOMAIN resting[k], Age(k, i)
      PROVE  TypeOK' /\ IdleHasNoKey'
  BY <1>5, AgeEffect DEF Age, TypeOK, IdleHasNoKey
<1>6. CASE UNCHANGED vars
  BY <1>6 DEF vars, TypeOK, IdleHasNoKey
<1> QED
  BY <1>1, <1>2, <1>3, <1>4, <1>5, <1>6 DEF Next

\* Holdings and sizes stay natural numbers and the loop stays within its
\* markets and keys, for every size, cap and set of markets.
THEOREM TypeCorrect == Spec => []TypeOK
<1>1. Init => TypeOK /\ IdleHasNoKey
  BY KeysAssumption DEF Init, TypeOK, IdleHasNoKey, Nothing
<1> QED
  BY <1>1, NextType, PTL DEF Spec
-----------------------------------------------------------------------------
(* One open order per key.                                                 *)

LEMMA KeepsOneOrder ==
  ASSUME TypeOK, OneOrderPerQuote, [Next]_vars
  PROVE  OneOrderPerQuote'
<1> SUFFICES ASSUME NEW j \in Key
             PROVE  Len(resting'[j]) <= 1
  BY DEF OneOrderPerQuote
<1>0. Len(resting[j]) <= 1 /\ Len(<<>>) = 0
  BY DEF OneOrderPerQuote
<1>1. CASE UNCHANGED resting
  BY <1>0, <1>1
<1>2. CASE SettleKey
  <2>1. Len(resting[Keys[key]]) <= 1
    BY <1>2, SettlingKey DEF OneOrderPerQuote
  <2>2. CASE j = Keys[key]
    <3>1. /\ resting'[j] = <<>> \/ Len(resting'[j]) = 1
          /\ resting'[j] \in Seq(Order)
      BY <1>2, <2>1, <2>2, SettlingKey, SettleEffect
    <3>2. resting'[j] = <<>> => Len(resting'[j]) = 0
      BY <3>1, EmptyIsNoLength, Zenon
    <3>3. Len(resting'[j]) = 0 \/ Len(resting'[j]) = 1
      BY <3>1, <3>2, Zenon
    <3>4. 0 <= 1 /\ 1 <= 1
      OBVIOUS
    <3> QED
      BY <3>3, <3>4, Zenon
  <2>3. CASE j # Keys[key]
    <3>1. resting'[j] = resting[j]
      BY <1>2, <2>3, SettlingKey, SettleEffect
    <3> QED
      BY <1>0, <3>1
  <2> QED
    BY <2>2, <2>3
<1>3. ASSUME NEW k \in Key, NEW i \in DOMAIN resting[k],
             NEW q \in Fills(resting[k][i].size), Trade(k, i, q)
      PROVE  Len(resting'[j]) <= 1
  <2>1. Len(resting[k]) <= 1
    BY DEF OneOrderPerQuote
  <2>2. CASE j = k
    <3>1. Len(resting'[k]) = Len(resting[k]) - 1 /\ Len(resting[k]) \in Nat
      BY <1>3, TradeEffect, Zenon
    <3> QED
      BY <2>1, <2>2, <3>1
  <2>3. CASE j # k
    <3>1. resting'[j] = resting[j]
      BY <1>3, <2>3, TradeEffect
    <3> QED
      BY <1>0, <3>1
  <2> QED
    BY <2>2, <2>3
<1>4. ASSUME NEW k \in Key, NEW i \in DOMAIN resting[k], Age(k, i)
      PROVE  Len(resting'[j]) <= 1
  BY <1>0, <1>4, AgeEffect
<1> QED
  BY <1>1, <1>2, <1>3, <1>4 DEF Next, Iterate, StartMarket, vars

\* The planner is never left with an open order it cannot see: replacements,
\* fills and dropped markets leave at most one open order per key.
THEOREM OneOrderCorrect == Spec => []OneOrderPerQuote
<1>1. Init => TypeOK /\ IdleHasNoKey /\ OneOrderPerQuote
  BY KeysAssumption DEF Init, TypeOK, IdleHasNoKey, Nothing, OneOrderPerQuote
<1> QED
  BY <1>1, NextType, KeepsOneOrder, PTL DEF Spec

-----------------------------------------------------------------------------
(* What is on offer was wanted.                                            *)

\* A key the market being quoted has still to settle.
Unsettled(k) == \E i \in DOMAIN Keys : Keys[i] = k /\ i >= key

\* Only the first market of a pass can find orders nobody wants any more.
WantedInv ==
  \A k \in Key : resting[k] # <<>> => wanted[k] > 0 \/ (at = 1 /\ Unsettled(k))

LEMMA EveryKeyListed ==
  ASSUME NEW k \in Key
  PROVE  \E i \in DOMAIN Keys : Keys[i] = k /\ i >= 0 /\ i >= 1
<1>1. PICK i \in DOMAIN Keys : Keys[i] = k
  BY KeysAssumption
<1>2. i \in 1..Len(Keys)
  BY KeysAssumption
<1> QED
  BY <1>1, <1>2

\* Once a key is settled, another unsettled one is still to come.
LEMMA StillUnsettled ==
  ASSUME TypeOK, SettleKey, NEW j \in Key, j # Keys[key], Unsettled(j)
  PROVE  key < Len(Keys) /\ key' = key + 1 /\ at' = at /\ Unsettled(j)'
<1>1. PICK i \in DOMAIN Keys : Keys[i] = j /\ i >= key
  BY DEF Unsettled
<1>2. i \in 1..Len(Keys) /\ Len(Keys) \in Nat /\ key \in Nat
  BY KeysAssumption DEF TypeOK
<1>3. i # key
  BY <1>1
<1>4. i >= key + 1 /\ key < Len(Keys)
  BY <1>1, <1>2, <1>3
<1>5. key' = key + 1 /\ at' = at
  BY <1>4 DEF SettleKey
<1> QED
  BY <1>1, <1>4, <1>5 DEF Unsettled

LEMMA KeepsWanted ==
  ASSUME TypeOK, IdleHasNoKey, OneOrderPerQuote, WantedInv, [Next]_vars
  PROVE  WantedInv'
<1> SUFFICES ASSUME NEW j \in Key, resting'[j] # <<>>
             PROVE  wanted'[j] > 0 \/ (at' = 1 /\ Unsettled(j)')
  BY DEF WantedInv
<1>1. CASE \E selection \in Selections : Iterate(selection)
  <2>1. PICK selection \in Selections : Iterate(selection)
    BY <1>1
  <2>2. key' = 0
    BY <2>1 DEF Iterate, IdleHasNoKey
  <2>3. CASE selection = <<>>
    BY <2>1, <2>3 DEF Iterate, WantedInv
  <2>4. CASE selection # <<>>
    <3>1. Unsettled(j)'
      BY <2>2, EveryKeyListed DEF Unsettled
    <3> QED
      BY <2>1, <2>4, <3>1 DEF Iterate
  <2> QED
    BY <2>3, <2>4
<1>2. CASE StartMarket
  <2>1. Unsettled(j)'
    BY <1>2, EveryKeyListed DEF Unsettled, StartMarket
  <2> QED
    BY <1>2, <2>1 DEF StartMarket, WantedInv
<1>3. CASE SettleKey
  <2>1. Len(resting[Keys[key]]) <= 1
    BY <1>3, SettlingKey DEF OneOrderPerQuote
  <2>2. CASE j = Keys[key]
    BY <1>3, <2>1, <2>2, SettlingKey, SettleEffect
  <2>3. CASE j # Keys[key]
    <3>1. resting'[j] = resting[j] /\ wanted'[j] = wanted[j]
      BY <1>3, <2>3, SettlingKey, SettleEffect
    <3> QED
      BY <1>3, <2>3, <3>1, StillUnsettled DEF WantedInv
  <2> QED
    BY <2>2, <2>3
<1>4. ASSUME NEW k \in Key, NEW i \in DOMAIN resting[k],
             NEW q \in Fills(resting[k][i].size), Trade(k, i, q)
      PROVE  wanted'[j] > 0 \/ (at' = 1 /\ Unsettled(j)')
  <2>1. Len(resting[k]) <= 1
    BY DEF OneOrderPerQuote
  <2>2. resting'[k] \in Seq(Order) /\ Len(resting'[k]) \in Nat
    BY <1>4, TradeEffect
  <2>3. resting'[k] = <<>>
    <3>1. Len(resting'[k]) = 0
      BY <1>4, <2>1, <2>2, TradeEffect
    <3> QED
      BY <2>2, <3>1, EmptyIsNoLength, Zenon
  <2>4. j # k
    BY <2>3
  <2> QED
    BY <1>4, <2>4, TradeEffect DEF Trade, WantedInv
<1>5. ASSUME NEW k \in Key, NEW i \in DOMAIN resting[k], Age(k, i)
      PROVE  wanted'[j] > 0 \/ (at' = 1 /\ Unsettled(j)')
  <2>1. resting[j] # <<>>
    BY <1>5, AgeEffect
  <2> QED
    BY <1>5, <2>1 DEF Age, WantedInv
<1>6. CASE UNCHANGED vars
  BY <1>6 DEF vars, WantedInv, Unsettled
<1> QED
  BY <1>1, <1>2, <1>3, <1>4, <1>5, <1>6 DEF Next

\* Whatever the filters stopped and whichever market was dropped, its quotes
\* are off the market when the next pass is over.
THEOREM UnwantedCorrect == Spec => []NothingUnwantedOnOffer
<1>1. Init => TypeOK /\ IdleHasNoKey /\ OneOrderPerQuote /\ WantedInv
  BY KeysAssumption DEF Init, TypeOK, IdleHasNoKey, Nothing, OneOrderPerQuote, WantedInv
<1>2. WantedInv => NothingUnwantedOnOffer
  BY DEF WantedInv, NothingUnwantedOnOffer
<1> QED
  BY <1>1, <1>2, NextType, KeepsOneOrder, KeepsWanted, PTL DEF Spec
-----------------------------------------------------------------------------
(* Buys of a capped pass.                                                  *)

\* A pass without a balance wants no buy: those of earlier passes are
\* forgotten when it starts, and none is sized while it lasts.
CappedInv == ~buysAllowed => \A t \in Tokens : wanted[<<t, "buy">>] = 0

LEMMA BuyKey ==
  ASSUME NEW t \in Tokens
  PROVE  <<t, "buy">> \in Key
BY DEF Key, Sides

\* What is settled with nothing desired is wanted no more than before.
LEMMA NothingDesired ==
  ASSUME TypeOK, NEW m \in Markets, NEW k \in Key, NEW moved \in BOOLEAN,
         Settle(m, k, 0, moved), wanted[k] = 0
  PROVE  wanted'[k] = 0
BY DEF Settle, TypeOK

LEMMA CappedBuySize ==
  ASSUME NEW t \in Tokens, ~buysAllowed
  PROVE  QuoteSize(<<t, "buy">>) = 0
BY DEF QuoteSize, BuySize

LEMMA KeepsCapped ==
  ASSUME TypeOK, CappedInv, [Next]_vars
  PROVE  CappedInv'
<1> SUFFICES ASSUME ~buysAllowed', NEW t \in Tokens
             PROVE  wanted'[<<t, "buy">>] = 0
  BY DEF CappedInv
<1> DEFINE buy == <<t, "buy">>
<1>1. buy \in Key
  BY BuyKey
<1>2. CASE \E selection \in Selections : Iterate(selection)
  <2>1. PICK selection \in Selections : Iterate(selection)
    BY <1>2
  <2>2. CASE selection = <<>>
    BY <2>1, <2>2 DEF Iterate, CappedInv
  <2>3. CASE selection # <<>>
    BY <1>1, <2>1, <2>3 DEF Iterate
  <2> QED
    BY <2>2, <2>3
<1>3. CASE StartMarket
  BY <1>3 DEF StartMarket, CappedInv
<1>4. CASE SettleKey
  <2>1. ~buysAllowed /\ wanted[buy] = 0
    BY <1>4 DEF SettleKey, CappedInv
  <2>2. PICK desired \in Nat, moved \in BOOLEAN :
          /\ Settle(active[at], Keys[key], desired, moved)
          /\ desired > 0 => OwnKey(active[at], Keys[key]) /\ desired = QuoteSize(Keys[key])
    BY <1>4, SettlingKey
  <2>3. Keys[key] \in Key /\ active[at] \in Markets
    BY <1>4, SettlingKey
  <2>4. CASE buy = Keys[key]
    <3>1. QuoteSize(Keys[key]) = 0
      BY <2>1, <2>4, CappedBuySize
    <3>2. desired = 0
      BY <2>2, <3>1
    <3> QED
      BY <2>1, <2>2, <2>3, <2>4, <3>2, NothingDesired
  <2>5. CASE buy # Keys[key]
    <3>1. \A j \in Key \ {Keys[key]} : wanted'[j] = wanted[j]
      <4>1. Settle(active[at], Keys[key], desired, moved)
        BY <2>2
      <4> QED
        BY <2>3, <4>1, SettleEffect, SMTT(60)
    <3> QED
      BY <1>1, <2>1, <2>5, <3>1
  <2> QED
    BY <2>4, <2>5
<1>5. ASSUME NEW k \in Key, NEW i \in DOMAIN resting[k],
             NEW q \in Fills(resting[k][i].size), Trade(k, i, q)
      PROVE  wanted'[buy] = 0
  <2>1. wanted' = [wanted EXCEPT ![k] = 0]
    BY <1>5 DEF Trade
  <2>2. wanted[buy] = 0
    BY <1>5 DEF Trade, CappedInv
  <2> QED
    BY <1>1, <2>1, <2>2 DEF TypeOK
<1>6. ASSUME NEW k \in Key, NEW i \in DOMAIN resting[k], Age(k, i)
      PROVE  wanted'[buy] = 0
  BY <1>6 DEF Age, CappedInv
<1>7. CASE UNCHANGED vars
  BY <1>7 DEF vars, CappedInv
<1> QED
  BY <1>2, <1>3, <1>4, <1>5, <1>6, <1>7 DEF Next

\* After a pass that the aggregate caps left without a balance, no buy of any
\* earlier pass is left on the market.
THEOREM CappedCorrect == Spec => []CappedPassLeavesNoBuys
<1>1. Init => TypeOK /\ IdleHasNoKey /\ OneOrderPerQuote /\ WantedInv /\ CappedInv
  BY KeysAssumption DEF Init, TypeOK, IdleHasNoKey, Nothing, OneOrderPerQuote, WantedInv,
                        CappedInv
<1>2. WantedInv /\ CappedInv => CappedPassLeavesNoBuys
  <2> SUFFICES ASSUME WantedInv, CappedInv, at = 0, ~buysAllowed, NEW t \in Tokens
               PROVE  resting[<<t, "buy">>] = <<>>
    BY DEF CappedPassLeavesNoBuys
  <2>1. wanted[<<t, "buy">>] = 0 /\ <<t, "buy">> \in Key
    BY BuyKey DEF CappedInv
  <2> QED
    BY <2>1 DEF WantedInv
<1> QED
  BY <1>1, <1>2, NextType, KeepsOneOrder, KeepsWanted, KeepsCapped, PTL DEF Spec
-----------------------------------------------------------------------------
(* Sells against holdings.                                                 *)

Near(t) ==
  \A i \in DOMAIN resting[<<t, "sell">>] :
    10 * (resting[<<t, "sell">>][i].size - position[t]) <= resting[<<t, "sell">>][i].size

\* The market being quoted has still to settle the sell of t.
SellPending(t) ==
  /\ at > 0 /\ key > 0
  /\ OwnKey(active[at], <<t, "sell">>)
  /\ Unsettled(<<t, "sell">>)

\* A merge may leave a sell uncovered until its key is settled, against a
\* snapshot that is no more than what is then held.
SellsInv == \A t \in Tokens : Near(t) \/ SellPending(t)
HeldInv == \A t \in Tokens : SellPending(t) => held[t] <= position[t]

LEMMA SellKey ==
  ASSUME NEW t \in Tokens
  PROVE  <<t, "sell">> \in Key
BY DEF Key, Sides

\* More held, the same order: a covered sell stays covered.
LEMMA MoreIsNear ==
  ASSUME TypeOK, TypeOK', NEW t \in Tokens, Near(t),
         resting'[<<t, "sell">>] = resting[<<t, "sell">>], position'[t] >= position[t]
  PROVE  Near(t)'
<1> SUFFICES ASSUME NEW i \in DOMAIN resting'[<<t, "sell">>]
             PROVE  10 * (resting'[<<t, "sell">>][i].size - position'[t])
                      <= resting'[<<t, "sell">>][i].size
  BY DEF Near
<1> DEFINE size == resting[<<t, "sell">>][i].size
<1>1. size \in Nat
  BY SellKey, RestingOrder
<1>2. position[t] \in Nat /\ position'[t] \in Nat
  BY DEF TypeOK
<1>3. 10 * (size - position[t]) <= size
  BY DEF Near
<1>4. resting'[<<t, "sell">>][i].size = size
  OBVIOUS
<1> HIDE DEF size
<1> QED
  BY <1>1, <1>2, <1>3, <1>4

LEMMA NoSellIsNear ==
  ASSUME NEW t \in Tokens, resting'[<<t, "sell">>] = <<>>
  PROVE  Near(t)'
BY DEF Near

\* Settling a sell covers it.
LEMMA SettledSell ==
  ASSUME TypeOK, TypeOK', OneOrderPerQuote, HeldInv, SettleKey,
         NEW t \in Tokens, Keys[key] = <<t, "sell">>
  PROVE  Near(t)'
<1> DEFINE k == Keys[key]
           o == resting'[k][1]
<1>1. k \in Key /\ key \in 1..Len(Keys) /\ active[at] \in Markets
  BY SettlingKey
<1>2. PICK desired \in Nat, moved \in BOOLEAN :
        /\ Settle(active[at], k, desired, moved)
        /\ desired > 0 => OwnKey(active[at], k) /\ desired = QuoteSize(k)
  BY SettlingKey
<1>3. Len(resting[k]) <= 1
  BY <1>1 DEF OneOrderPerQuote
<1>4. CASE resting'[k] = <<>>
  BY <1>4, NoSellIsNear
<1>5. CASE /\ desired > 0 /\ Len(resting'[k]) = 1
           /\ position' = position /\ ~Differs(o, desired)
  <2>1. SellPending(t)
    <3>1. key \in DOMAIN Keys /\ key >= key
      BY <1>1, KeysAssumption
    <3> QED
      BY <1>2, <1>5, <3>1 DEF SellPending, Unsettled, SettleKey
  <2>2. desired <= held[t]
    BY <1>1, <1>2, <1>5, QuoteSizeType
  <2>3. desired <= position'[t]
    <3>1. held[t] \in Nat /\ position[t] \in Nat /\ held[t] <= position[t]
      BY <2>1 DEF HeldInv, TypeOK
    <3> QED
      BY <1>5, <2>2, <3>1
  <2>4. DOMAIN resting'[k] = {1} /\ o \in Order
    <3>1. resting'[k] \in Seq(Order)
      BY <1>1 DEF TypeOK
    <3> QED
      BY <1>5, <3>1
  <2>5. o.size \in Nat
    BY <2>4 DEF Order
  <2>6. position'[t] \in Nat
    BY DEF TypeOK
  <2>7. 10 * (o.size - desired) <= o.size
    BY <1>5, <2>5 DEF Differs, Larger
  <2>8. 10 * (o.size - position'[t]) <= o.size
    <3> DEFINE size == o.size
    <3>1. size \in Nat /\ 10 * (size - desired) <= size
      BY <2>5, <2>7
    <3> HIDE DEF size, o
    <3> QED
      BY <2>3, <2>6, <3>1 DEF size
  <2> QED
    BY <2>4, <2>8 DEF Near
<1> QED
  BY <1>1, <1>2, <1>3, <1>4, <1>5, SettleEffect

\* Settling a key leaves the sell of any other key as it was.
LEMMA OtherSell ==
  ASSUME TypeOK, SettleKey, NEW t \in Tokens, Keys[key] # <<t, "sell">>
  PROVE  /\ resting'[<<t, "sell">>] = resting[<<t, "sell">>]
         /\ position'[t] >= position[t]
<1>1. PICK desired \in Nat, moved \in BOOLEAN :
        Settle(active[at], Keys[key], desired, moved)
  BY SettlingKey
<1>2. Keys[key] \in Key /\ active[at] \in Markets
  BY SettlingKey
<1>3. resting'[<<t, "sell">>] = resting[<<t, "sell">>]
  BY <1>1, <1>2, SettleEffect, SellKey
<1>4. position[t] \in Nat
  BY DEF TypeOK
<1>5. CASE Keys[key][1] # t
  <2>1. position'[t] = position[t]
    BY <1>1, <1>2, <1>5, SettleEffect
  <2> QED
    BY <1>3, <1>4, <2>1
<1>6. CASE Keys[key][1] = t
  <2>1. Keys[key][2] = "buy"
    BY <1>2, <1>6, KeyParts DEF Sides
  <2> QED
    BY <1>1, <1>2, <1>3, <1>6, <2>1, SettleEffect
<1> QED
  BY <1>5, <1>6

LEMMA KeepsSells ==
  ASSUME TypeOK, TypeOK', IdleHasNoKey, OneOrderPerQuote, SellsInv, HeldInv, [Next]_vars
  PROVE  SellsInv' /\ HeldInv'
<1> SUFFICES ASSUME NEW t \in Tokens
             PROVE  /\ Near(t)' \/ SellPending(t)'
                    /\ SellPending(t)' => held'[t] <= position'[t]
  BY DEF SellsInv, HeldInv
<1>0. position[t] \in Nat /\ position'[t] \in Nat
  BY DEF TypeOK
<1>1. ASSUME at = 0
      PROVE  Near(t)
  BY <1>1 DEF SellsInv, SellPending
<1>2. CASE \E selection \in Selections : Iterate(selection)
  <2>1. at = 0 /\ UNCHANGED <<resting, position>> /\ key' = 0
    BY <1>2 DEF Iterate, IdleHasNoKey
  <2>2. Near(t)'
    BY <1>0, <1>1, <2>1, MoreIsNear
  <2> QED
    BY <2>1, <2>2 DEF SellPending
<1>3. CASE StartMarket
  <2>1. held'[t] <= position'[t]
    BY <1>0, <1>3 DEF StartMarket
  <2>2. CASE OwnKey(active[at], <<t, "sell">>)
    <3>1. SellPending(t)'
      <4>1. \E i \in DOMAIN Keys : Keys[i] = <<t, "sell">> /\ i >= 1
        BY SellKey, EveryKeyListed
      <4> QED
        BY <1>3, <2>2, <4>1 DEF SellPending, Unsettled, StartMarket, OwnKey
    <3> QED
      BY <2>1, <3>1
  <2>3. CASE ~OwnKey(active[at], <<t, "sell">>)
    <3>1. active[at] \in Markets
      BY <1>3, ActiveMarket DEF StartMarket
    <3>2. t \notin {Outcomes[active[at]][1], Outcomes[active[at]][2]}
      BY <2>3 DEF OwnKey
    <3>3. position'[t] = position[t]
      BY <1>3, <3>1, <3>2, MergedType DEF StartMarket
    <3>4. Near(t)
      BY <1>3, <2>3 DEF SellsInv, SellPending
    <3>5. Near(t)'
      BY <1>0, <1>3, <3>3, <3>4, MoreIsNear DEF StartMarket
    <3> QED
      BY <2>1, <3>5
  <2> QED
    BY <2>2, <2>3
<1>4. CASE SettleKey
  <2>1. CASE Keys[key] = <<t, "sell">>
    <3>1. Near(t)'
      BY <1>4, <2>1, SettledSell
    <3>2. ~SellPending(t)'
      <4> SUFFICES ASSUME SellPending(t)'
                   PROVE  FALSE
        OBVIOUS
      <4>1. PICK i \in DOMAIN Keys : Keys[i] = <<t, "sell">> /\ i >= key' /\ key' > 0
        BY DEF SellPending, Unsettled
      <4>2. key \in DOMAIN Keys /\ key \in Nat
        BY <1>4, SettlingKey, KeyIndex
      <4>3. i = key
        BY <2>1, <4>1, <4>2, KeysAssumption
      <4>4. key' = key + 1
        BY <1>4, <4>1 DEF SettleKey
      <4> QED
        BY <4>1, <4>2, <4>3, <4>4
    <3> QED
      BY <3>1, <3>2
  <2>2. CASE Keys[key] # <<t, "sell">>
    <3>1. resting'[<<t, "sell">>] = resting[<<t, "sell">>] /\ position'[t] >= position[t]
      BY <1>4, <2>2, OtherSell
    <3>2. ASSUME SellPending(t)
          PROVE  SellPending(t)' /\ held'[t] <= position'[t]
      <4>1. key < Len(Keys) /\ key' = key + 1 /\ at' = at /\ Unsettled(<<t, "sell">>)'
        BY <1>4, <2>2, <3>2, SellKey, StillUnsettled DEF SellPending
      <4>2. held' = held /\ active' = active
        BY <1>4, <4>1 DEF SettleKey
      <4>3. key \in Nat
        BY DEF TypeOK
      <4>4. held[t] <= position[t] /\ held[t] \in Nat
        BY <3>2 DEF HeldInv, TypeOK
      <4> QED
        BY <1>0, <3>1, <3>2, <4>1, <4>2, <4>3, <4>4 DEF SellPending, OwnKey
    <3>3. CASE SellPending(t)
      BY <3>2, <3>3
    <3>4. CASE ~SellPending(t)
      <4>1. Near(t)'
        BY <3>1, <3>4, MoreIsNear DEF SellsInv
      <4>2. ~SellPending(t)'
        <5> SUFFICES ASSUME SellPending(t)'
                     PROVE  FALSE
          OBVIOUS
        <5>1. key' = key + 1 /\ at' = at /\ active' = active /\ at > 0 /\ key > 0
          BY <1>4 DEF SettleKey, SellPending
        <5>2. PICK i \in DOMAIN Keys : Keys[i] = <<t, "sell">> /\ i >= key + 1
          BY <5>1 DEF SellPending, Unsettled
        <5>3. i \in Nat /\ key \in Nat
          BY KeyIndex
        <5>4. Unsettled(<<t, "sell">>)
          BY <5>2, <5>3 DEF Unsettled
        <5> QED
          BY <3>4, <5>1, <5>4 DEF SellPending, OwnKey
      <4> QED
        BY <4>1, <4>2
    <3> QED
      BY <3>3, <3>4
  <2> QED
    BY <2>1, <2>2
<1>5. ASSUME NEW k \in Key, NEW i \in DOMAIN resting[k],
             NEW q \in Fills(resting[k][i].size), Trade(k, i, q)
      PROVE  /\ Near(t)' \/ SellPending(t)'
             /\ SellPending(t)' => held'[t] <= position'[t]
  <2>1. at' = 0 /\ at = 0
    BY <1>5 DEF Trade
  <2>2. Near(t)
    BY <1>1, <2>1
  <2>3. CASE k = <<t, "sell">>
    <3>1. Len(resting[k]) <= 1
      BY DEF OneOrderPerQuote
    <3>2. resting'[k] \in Seq(Order) /\ Len(resting'[k]) \in Nat
      BY <1>5, TradeEffect
    <3>4. Len(resting'[k]) = 0
      BY <1>5, <3>1, <3>2, TradeEffect
    <3>5. resting'[k] = <<>>
      BY <3>2, <3>4, EmptyIsNoLength, Zenon
    <3> QED
      BY <2>1, <2>3, <3>5, NoSellIsNear DEF SellPending
  <2>4. CASE k # <<t, "sell">>
    <3>1. resting'[<<t, "sell">>] = resting[<<t, "sell">>]
      BY <1>5, <2>4, TradeEffect, SellKey
    <3>2. position'[t] >= position[t]
      <4>1. CASE k[1] = t
        <5>1. k[2] = "buy"
          BY <2>4, <4>1, KeyParts DEF Sides
        <5> QED
          BY <1>5, <4>1, <5>1, TradeEffect
      <4>2. CASE k[1] # t
        <5>1. position'[t] = position[t]
          BY <1>5, <4>2, TradeEffect
        <5> QED
          BY <1>0, <5>1
      <4> QED
        BY <4>1, <4>2
    <3> QED
      BY <2>1, <2>2, <3>1, <3>2, MoreIsNear DEF SellPending
  <2> QED
    BY <2>3, <2>4
<1>6. ASSUME NEW k \in Key, NEW i \in DOMAIN resting[k], Age(k, i)
      PROVE  /\ Near(t)' \/ SellPending(t)'
             /\ SellPending(t)' => held'[t] <= position'[t]
  <2>1. at' = 0 /\ at = 0 /\ position' = position
    BY <1>6 DEF Age
  <2>2. Near(t)
    BY <1>1, <2>1
  <2>3. /\ DOMAIN resting'[<<t, "sell">>] = DOMAIN resting[<<t, "sell">>]
        /\ \A h \in DOMAIN resting[<<t, "sell">>] :
             resting'[<<t, "sell">>][h].size = resting[<<t, "sell">>][h].size
    BY <1>6, AgeEffect, SellKey
  <2>4. Near(t)'
    BY <2>1, <2>2, <2>3 DEF Near
  <2> QED
    BY <2>1, <2>4 DEF SellPending
<1>7. CASE UNCHANGED vars
  BY <1>7 DEF vars, SellsInv, HeldInv, Near, SellPending, Unsettled, OwnKey
<1> QED
  BY <1>2, <1>3, <1>4, <1>5, <1>6, <1>7 DEF Next

\* Between passes an open sell exceeds what is held by no more than the
\* tolerance of the diffing, for every size, cap and set of markets: merges
\* are the only step that uncovers a sell, and the same pass follows them up.
THEOREM SellsCorrect == Spec => []SellsNearlyCovered
<1>1. Init => /\ TypeOK /\ IdleHasNoKey /\ OneOrderPerQuote
              /\ SellsInv /\ HeldInv
  BY KeysAssumption, SellKey DEF Init, TypeOK, IdleHasNoKey, Nothing, OneOrderPerQuote,
                        SellsInv, HeldInv, Near, SellPending
<1>2. SellsInv => SellsNearlyCovered
  <2> SUFFICES ASSUME SellsInv, at = 0, NEW t \in Tokens
               PROVE  Near(t)
    BY DEF SellsNearlyCovered, Near
  <2>1. ~SellPending(t)
    BY DEF SellPending
  <2> QED
    BY <2>1 DEF SellsInv
<1> QED
  BY <1>1, <1>2, NextType, KeepsOneOrder, KeepsSells, PTL DEF Spec
-----------------------------------------------------------------------------
(* Holdings against max_size.                                              *)

\* What is held of t, with the buy on offer filled, is within its bound.
BuyOf(t) == resting[<<t, "buy">>]
Fits(t) ==
  /\ position[t] <= HoldingMax
  /\ \A i \in DOMAIN BuyOf(t) : position[t] + BuyOf(t)[i].size <= HoldingMax

\* The market being quoted has still to settle the key.
Pending(k) == at > 0 /\ key > 0 /\ OwnKey(active[at], k) /\ Unsettled(k)

(***************************************************************************)
(* Buys are sized from a snapshot in which one outcome of the market is    *)
(* held in no more than what cannot be merged; until the buy of a token is *)
(* settled no more is held of it than the snapshot says.                   *)
(***************************************************************************)
Unmerged == Larger(MinMerge - 1, 0)
SnapshotMerged ==
  at > 0 /\ key > 0 =>
    \A t \in Tokens : OwnKey(active[at], <<t, "buy">>) =>
      Smaller(held[t], held[Other(t)]) <= Unmerged
RoomInv == /\ \A t \in Tokens : Fits(t)
           /\ \A t \in Tokens : Pending(<<t, "buy">>) => position[t] <= held[t]
           /\ SnapshotMerged

LEMMA OtherOutcome ==
  ASSUME NEW m \in Markets
  PROVE  Other(Outcomes[m][1]) = Outcomes[m][2] /\ Other(Outcomes[m][2]) = Outcomes[m][1]
<1>1. ASSUME NEW t \in {Outcomes[m][1], Outcomes[m][2]}
      PROVE  MarketOf(t) = m
  <2>1. MarketOf(t) \in Markets /\ t \in {Outcomes[MarketOf(t)][1], Outcomes[MarketOf(t)][2]}
    BY <1>1 DEF MarketOf
  <2> QED
    BY <1>1, <2>1, OutcomesAssumption
<1>2. Outcomes[m][1] # Outcomes[m][2]
  BY OutcomesAssumption
<1> QED
  BY <1>1, <1>2 DEF Other

LEMMA ScaledDown ==
  ASSUME NEW a \in Nat, NEW s \in Nat, NEW e \in Nat \ {0}, s <= e
  PROVE  (a * s) \div e <= a
<1>1. a * s \in Nat /\ a * s <= e * a
  OBVIOUS
<1> DEFINE n == a * s
<1> HIDE DEF n
<1>2. n \in Nat /\ n <= e * a
  BY <1>1 DEF n
<1>3. n \div e <= a
  BY <1>2
<1> QED
  BY <1>3 DEF n

\* A buy is no larger than the room that the net exposure leaves, so that it
\* fits what is held of the token when the other outcome is almost merged.
LEMMA BuyFits ==
  ASSUME TypeOK, NEW t \in Tokens, Smaller(held[t], held[Other(t)]) <= Unmerged,
         BuySize(t) > 0
  PROVE  held[t] + BuySize(t) <= HoldingMax
<1> DEFINE net == NetLong(t)
           room == EffectiveMax - net
           scale == Larger(0, EffectiveMax - SkewFactor * net)
           a == Smaller(trade, room)
<1>1. held[t] \in Nat /\ held[Other(t)] \in Nat /\ trade \in Nat
  BY OtherToken, TradeSizesNatural DEF TypeOK
<1>2. net \in Nat /\ held[t] <= net + Smaller(held[t], held[Other(t)])
  BY <1>1 DEF NetLong, Larger, Smaller
<1>3. Unmerged \in Nat
  BY SizesAssumption DEF Unmerged, Larger
<1>4. /\ room > 0 /\ OrNothing((a * scale) \div EffectiveMax) = BuySize(t)
  BY DEF BuySize
<1> HIDE DEF net
<1>5. SkewFactor * net \in Nat
  BY <1>2, SizesAssumption
<1>6. scale \in Nat /\ scale <= EffectiveMax
  BY <1>5, MaxIsPositive DEF Larger
<1>7. a \in Nat /\ a <= room /\ room \in Nat
  BY <1>1, <1>2, <1>4, MaxIsPositive DEF Smaller
<1> HIDE DEF scale, a
<1>8. (a * scale) \div EffectiveMax <= a
  BY <1>6, <1>7, MaxIsPositive, ScaledDown
<1>9. BuySize(t) = (a * scale) \div EffectiveMax
  BY <1>4 DEF OrNothing
<1>10. BuySize(t) <= room /\ BuySize(t) \in Int
  <2>1. a * scale \in Nat
    BY <1>6, <1>7
  <2>2. (a * scale) \div EffectiveMax \in Nat
    BY <2>1, MaxIsPositive
  <2> QED
    BY <1>7, <1>8, <1>9, <2>2
<1> DEFINE both == Smaller(held[t], held[Other(t)])
<1>11. both \in Nat /\ both <= Unmerged /\ held[t] <= net + both
  BY <1>1, <1>2 DEF Smaller
<1> HIDE DEF both
<1> QED
  BY <1>1, <1>2, <1>3, <1>10, <1>11, MaxIsPositive DEF HoldingMax, Unmerged


LEMMA LessFits ==
  ASSUME TypeOK, TypeOK', NEW t \in Tokens, Fits(t), BuyOf(t)' = BuyOf(t),
         position'[t] <= position[t]
  PROVE  Fits(t)'
<1>1. position[t] \in Nat /\ position'[t] \in Nat
  BY DEF TypeOK
<1>2. HoldingMax \in Nat
  BY MaxIsPositive, SizesAssumption DEF HoldingMax, Larger
<1>3. ASSUME NEW i \in DOMAIN BuyOf(t)
      PROVE  position'[t] + BuyOf(t)[i].size <= HoldingMax
  <2>1. BuyOf(t)[i].size \in Nat
    BY BuyKey, RestingOrder DEF BuyOf
  <2>2. position[t] + BuyOf(t)[i].size <= HoldingMax
    BY DEF Fits
  <2> QED
    BY <1>1, <1>2, <2>1, <2>2
<1>4. position'[t] <= HoldingMax
  BY <1>1, <1>2 DEF Fits
<1> QED
  BY <1>3, <1>4 DEF Fits

\* A buy that fits is placed, and may be filled at once.
LEMMA PlacedFits ==
  ASSUME TypeOK, NEW t \in Tokens, NEW size \in Nat \ {0}, Fits(t),
         position[t] + size <= HoldingMax, Place(<<t, "buy">>, <<>>, size)
  PROVE  Fits(t)'
<1> DEFINE k == <<t, "buy">>
<1>1. k \in Key /\ k[1] = t /\ k[2] = "buy" /\ position[t] \in Nat
  BY BuyKey DEF TypeOK
<1>2. HoldingMax \in Nat
  BY MaxIsPositive, SizesAssumption DEF HoldingMax, Larger
<1>3. CASE /\ resting' = [resting EXCEPT ![k] = Append(<<>>, [size |-> size, aged |-> FALSE])]
           /\ UNCHANGED position
  <2> DEFINE o == [size |-> size, aged |-> FALSE]
  <2>1. o \in Order /\ o.size = size
    BY DEF Order
  <2> HIDE DEF o
  <2>2. DOMAIN Append(<<>>, o) = {1} /\ Append(<<>>, o)[1] = o
    BY <2>1
  <2>3. BuyOf(t)' = Append(<<>>, o)
    BY <1>1, <1>3 DEF BuyOf, TypeOK, o
  <2> QED
    BY <1>3, <2>1, <2>2, <2>3 DEF Fits
<1>4. ASSUME NEW q \in Fills(size), resting' = [resting EXCEPT ![k] = <<>>],
             position' = PositionAfter(position, k, q)
      PROVE  Fits(t)'
  <2>1. q \in Nat /\ q <= size
    BY FillSizes
  <2>2. position'[t] = position[t] + q
    BY <1>1, <1>4 DEF PositionAfter, TypeOK
  <2>3. BuyOf(t)' = <<>>
    BY <1>1, <1>4 DEF BuyOf, TypeOK
  <2>4. DOMAIN BuyOf(t)' = {}
    BY <2>3
  <2> QED
    BY <1>1, <1>2, <2>1, <2>2, <2>4 DEF Fits
<1> QED
  BY <1>3, <1>4 DEF Place

\* Settling a buy: it stays, goes, or is placed for what fits.
LEMMA SettledFits ==
  ASSUME TypeOK, TypeOK', NEW t \in Tokens, NEW m \in Markets, NEW desired \in Nat,
         NEW moved \in BOOLEAN, Settle(m, <<t, "buy">>, desired, moved), Fits(t),
         Len(BuyOf(t)) <= 1, desired > 0 => position[t] + desired <= HoldingMax
  PROVE  Fits(t)'
<1> DEFINE k == <<t, "buy">>
           orders == resting[k]
<1>1. k \in Key /\ orders \in Seq(Order) /\ BuyOf(t) = orders /\ position[t] \in Nat
  BY BuyKey DEF TypeOK, BuyOf
<1>2. orders # <<>> => WithoutNewest(orders) = <<>>
  <2> SUFFICES ASSUME orders # <<>>
               PROVE  WithoutNewest(orders) = <<>>
    OBVIOUS
  <2>1. WithoutNewest(orders) \in Seq(Order) /\ Len(WithoutNewest(orders)) = Len(orders) - 1
    BY <1>1, DropLast, Zenon DEF WithoutNewest
  <2>2. Len(orders) = 1
    BY <1>1, OnlyElement, Zenon
  <2>3. Len(WithoutNewest(orders)) = 0
    BY <2>1, <2>2
  <2> QED
    BY <2>1, <2>3, EmptyIsNoLength, Zenon
<1>3. CASE UNCHANGED <<position, resting>>
  BY <1>1, <1>3, LessFits DEF BuyOf
<1>4. CASE /\ orders # <<>> /\ UNCHANGED position
           /\ resting' = [resting EXCEPT ![k] = WithoutNewest(@)]
  <2>1. BuyOf(t)' = <<>>
    BY <1>1, <1>2, <1>4 DEF BuyOf, TypeOK
  <2>2. DOMAIN BuyOf(t)' = {}
    BY <2>1
  <2> QED
    BY <1>4, <2>2 DEF Fits
<1>5. CASE desired > 0 /\ Place(k, <<>>, desired)
  BY <1>5, PlacedFits
<1> QED
  BY <1>2, <1>3, <1>4, <1>5 DEF Settle, KnownOrders

LEMMA PendingAfter ==
  ASSUME TypeOK, SettleKey, NEW k \in Key, Pending(k)'
  PROVE  /\ Pending(k) /\ k # Keys[key]
         /\ active' = active /\ at' = at /\ key > 0 /\ held' = held
<1>1. key' = key + 1 /\ at' = at /\ active' = active /\ held' = held /\ at > 0 /\ key > 0
  BY DEF SettleKey, Pending
<1>2. PICK i \in DOMAIN Keys : Keys[i] = k /\ i >= key + 1
  BY <1>1 DEF Pending, Unsettled
<1>3. i \in Nat /\ key \in Nat /\ key \in DOMAIN Keys
  BY KeyIndex, SettlingKey
<1>4. i >= key /\ i # key
  BY <1>2, <1>3
<1>5. k # Keys[key]
  BY <1>2, <1>3, <1>4, KeysAssumption
<1>6. OwnKey(active[at], k)
  BY <1>1 DEF Pending, OwnKey
<1> QED
  BY <1>1, <1>2, <1>4, <1>5, <1>6 DEF Pending, Unsettled

\* The snapshot is taken when the two outcomes are merged.
LEMMA StartRoom ==
  ASSUME TypeOK, TypeOK', RoomInv, StartMarket
  PROVE  RoomInv'
<1> DEFINE m == active[at]
           a == Outcomes[m][1]
           b == Outcomes[m][2]
           amount == Smaller(position[a], position[b])
<1>1. m \in Markets /\ a \in Tokens /\ b \in Tokens /\ a # b
  BY ActiveMarket, OutcomeTokens, OutcomesAssumption DEF StartMarket
<1>2. /\ position' = Merged(m) /\ held' = position'
      /\ UNCHANGED <<active, at, resting>>
  BY DEF StartMarket
<1>3. position[a] \in Nat /\ position[b] \in Nat
  BY <1>1 DEF TypeOK
<1>4. MinMerge \in Nat
  BY SizesAssumption
<1>5. /\ Smaller(position'[a], position'[b]) <= Unmerged
      /\ Smaller(position'[b], position'[a]) <= Unmerged
      /\ position'[a] <= position[a] /\ position'[b] <= position[b]
  <2>1. CASE amount >= MinMerge
    <3>1. position'[a] = position[a] - amount /\ position'[b] = position[b] - amount
      BY <1>1, <1>2, <2>1 DEF Merged, TypeOK
    <3> QED
      BY <1>3, <1>4, <3>1 DEF Smaller, Larger, Unmerged
  <2>2. CASE ~(amount >= MinMerge)
    <3>1. position' = position
      BY <1>2, <2>2 DEF Merged
    <3> QED
      BY <1>3, <1>4, <2>2, <3>1 DEF Smaller, Larger, Unmerged
  <2> QED
    BY <2>1, <2>2
<1>6. ASSUME NEW t \in Tokens
      PROVE  position'[t] <= position[t]
  <2>1. CASE t \in {a, b}
    BY <1>5, <2>1
  <2>2. CASE t \notin {a, b}
    <3>1. position'[t] = position[t] /\ position[t] \in Nat
      BY <1>1, <1>2, <2>2, MergedType DEF TypeOK
    <3> QED
      BY <3>1
  <2> QED
    BY <2>1, <2>2
<1>7. ASSUME NEW t \in Tokens
      PROVE  Fits(t)'
  <2>1. BuyOf(t)' = BuyOf(t)
    BY <1>2 DEF BuyOf
  <2> QED
    BY <1>6, <2>1, LessFits DEF RoomInv
<1>8. SnapshotMerged'
  <2> SUFFICES ASSUME NEW t \in {a, b}
               PROVE  Smaller(held'[t], held'[Other(t)]) <= Unmerged
    BY <1>2 DEF SnapshotMerged, OwnKey
  <2>1. Other(a) = b /\ Other(b) = a
    BY <1>1, OtherOutcome
  <2> QED
    BY <1>2, <1>5, <2>1
<1>9. ASSUME NEW t \in Tokens
      PROVE  position'[t] <= held'[t]
  BY <1>2 DEF TypeOK
<1> QED
  BY <1>7, <1>8, <1>9 DEF RoomInv

LEMMA SettleRoom ==
  ASSUME TypeOK, TypeOK', OneOrderPerQuote, RoomInv, SettleKey
  PROVE  RoomInv'
<1> DEFINE k == Keys[key]
<1>1. k \in Key /\ key \in DOMAIN Keys /\ active[at] \in Markets
  BY SettlingKey, KeyIndex
<1>2. PICK desired \in Nat, moved \in BOOLEAN :
        /\ Settle(active[at], k, desired, moved)
        /\ desired > 0 => OwnKey(active[at], k) /\ desired = QuoteSize(k)
  BY SettlingKey
<1>3. Len(resting[k]) <= 1
  BY <1>1 DEF OneOrderPerQuote
<1>4. at > 0 /\ key > 0
  BY DEF SettleKey
<1>5. ASSUME NEW t \in Tokens, k # <<t, "buy">>
      PROVE  BuyOf(t)' = BuyOf(t) /\ position'[t] <= position[t]
  <2>1. BuyOf(t)' = BuyOf(t)
    BY <1>1, <1>2, <1>5, BuyKey, SettleEffect DEF BuyOf
  <2>2. position[t] \in Nat
    BY DEF TypeOK
  <2>3. CASE k[1] # t
    <3>1. position'[t] = position[t]
      BY <1>1, <1>2, <2>3, SettleEffect
    <3> QED
      BY <2>1, <2>2, <3>1
  <2>4. CASE k[1] = t
    <3>1. k[2] = "sell"
      <4>1. k = <<k[1], k[2]>> /\ (k[2] = "buy" \/ k[2] = "sell")
        BY <1>1, KeyParts, Zenon
      <4> QED
        BY <1>5, <2>4, <4>1
    <3>2. position'[k[1]] <= position[k[1]]
      BY <1>1, <1>2, <3>1, SettleEffect
    <3> QED
      BY <2>1, <2>4, <3>2
  <2> QED
    BY <2>3, <2>4
<1>6. ASSUME NEW t \in Tokens
      PROVE  Fits(t)'
  <2>1. Fits(t)
    BY DEF RoomInv
  <2>2. CASE k # <<t, "buy">>
    BY <1>5, <2>1, <2>2, LessFits
  <2>3. CASE k = <<t, "buy">>
    <3>1. desired > 0 => position[t] + desired <= HoldingMax
      <4> SUFFICES ASSUME desired > 0
                   PROVE  position[t] + desired <= HoldingMax
        OBVIOUS
      <4>1. Pending(<<t, "buy">>)
        <5>1. key \in Nat /\ key >= key
          BY KeyIndex
        <5> QED
          BY <1>1, <1>2, <1>4, <2>3, <5>1 DEF Pending, Unsettled
      <4>2. position[t] <= held[t] /\ Smaller(held[t], held[Other(t)]) <= Unmerged
        BY <1>4, <4>1 DEF RoomInv, SnapshotMerged, Pending
      <4>3. desired = BuySize(t)
        BY <1>2, <2>3 DEF QuoteSize
      <4>4. held[t] + desired <= HoldingMax
        BY <4>2, <4>3, BuyFits
      <4>5. position[t] \in Nat /\ held[t] \in Nat /\ HoldingMax \in Nat
        BY MaxIsPositive, SizesAssumption DEF HoldingMax, Larger, TypeOK
      <4> QED
        BY <4>2, <4>4, <4>5
    <3> QED
      BY <1>1, <1>2, <1>3, <2>1, <2>3, <3>1, SettledFits DEF BuyOf
  <2> QED
    BY <2>2, <2>3
<1>7. ASSUME NEW t \in Tokens, Pending(<<t, "buy">>)'
      PROVE  position'[t] <= held'[t]
  <2>1. Pending(<<t, "buy">>) /\ <<t, "buy">> # k /\ held' = held
    BY <1>7, BuyKey, PendingAfter
  <2>2. position[t] <= held[t] /\ position'[t] <= position[t]
    BY <1>5, <2>1 DEF RoomInv
  <2>3. position[t] \in Nat /\ position'[t] \in Nat /\ held[t] \in Nat
    BY DEF TypeOK
  <2> QED
    BY <2>1, <2>2, <2>3
<1>8. SnapshotMerged'
  <2> SUFFICES ASSUME at' > 0, key' > 0
               PROVE  SnapshotMerged'
    BY DEF SnapshotMerged
  <2>1. at' = at /\ active' = active /\ held' = held
    BY DEF SettleKey
  <2> QED
    BY <1>4, <2>1 DEF RoomInv, SnapshotMerged, OwnKey
<1> QED
  BY <1>6, <1>7, <1>8 DEF RoomInv

LEMMA TradeRoom ==
  ASSUME TypeOK, TypeOK', OneOrderPerQuote, RoomInv, NEW k \in Key,
         NEW i \in DOMAIN resting[k], NEW q \in Fills(resting[k][i].size), Trade(k, i, q)
  PROVE  RoomInv'
<1>1. at' = 0 /\ at = 0
  BY DEF Trade
<1>2. ASSUME NEW t \in Tokens
      PROVE  Fits(t)'
  <2>1. Fits(t) /\ position[t] \in Nat
    BY DEF RoomInv, TypeOK
  <2>2. CASE k = <<t, "buy">>
    <3>1. resting[k][i].size \in Nat /\ q \in Nat /\ q <= resting[k][i].size
      <4>1. resting[k][i].size \in Nat
        BY RestingOrder
      <4> QED
        BY <4>1, FillSizes
    <3>2. position[t] + resting[k][i].size <= HoldingMax
      BY <2>1, <2>2 DEF Fits, BuyOf
    <3>3. position'[t] = position[t] + q
      BY <2>2, <3>1 DEF Trade, PositionAfter, TypeOK
    <3>4. HoldingMax \in Nat
      BY MaxIsPositive, SizesAssumption DEF HoldingMax, Larger
    <3>5. position'[t] <= HoldingMax
      BY <2>1, <3>1, <3>2, <3>3, <3>4
    <3>6. resting'[k] = <<>>
      <4>1. Len(resting[k]) <= 1
        BY DEF OneOrderPerQuote
      <4>2. resting'[k] \in Seq(Order) /\ Len(resting'[k]) \in Nat
        BY TradeEffect
      <4>3. Len(resting'[k]) = 0
        BY <4>1, <4>2, TradeEffect
      <4> QED
        BY <4>2, <4>3, EmptyIsNoLength, Zenon
    <3>7. DOMAIN BuyOf(t)' = {}
      BY <2>2, <3>6 DEF BuyOf
    <3> QED
      BY <3>5, <3>7 DEF Fits
  <2>3. CASE k # <<t, "buy">>
    <3>1. BuyOf(t)' = BuyOf(t)
      BY <2>3, BuyKey, TradeEffect DEF BuyOf
    <3>2. position'[t] <= position[t]
      <4>1. CASE k[1] # t
        <5>1. position'[t] = position[t]
          BY <4>1, TradeEffect
        <5> QED
          BY <2>1, <5>1
      <4>2. CASE k[1] = t
        <5>1. k[2] = "sell"
          BY <2>3, <4>2, KeyParts DEF Sides
        <5>2. position'[k[1]] <= position[k[1]]
          BY <5>1, TradeEffect
        <5> QED
          BY <4>2, <5>2
      <4> QED
        BY <4>1, <4>2
    <3> QED
      BY <2>1, <3>1, <3>2, LessFits
  <2> QED
    BY <2>2, <2>3
<1> QED
  BY <1>1, <1>2 DEF RoomInv, SnapshotMerged, Pending

LEMMA KeepsRoom ==
  ASSUME TypeOK, TypeOK', IdleHasNoKey, OneOrderPerQuote, RoomInv, [Next]_vars
  PROVE  RoomInv'
<1>1. CASE \E selection \in Selections : Iterate(selection)
  <2>1. at = 0 /\ key' = 0 /\ UNCHANGED <<resting, position>>
    BY <1>1 DEF Iterate, IdleHasNoKey
  <2>2. ASSUME NEW t \in Tokens
        PROVE  Fits(t)'
    BY <2>1 DEF RoomInv, Fits, BuyOf
  <2> QED
    BY <2>1, <2>2 DEF RoomInv, SnapshotMerged, Pending
<1>2. CASE StartMarket
  BY <1>2, StartRoom
<1>3. CASE SettleKey
  BY <1>3, SettleRoom
<1>4. ASSUME NEW k \in Key, NEW i \in DOMAIN resting[k],
             NEW q \in Fills(resting[k][i].size), Trade(k, i, q)
      PROVE  RoomInv'
  BY <1>4, TradeRoom
<1>5. ASSUME NEW k \in Key, NEW i \in DOMAIN resting[k], Age(k, i)
      PROVE  RoomInv'
  <2>1. at' = 0 /\ position' = position
    BY <1>5 DEF Age
  <2>2. ASSUME NEW t \in Tokens
        PROVE  Fits(t)'
    <3>1. /\ DOMAIN BuyOf(t)' = DOMAIN BuyOf(t)
          /\ \A h \in DOMAIN BuyOf(t) : BuyOf(t)'[h].size = BuyOf(t)[h].size
      BY <1>5, BuyKey, AgeEffect DEF BuyOf
    <3> QED
      BY <2>1, <3>1 DEF RoomInv, Fits
  <2> QED
    BY <2>1, <2>2 DEF RoomInv, SnapshotMerged, Pending
<1>6. CASE UNCHANGED vars
  BY <1>6 DEF vars, RoomInv, Fits, BuyOf, SnapshotMerged, Pending, Unsettled, OwnKey
<1> QED
  BY <1>1, <1>2, <1>3, <1>4, <1>5, <1>6 DEF Next

\* Holdings stay within max_size and what cannot be merged of the other
\* outcome, for every size, cap and set of markets: merging before sizing
\* keeps net exposure and holdings together, and what is on offer fits.
THEOREM HoldingsCorrect == Spec => []HoldingsBounded
<1>1. Init => TypeOK /\ IdleHasNoKey /\ OneOrderPerQuote /\ RoomInv
  <2> SUFFICES ASSUME Init
               PROVE  TypeOK /\ IdleHasNoKey /\ OneOrderPerQuote /\ RoomInv
    OBVIOUS
  <2>1. TypeOK /\ IdleHasNoKey /\ OneOrderPerQuote
    BY KeysAssumption DEF Init, TypeOK, IdleHasNoKey, Nothing, OneOrderPerQuote
  <2>2. HoldingMax \in Nat
    BY MaxIsPositive, SizesAssumption DEF HoldingMax, Larger
  <2>3. ASSUME NEW t \in Tokens
        PROVE  Fits(t)
    BY <2>2, BuyKey DEF Init, Nothing, Fits, BuyOf
  <2> QED
    BY <2>1, <2>3 DEF RoomInv, SnapshotMerged, Pending, Init
<1>2. RoomInv => HoldingsBounded
  BY DEF RoomInv, HoldingsBounded, Fits
<1> QED
  BY <1>1, <1>2, NextType, KeepsOneOrder, KeepsRoom, PTL DEF Spec

-----------------------------------------------------------------------------
(* The plan of a single market.                                            *)

Within(o, size) == 10 * (size - o.size) <= o.size /\ 10 * (o.size - size) <= o.size
Offered(k) == wanted[k] > 0 => \E i \in DOMAIN resting[k] : Within(resting[k][i], wanted[k])

\* One market is quoted at most; what is wanted while it is quoted is its own.
PlanInv == /\ \A k \in Key : Offered(k)
           /\ Len(active) <= 1
           /\ at > 0 => \A k \in Key : ~OwnKey(active[at], k) => wanted[k] = 0

LEMMA SettledPlan ==
  ASSUME TypeOK, TypeOK', OneOrderPerQuote, PlanInv, SettleKey
  PROVE  PlanInv'
<1> DEFINE k == Keys[key]
           m == active[at]
<1>1. k \in Key /\ m \in Markets
  BY SettlingKey
<1>2. PICK desired \in Nat, moved \in BOOLEAN : Settle(m, k, desired, moved) /\ (desired > 0 => OwnKey(m, k))
  BY SettlingKey
<1>3. Len(resting[k]) <= 1
  BY <1>1 DEF OneOrderPerQuote
<1>4. \/ /\ resting'[k] = <<>>
         /\ wanted'[k] = 0 \/ (wanted'[k] = wanted[k] /\ ~OwnKey(m, k))
      \/ /\ desired > 0
         /\ Len(resting'[k]) = 1
         /\ wanted'[k] = desired
         /\ ~Differs(resting'[k][1], desired)
  BY <1>1, <1>2, <1>3, SettleEffect
<1>5. \A j \in Key \ {k} : resting'[j] = resting[j] /\ wanted'[j] = wanted[j]
  BY <1>1, <1>2, SettleEffect
<1>6. ~OwnKey(m, k) => wanted[k] = 0
  BY <1>1 DEF PlanInv, SettleKey
<1> HIDE DEF k, m
<1>7. ASSUME NEW j \in Key
      PROVE  Offered(j)'
  <2>1. CASE j # k
    BY <1>5, <2>1 DEF PlanInv, Offered
  <2>2. CASE j = k /\ resting'[k] = <<>>
    <3>1. wanted'[k] = 0
      <4>1. ~(Len(<<>>) = 1)
        OBVIOUS
      <4> QED
        BY <1>4, <1>6, <2>2, <4>1
    <3> QED
      BY <2>2, <3>1 DEF Offered
  <2>3. CASE j = k /\ resting'[k] # <<>>
    <3>1. Len(resting'[k]) = 1 /\ wanted'[k] = desired /\ ~Differs(resting'[k][1], desired)
      BY <1>4, <2>3
    <3>2. resting'[k] \in Seq(Order)
      BY <1>1 DEF TypeOK
    <3>3. 1 \in DOMAIN resting'[k] /\ resting'[k][1] \in Order
      BY <3>1, <3>2
    <3>4. resting'[k][1].size \in Nat
      BY <3>3 DEF Order
    <3>5. Within(resting'[k][1], desired)
      BY <3>1, <3>4 DEF Within, Differs, Larger
    <3> QED
      BY <2>3, <3>1, <3>3, <3>5 DEF Offered
  <2> QED
    BY <2>1, <2>2, <2>3
<1>8. ASSUME at' > 0, NEW j \in Key, ~OwnKey(active'[at'], j)
      PROVE  wanted'[j] = 0
  <2>1. at' = at /\ active' = active
    BY <1>8 DEF SettleKey, PlanInv, TypeOK
  <2>2. ~OwnKey(m, j) /\ wanted[j] = 0
    BY <1>8, <2>1 DEF m, PlanInv
  <2>3. CASE j # k
    BY <1>5, <2>2, <2>3
  <2>4. CASE j = k
    BY <1>2, <1>4, <2>2, <2>4
  <2> QED
    BY <2>3, <2>4
<1>9. active' = active
  BY DEF SettleKey
<1> QED
  BY <1>7, <1>8, <1>9 DEF PlanInv, OwnKey

LEMMA KeepsPlan ==
  ASSUME MaxActive = 1, TypeOK, TypeOK', OneOrderPerQuote, PlanInv, [Next]_vars
  PROVE  PlanInv'
<1>1. ASSUME NEW selection \in Selections, Iterate(selection)
      PROVE  PlanInv'
  <2>1. Len(active') <= 1
    <3>1. PICK n \in 0..1 : selection \in [1..n -> Markets]
      BY DEF Selections
    <3>2. Len(selection) = n
      BY <3>1, SelectionType, LenProperties
    <3> QED
      BY <1>1, <3>2 DEF Iterate
  <2>2. CASE selection = <<>>
    <3>1. at' = 0 /\ UNCHANGED <<wanted, resting>>
      BY <1>1, <2>2 DEF Iterate
    <3> QED
      BY <2>1, <3>1 DEF PlanInv, Offered
  <2>3. CASE selection # <<>>
    <3>1. wanted' = [k \in Key |-> 0]
      BY <1>1, <2>3 DEF Iterate
    <3> QED
      BY <2>1, <3>1 DEF PlanInv, Offered
  <2> QED
    BY <2>2, <2>3
<1>2. CASE StartMarket
  BY <1>2 DEF StartMarket, PlanInv, Offered, OwnKey
<1>3. CASE SettleKey
  BY <1>3, SettledPlan
<1>4. ASSUME NEW k \in Key, NEW i \in DOMAIN resting[k],
             NEW q \in Fills(resting[k][i].size), Trade(k, i, q)
      PROVE  PlanInv'
  <2>1. at' = 0 /\ active' = active /\ wanted'[k] = 0
    BY <1>4 DEF Trade, TypeOK
  <2>2. \A j \in Key \ {k} : resting'[j] = resting[j] /\ wanted'[j] = wanted[j]
    BY <1>4, TradeEffect
  <2> QED
    BY <2>1, <2>2 DEF PlanInv, Offered
<1>5. ASSUME NEW k \in Key, NEW i \in DOMAIN resting[k], Age(k, i)
      PROVE  PlanInv'
  <2>1. at' = 0 /\ active' = active /\ wanted' = wanted
    BY <1>5 DEF Age
  <2>2. \A j \in Key : /\ DOMAIN resting'[j] = DOMAIN resting[j]
                       /\ \A h \in DOMAIN resting[j] : resting'[j][h].size = resting[j][h].size
    BY <1>5, AgeEffect
  <2>3. \A j \in Key : Offered(j)'
    BY <2>1, <2>2 DEF PlanInv, Offered, Within
  <2> QED
    BY <2>1, <2>3 DEF PlanInv
<1>6. CASE UNCHANGED vars
  BY <1>6 DEF vars, PlanInv, Offered, OwnKey
<1> QED
  BY <1>1, <1>2, <1>3, <1>4, <1>5, <1>6 DEF Next

\* With one active market, the default of --max-active-markets, every
\* quote the last pass wanted and that was not filled is on offer, to within
\* the tolerance.  With more it fails: a market's turn cancels the others'.
THEOREM PlanCorrect == ASSUME MaxActive = 1 PROVE Spec => []PlanIsOnOffer
<1>1. Init => TypeOK /\ IdleHasNoKey /\ OneOrderPerQuote /\ PlanInv
  <2> SUFFICES ASSUME Init
               PROVE  TypeOK /\ IdleHasNoKey /\ OneOrderPerQuote /\ PlanInv
    OBVIOUS
  <2>1. TypeOK /\ IdleHasNoKey /\ OneOrderPerQuote
    BY KeysAssumption DEF Init, TypeOK, IdleHasNoKey, Nothing, OneOrderPerQuote
  <2>2. PlanInv
    BY DEF Init, PlanInv, Offered
  <2> QED
    BY <2>1, <2>2
<1>2. PlanInv => PlanIsOnOffer
  BY DEF PlanInv, PlanIsOnOffer, Offered, Within
<1>3. TypeOK /\ TypeOK' /\ OneOrderPerQuote /\ PlanInv /\ [Next]_vars => PlanInv'
  BY KeepsPlan
<1> QED
  BY <1>1, <1>2, <1>3, NextType, KeepsOneOrder, PTL DEF Spec

-----------------------------------------------------------------------------
(* The prices of the quotes.                                               *)

(***************************************************************************)
(* The feed never crosses the book; a plan is ordered, and covers the cost *)
(* unless it was hurried.                                                  *)
(***************************************************************************)
Uncrossed == \A p \in P!Levels(bids), q \in P!Levels(asks) : p < q
BookInv == bids \in P!Side /\ asks \in P!Side /\ Uncrossed
PricesInv == BookInv /\ PlanOrdered /\ CostCovered

LEMMA PriceLimits ==
  /\ Top \in Nat /\ Low \in Nat /\ High \in Nat /\ Low <= High
  /\ 1 <= Low /\ Low <= Top /\ 1 <= High /\ High <= Top
  /\ MinSize \in Nat \ {0} /\ FallbackSize \in Nat \ {0} /\ FallbackSize <= MinSize
  /\ LevelSizes \subseteq Nat \ {0}
BY PricesConstants DEF P!PricesAssumption, P!Prices

\* A set of naturals has a least element.
LEMMA Least ==
  ASSUME NEW S, S \subseteq Nat, S # {}
  PROVE  \E x \in S : \A y \in S : x <= y
<1> DEFINE R == OpToRel(<, Nat)
<1>1. IsWellFoundedOn(R, Nat)
  BY NatLessThanWellFounded, Zenon
<1>2. ASSUME NEW x \in Nat, NEW y \in Nat, ~(<<y, x>> \in R)
      PROVE  x <= y
  BY <1>2 DEF OpToRel
<1> HIDE DEF R
<1>3. PICK x \in S : \A y \in S : ~(<<y, x>> \in R)
  BY <1>1, WFMin, Zenon
<1>4. \A y \in S : x <= y
  BY <1>2, <1>3
<1> QED
  BY <1>4

\* The best of some prices are among them.
LEMMA LowestOf ==
  ASSUME NEW S \in SUBSET P!Prices, S # {}
  PROVE  P!Min(S) \in S /\ \A y \in S : P!Min(S) <= y
<1>1. S \subseteq Nat
  BY PriceLimits DEF P!Prices
<1>2. \E x \in S : \A y \in S : x <= y
  BY <1>1, Least, Zenon
<1> QED
  BY <1>2, Zenon DEF P!Min

LEMMA HighestOf ==
  ASSUME NEW S \in SUBSET P!Prices, S # {}
  PROVE  P!Max(S) \in S /\ \A y \in S : P!Max(S) >= y
<1> DEFINE below == {Top - p : p \in S}
<1>1. \A p \in S : p \in Nat /\ p <= Top
  BY PriceLimits DEF P!Prices
<1>2. below \subseteq Nat /\ below # {}
  BY <1>1, PriceLimits
<1>3. PICK d \in below : \A e \in below : d <= e
  BY <1>2, Least, Zenon
<1>4. PICK x \in S : d = Top - x
  BY <1>3
<1>5. ASSUME NEW y \in S
      PROVE  x >= y
  <2>1. Top - x <= Top - y
    BY <1>3, <1>4, <1>5
  <2> QED
    BY <1>1, <2>1, PriceLimits
<1> QED
  BY <1>5, Zenon DEF P!Max

LEMMA Clamped ==
  ASSUME NEW p \in Int
  PROVE  /\ P!Clamp(p) \in Low..High
         /\ p \in Low..High => P!Clamp(p) = p
         /\ P!Clamp(p) >= P!Smaller(High, p)
         /\ p < Low => P!Clamp(p) = Low
         /\ p > High => P!Clamp(p) = High
BY PriceLimits DEF P!Clamp, P!Smaller, P!Larger

LEMMA ClampedInOrder ==
  ASSUME NEW p \in Int, NEW q \in Int, p <= q
  PROVE  P!Clamp(p) <= P!Clamp(q)
BY PriceLimits DEF P!Clamp, P!Smaller, P!Larger

\* The best prices of some size and of any size, in an uncrossed book.
LEMMA BestPrices ==
  ASSUME BookInv, P!Meaningful
  PROVE  /\ {P!BestBid, P!TopBid, P!BestAsk, P!TopAsk} \subseteq P!Prices
         /\ P!BestBid <= P!TopBid /\ P!TopBid < P!TopAsk /\ P!TopAsk <= P!BestAsk
<1> DEFINE sb == P!SizedAtLeast(bids, P!Threshold)
           sa == P!SizedAtLeast(asks, P!Threshold)
<1>1. P!Threshold \in {MinSize, FallbackSize} /\ P!Threshold \in Nat \ {0}
  BY PriceLimits DEF P!Threshold
<1>2. sb # {} /\ sa # {}
  BY DEF P!Threshold, P!Meaningful
<1>3. sb \subseteq P!Levels(bids) /\ sa \subseteq P!Levels(asks)
  <2>1. ASSUME NEW p \in P!Prices
        PROVE  bids[p] \in Nat /\ asks[p] \in Nat
    <3>1. bids[p] \in LevelSizes \cup {0} /\ asks[p] \in LevelSizes \cup {0}
      BY DEF BookInv, P!Side
    <3>2. \A n \in LevelSizes \cup {0} : n \in Nat
      BY PriceLimits
    <3> QED
      BY <3>1, <3>2, Zenon
  <2> QED
    BY <1>1, <2>1 DEF P!SizedAtLeast, P!Levels
<1>4. P!Levels(bids) \in SUBSET P!Prices /\ P!Levels(asks) \in SUBSET P!Prices
  BY DEF P!Levels
<1> HIDE DEF sb, sa
<1>5. P!Max(sb) \in sb /\ P!Min(sa) \in sa
  <2>1. sb \in SUBSET P!Prices /\ sa \in SUBSET P!Prices
    BY <1>3, <1>4
  <2> QED
    BY <1>2, <2>1, HighestOf, LowestOf, Zenon
<1>6. P!Levels(bids) # {} /\ P!Levels(asks) # {}
  BY <1>2, <1>3
<1>7. /\ P!Max(P!Levels(bids)) \in P!Levels(bids)
      /\ \A y \in P!Levels(bids) : P!Max(P!Levels(bids)) >= y
      /\ P!Min(P!Levels(asks)) \in P!Levels(asks)
      /\ \A y \in P!Levels(asks) : P!Min(P!Levels(asks)) <= y
  BY <1>4, <1>6, HighestOf, LowestOf, Zenon
<1>8. P!BestBid = P!Max(sb) /\ P!BestAsk = P!Min(sa)
  BY DEF P!BestBid, P!BestAsk, sb, sa
<1>9. P!TopBid = P!Max(P!Levels(bids)) /\ P!TopAsk = P!Min(P!Levels(asks))
  BY DEF P!TopBid, P!TopAsk
<1>10. P!BestBid \in P!Levels(bids) /\ P!BestAsk \in P!Levels(asks)
  BY <1>3, <1>5, <1>8
<1>11. \A p \in P!Prices : p \in Int
  BY PriceLimits DEF P!Prices
<1> QED
  BY <1>4, <1>7, <1>9, <1>10, <1>11 DEF BookInv, Uncrossed

-----------------------------------------------------------------------------

LEMMA HalvedType ==
  ASSUME NEW n \in Int
  PROVE  P!Halved(n) \in Int
BY DEF P!Halved

\* Skewed quotes cross only when both improve the prices of a book that is as
\* narrow as can be.
LEMMA SkewedQuotes ==
  ASSUME BookInv, P!Meaningful, NEW skew \in Int
  PROVE  /\ P!Skewed(skew).bid \in Low..High /\ P!Skewed(skew).ask \in Low..High
         /\ \/ P!Skewed(skew).bid <= P!Skewed(skew).ask
            \/ /\ P!BestAsk = P!BestBid + 1
               /\ P!Skewed(skew).bid >= P!BestAsk /\ P!Skewed(skew).ask <= P!BestBid
<1> DEFINE bb == P!BestBid
           ba == P!BestAsk
<1>1. bb \in Int /\ ba \in Int /\ bb + 1 <= ba
  BY BestPrices, PriceLimits DEF P!Prices
<1> HIDE DEF bb, ba
<1>2. /\ P!BaseBid = P!Clamp(bb) \/ P!BaseBid = P!Clamp(bb + 1)
      /\ P!BaseAsk = P!Clamp(ba) \/ P!BaseAsk = P!Clamp(ba - 1)
  BY DEF P!BaseBid, P!BaseAsk, bb, ba
<1>3. P!BaseBid \in Low..High /\ P!BaseAsk \in Low..High
  BY <1>1, <1>2, Clamped
<1>4. CASE skew = 0
  <2>1. P!Skewed(skew).bid = P!BaseBid /\ P!Skewed(skew).ask = P!BaseAsk
    BY <1>4 DEF P!Skewed, P!Quotes
  <2>2. \/ P!BaseBid <= P!BaseAsk
        \/ ba = bb + 1 /\ P!BaseBid >= ba /\ P!BaseAsk <= bb
    BY <1>1, <1>2, PriceLimits DEF P!Clamp, P!Smaller, P!Larger
  <2> QED
    BY <1>3, <2>1, <2>2 DEF bb, ba
<1>5. CASE skew # 0
  <2> DEFINE x == P!Halved(IF skew > 0 THEN skew ELSE 3 * skew)
             y == P!Halved(IF skew > 0 THEN 3 * skew ELSE skew)
             bid == P!Clamp(P!BaseBid - x)
             ask == P!Clamp(P!BaseAsk - y)
             b == P!Clamp((bb + ba - 2) \div 2)
             a == P!Clamp((bb + ba + 3) \div 2)
  <2>1. x \in Int /\ y \in Int
    BY HalvedType
  <2> HIDE DEF x, y
  <2>2. bid \in Low..High /\ ask \in Low..High
    BY <1>3, <2>1, Clamped, PriceLimits
  <2>3. b \in Low..High /\ a \in Low..High /\ b <= a
    <3>1. /\ (bb + ba - 2) \div 2 \in Int /\ (bb + ba + 3) \div 2 \in Int
          /\ (bb + ba - 2) \div 2 <= (bb + ba + 3) \div 2
      BY <1>1
    <3> QED
      BY <3>1, Clamped, ClampedInOrder
  <2>4. P!Skewed(skew) = IF bid < ask THEN P!Quotes(bid, ask) ELSE P!Quotes(b, a)
    BY <1>5 DEF P!Skewed, x, y, bb, ba
  <2> HIDE DEF bid, ask, b, a
  <2>5. bid \in Int /\ ask \in Int
    BY <2>2, PriceLimits
  <2> QED
    BY <2>2, <2>3, <2>4, <2>5 DEF P!Quotes
<1> QED
  BY <1>4, <1>5

\* A quote that would trade goes back to the top of the book, and an ask is
\* raised to the cost: in order, and the ask covers what it should.
LEMMA GuardedQuotes ==
  ASSUME BookInv, P!Meaningful, NEW b \in Low..High, NEW a \in Low..High, NEW cost \in 0..Top,
         b <= a \/ (P!BestAsk = P!BestBid + 1 /\ b >= P!BestAsk /\ a <= P!BestBid)
  PROVE  /\ P!BidWithin(b) \in Low..High /\ P!AskWithin(a, cost) \in Low..High
         /\ P!BidWithin(b) <= P!AskWithin(a, cost)
         /\ P!AskWithin(a, cost) >= P!Smaller(High, cost)
<1> DEFINE bb == P!BestBid
           ba == P!BestAsk
           tb == P!TopBid
           ta == P!TopAsk
           covering == IF cost > 0 THEN P!Clamp(P!Larger(a, cost)) ELSE a
<1>1. /\ bb \in Int /\ ba \in Int /\ tb \in Int /\ ta \in Int
      /\ bb <= tb /\ tb < ta /\ ta <= ba
  BY BestPrices, PriceLimits DEF P!Prices
<1>2. covering \in Low..High /\ covering >= a /\ covering >= P!Smaller(High, cost)
  BY PriceLimits DEF P!Clamp, P!Smaller, P!Larger
<1>3. P!BidWithin(b) = IF b >= ba THEN P!Clamp(tb) ELSE b
  BY DEF P!BidWithin
<1>4. P!AskWithin(a, cost) = IF covering <= bb THEN P!Clamp(ta) ELSE covering
  BY DEF P!AskWithin
<1> HIDE DEF bb, ba, tb, ta, covering
<1>5. P!Clamp(tb) \in Low..High /\ P!Clamp(ta) \in Low..High /\ P!Clamp(tb) <= P!Clamp(ta)
  BY <1>1, Clamped, ClampedInOrder
<1>6. b <= a \/ (ba = bb + 1 /\ b >= ba /\ a <= bb)
  BY DEF ba, bb
<1>7. P!AskWithin(a, cost) >= P!Smaller(High, cost)
  BY <1>1, <1>2, <1>4, PriceLimits DEF P!Clamp, P!Smaller, P!Larger
<1>8. P!BidWithin(b) <= P!AskWithin(a, cost)
  BY <1>1, <1>2, <1>3, <1>4, <1>5, <1>6, PriceLimits DEF P!Clamp, P!Smaller, P!Larger
<1> QED
  BY <1>2, <1>3, <1>4, <1>5, <1>7, <1>8


LEMMA MultiplierType ==
  ASSUME NEW m \in P!Multipliers
  PROVE  m[1] \in Nat /\ m[2] \in Nat \ {0}
<1>1. PICK a \in P!AgeMultipliers, f \in P!FillMultipliers, v \in P!VolMultipliers :
        m = <<a[1] * f[1] * v[1], a[2] * f[2] * v[2]>>
  BY DEF P!Multipliers
<1>2. a[1] \in Nat \ {0} /\ a[2] = 1
  BY DEF P!AgeMultipliers
<1>3. ASSUME NEW x \in {<<1, 1>>} \cup Regimes \cup Adverse
      PROVE  x[1] \in Nat /\ x[2] \in Nat \ {0}
  <2>1. CASE x = <<1, 1>>
    BY <2>1
  <2>2. CASE x \in Regimes \cup Adverse
    BY <2>2, PricesConstants DEF P!PricesAssumption
  <2> QED
    BY <2>1, <2>2
<1>4. f[1] \in Nat /\ f[2] \in Nat \ {0} /\ v[1] \in Nat /\ v[2] \in Nat \ {0}
  BY <1>3 DEF P!FillMultipliers, P!VolMultipliers
<1>5. ASSUME NEW x \in Nat, NEW y \in Nat
      PROVE  x * y \in Nat /\ (x # 0 /\ y # 0 => x * y # 0)
  OBVIOUS
<1>6. a[1] * f[1] \in Nat /\ a[2] * f[2] \in Nat \ {0}
  BY <1>2, <1>4, <1>5
<1>7. (a[1] * f[1]) * v[1] \in Nat /\ (a[2] * f[2]) * v[2] \in Nat \ {0}
  BY <1>4, <1>5, <1>6
<1> QED
  BY <1>1, <1>7

\* Rounded away from the middle: down to the left of it and up to the right.
LEMMA RoundedAway ==
  ASSUME NEW x \in Int, NEW y \in Int, NEW d \in Nat \ {0}, x <= y
  PROVE  /\ x \div d \in Int /\ -((-y) \div d) \in Int
         /\ x \div d <= -((-y) \div d)
         /\ \A a \in Int : a * d <= y => a <= -((-y) \div d)
<1> DEFINE f == x \div d
           g == (-y) \div d
<1>1. f \in Int /\ g \in Int
  OBVIOUS
<1>2. f * d <= x /\ g * d <= -y
  OBVIOUS
<1>3. x < (f + 1) * d /\ -y < (g + 1) * d
  OBVIOUS
<1> HIDE DEF f, g
<1>4. ASSUME NEW a \in Int, a * d <= y
      PROVE  a <= -g
  <2>1. (a + g) * d <= 0
    BY <1>1, <1>2, <1>4
  <2> QED
    BY <1>1, <2>1
<1>5. f <= -g
  BY <1>1, <1>2, <1>4
<1> QED
  BY <1>1, <1>4, <1>5 DEF f, g

LEMMA SpreadQuotes ==
  ASSUME NEW b \in Low..High, NEW a \in Low..High, b <= a, NEW m \in P!Multipliers
  PROVE  LET q == P!Spread(P!Quotes(b, a), m)
         IN  /\ q.bid \in Low..High /\ q.ask \in Low..High /\ q.bid <= q.ask
             /\ m[1] >= m[2] => q.ask >= a
<1> DEFINE q == P!Spread(P!Quotes(b, a), m)
           wide == (a - b) * m[1]
           sum == (b + a) * m[2]
           d == 2 * m[2]
           left == (sum - wide) \div d
           right == -((-(sum + wide)) \div d)
<1>1. m[1] \in Nat /\ m[2] \in Nat \ {0}
  BY MultiplierType
<1>2. CASE m[1] = m[2]
  <2>1. q = P!Quotes(b, a)
    BY <1>2 DEF P!Spread
  <2> QED
    BY <2>1 DEF P!Quotes
<1>3. CASE m[1] # m[2]
  <2>1. q = P!Quotes(P!Clamp(left), P!Clamp(right))
    BY <1>3 DEF P!Spread, P!Quotes
  <2>2. wide \in Nat /\ sum \in Nat /\ d \in Nat \ {0}
    <3>1. a - b \in Nat /\ b + a \in Nat
      BY PriceLimits
    <3> QED
      BY <1>1, <3>1
  <2>3. m[1] >= m[2] => a * d <= sum + wide
    <3> SUFFICES ASSUME m[1] >= m[2]
                 PROVE  a * d <= sum + wide
      OBVIOUS
    <3>1. a - b \in Nat /\ b \in Nat /\ a \in Nat
      BY PriceLimits
    <3>2. (a - b) * m[2] <= wide
      BY <1>1, <3>1
    <3>3. a * d = sum + (a - b) * m[2]
      BY <1>1, <3>1
    <3>4. (a - b) * m[2] \in Int
      BY <1>1, <3>1
    <3> QED
      BY <2>2, <3>2, <3>3, <3>4
  <2> HIDE DEF wide, sum, d
  <2>4. /\ left \in Int /\ right \in Int /\ left <= right
        /\ a * d <= sum + wide => a <= right
    <3>1. sum - wide \in Int /\ sum + wide \in Int /\ sum - wide <= sum + wide /\ a \in Int
      BY <2>2, PriceLimits
    <3> QED
      BY <2>2, <3>1, RoundedAway
  <2> HIDE DEF left, right
  <2>5. /\ P!Clamp(left) \in Low..High /\ P!Clamp(right) \in Low..High
        /\ P!Clamp(left) <= P!Clamp(right)
        /\ a <= right => P!Clamp(right) >= a
    <3>1. a <= right => P!Clamp(a) <= P!Clamp(right)
      BY <2>4, ClampedInOrder, PriceLimits
    <3>2. P!Clamp(a) = a
      BY Clamped, PriceLimits
    <3> QED
      BY <2>4, <3>1, <3>2, Clamped, ClampedInOrder
  <2> QED
    BY <2>1, <2>3, <2>4, <2>5 DEF P!Quotes
<1> QED
  BY <1>2, <1>3 DEF q

LEMMA RushedQuotes ==
  ASSUME NEW b \in Low..High, NEW a \in Low..High, b <= a, NEW rush,
         NEW q, q = P!Quotes(b, a)
  PROVE  /\ P!Rushed(q, rush).bid <= P!Rushed(q, rush).ask
         /\ rush = "none" => P!Rushed(q, rush) = q
BY PriceLimits DEF P!Rushed, P!Quotes, P!Larger, P!Smaller

LEMMA SkewsAreWhole == \A s \in P!Skews : s \in Int
<1> SUFFICES ASSUME NEW s \in P!Skews
             PROVE  s \in Int
  OBVIOUS
<1>1. PICK i \in P!InventoryTicks, j \in P!ImbalanceTicks, c \in P!ComplementTicks :
        s = i + j + c
  BY DEF P!Skews
<1>2. i \in Int /\ j \in Int /\ c \in Int
  BY PricesConstants DEF P!PricesAssumption, P!InventoryTicks, P!ImbalanceTicks, P!ComplementTicks
<1> QED
  BY <1>1, <1>2

LEMMA PlanStep ==
  ASSUME BookInv, P!Meaningful, NEW r \in P!Request, plan' = P!Priced(r)
  PROVE  PlanOrdered' /\ CostCovered'
<1> DEFINE skewed == P!Skewed(r.skew)
           b == P!BidWithin(skewed.bid)
           a == P!AskWithin(skewed.ask, r.cost)
           spread == P!Spread(P!Quotes(b, a), r.spread)
           q == P!Rushed(spread, r.rush)
<1>1. /\ r.skew \in Int /\ r.cost \in 0..Top /\ r.spread \in P!Multipliers
  <2>1. r.skew \in P!Skews /\ r.cost \in Costs /\ r.spread \in P!Multipliers
    BY DEF P!Request
  <2> QED
    BY <2>1, SkewsAreWhole, PricesConstants DEF P!PricesAssumption
<1>2. P!Meaningful /\ plan' = [bid |-> q.bid, ask |-> q.ask, of |-> r]
  BY DEF P!Priced, P!OrderPrices
<1>3. /\ skewed.bid \in Low..High /\ skewed.ask \in Low..High
      /\ \/ skewed.bid <= skewed.ask
         \/ /\ P!BestAsk = P!BestBid + 1
            /\ skewed.bid >= P!BestAsk /\ skewed.ask <= P!BestBid
  BY <1>1, <1>2, SkewedQuotes
<1> HIDE DEF skewed
<1>4. b \in Low..High /\ a \in Low..High /\ b <= a /\ a >= P!Smaller(High, r.cost)
  BY <1>1, <1>2, <1>3, GuardedQuotes
<1> HIDE DEF b, a
<1>5. /\ spread.bid \in Low..High /\ spread.ask \in Low..High /\ spread.bid <= spread.ask
      /\ r.spread[1] >= r.spread[2] => spread.ask >= a
  BY <1>1, <1>4, SpreadQuotes
<1>6. spread = P!Quotes(spread.bid, spread.ask)
  BY DEF P!Spread, P!Quotes
<1> HIDE DEF spread
<1>7. /\ q.bid <= q.ask
      /\ r.rush = "none" => q = spread
  BY <1>5, <1>6, RushedQuotes
<1> HIDE DEF q
<1>8. /\ plan'.bid = q.bid /\ plan'.ask = q.ask /\ plan'.of = r
  BY <1>2
<1>9. PlanOrdered'
  BY <1>7, <1>8 DEF PlanOrdered, P!PlanOrdered
<1>10. r.spread[1] >= r.spread[2] /\ r.rush = "none" => q.ask >= P!Smaller(High, r.cost)
  <2>1. P!Smaller(High, r.cost) \in Int
    BY <1>1, PriceLimits DEF P!Smaller
  <2> QED
    BY <1>4, <1>5, <1>7, <2>1, PriceLimits
<1>11. CostCovered'
  BY <1>8, <1>10 DEF CostCovered, P!CostCovered, P!Unhurried
<1> QED
  BY <1>9, <1>11

LEMMA PricesStep == PricesInv /\ [P!Next]_(P!vars) => PricesInv'
<1> SUFFICES ASSUME PricesInv, [P!Next]_(P!vars)
             PROVE  PricesInv'
  OBVIOUS
<1> USE DEF PricesInv
<1>1. ASSUME NEW x, NEW y, x \in P!Side, y \in P!Side, P!Book(x, y)
      PROVE  PricesInv'
  <2>1. BookInv'
    BY <1>1 DEF P!Book, BookInv, Uncrossed, P!Levels
  <2>2. plan' = P!NoPlan
    BY <1>1 DEF P!Book
  <2> QED
    BY <2>1, <2>2 DEF PlanOrdered, P!PlanOrdered, CostCovered, P!CostCovered, P!Unhurried, P!Planned
<1>2. ASSUME NEW s \in Snapshots, P!Snapshot(s)
      PROVE  PricesInv'
  BY <1>1, <1>2, PricesConstants DEF P!Snapshot, P!PricesAssumption
<1>3. ASSUME NEW p \in P!Prices, NEW size \in LevelSizes \cup {0}, P!PriceChange(p, size)
      PROVE  PricesInv'
  <2>1. /\ bids \in P!Side /\ asks \in P!Side
        /\ [bids EXCEPT ![p] = size] \in P!Side /\ [asks EXCEPT ![p] = size] \in P!Side
    BY DEF BookInv, P!Side
  <2> QED
    BY <1>1, <1>3, <2>1 DEF P!PriceChange
<1>4. CASE P!Plan
  <2>1. BookInv'
    BY <1>4 DEF P!Plan, BookInv, Uncrossed, P!Levels
  <2>2. P!Meaningful /\ \E r \in P!Request : plan' = P!Priced(r)
    BY <1>4 DEF P!Plan
  <2> QED
    BY <2>1, <2>2, PlanStep
<1>5. CASE P!Done
  BY <1>5 DEF P!Done, BookInv, Uncrossed, P!Levels, PlanOrdered, P!PlanOrdered, CostCovered,
              P!CostCovered, P!Unhurried, P!Planned
<1>6. CASE UNCHANGED P!vars
  BY <1>6 DEF P!vars, BookInv, Uncrossed, P!Levels, PlanOrdered, P!PlanOrdered, CostCovered,
              P!CostCovered, P!Unhurried, P!Planned
<1> QED
  BY <1>2, <1>3, <1>4, <1>5, <1>6 DEF P!Next

LEMMA PricesStart == P!Init => PricesInv
BY DEF P!Init, P!Empty, P!Side, PricesInv, BookInv, Uncrossed, P!Levels, PlanOrdered,
       P!PlanOrdered, CostCovered, P!CostCovered, P!Unhurried, P!Planned

\* The two quotes of a token never cross each other, for any book, tick, skew,
\* cost, multiplier and rush: each rounding and guard keeps the order.
THEOREM PlanOrderedCorrect == P!Spec => []PlanOrdered
<1>1. PricesInv => PlanOrdered
  BY DEF PricesInv
<1> QED
  BY <1>1, PricesStart, PricesStep, PTL DEF P!Spec

\* Without a tightened spread or a rush an ask covers the average cost, as far
\* as quotes may go, for any book, tick, skew, cost and widening.
THEOREM CostCoveredCorrect == P!Spec => []CostCovered
<1>1. PricesInv => CostCovered
  BY DEF PricesInv
<1> QED
  BY <1>1, PricesStart, PricesStep, PTL DEF P!Spec
=============================================================================
