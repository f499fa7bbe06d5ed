------------------------- MODULE LiveSession_proofs -------------------------
(***************************************************************************)
(* A LIVE session whose calls are not lost and whose rows are read keeps   *)
(* one open order per quote key and stays within its position limit but    *)
(* for one order; its first session's tracker and feed add up to the       *)
(* account.  For any sizes, limits, numbers of orders, faults and          *)
(* sessions.                                                               *)
(***************************************************************************)
EXTENDS LiveSession, SequenceTheorems, FiniteSetTheorems, WellFoundedInduction, TLAPS

LEMMA KeyParts ==
  ASSUME NEW k \in Key
  PROVE  k[1] \in Tokens /\ k[2] \in Sides
BY DEF Key

\* A quote key is a row key, one with the posted side is not a quote key, and
\* no two quote keys are posted alike.
LEMMA RowKeyParts ==
  /\ \A k \in Key : k \in RowKey /\ <<k[1], Posted(k[2])>> \in RowKey \ Key
  /\ \A k, l \in Key : <<k[1], Posted(k[2])>> = <<l[1], Posted(l[2])>> => k = l
  /\ \A k \in RowKey : k[1] \in Tokens
  /\ \A k \in RowKey : k[2] = "buy" => k \in Key
<1>1. \A k \in Key : k = <<k[1], k[2]>> /\ k[1] \in Tokens /\ (k[2] = "buy" \/ k[2] = "sell")
  BY DEF Key, Sides
<1>2. Posted("buy") = "BUY" /\ Posted("sell") = "SELL"
  BY DEF Posted
<1>3. \A k \in RowKey : k = <<k[1], k[2]>> /\ k[1] \in Tokens
  BY DEF RowKey
<1>4. \A k \in Key : k \in RowKey /\ <<k[1], Posted(k[2])>> \in RowKey
  BY <1>1, <1>2 DEF RowKey
<1>5. \A k, l \in Key : <<k[1], Posted(k[2])>> = <<l[1], Posted(l[2])>> => k = l
  BY <1>1, <1>2
<1>6. \A k \in Key : <<k[1], Posted(k[2])>> \notin Key
  BY <1>1, <1>2 DEF Key, Sides
<1>7. \A k \in RowKey : k[2] = "buy" => k \in Key
  BY <1>3 DEF Key, Sides
<1> QED
  BY <1>3, <1>4, <1>5, <1>6, <1>7

\* Every key has its place.
LEMMA KeyListed ==
  ASSUME NEW k \in RowKey
  PROVE  \E i \in 1..Len(Keys) : Keys[i] = k
BY LiveAssumption

LEMMA SomeKeys == Len(Keys) \in Nat /\ Len(Keys) >= 1
<1>1. <<Yes, "buy">> \in RowKey
  BY DEF RowKey, Tokens
<1>2. \E i \in 1..Len(Keys) : Keys[i] = <<Yes, "buy">>
  BY <1>1, KeyListed
<1>3. Len(Keys) \in Nat
  BY LiveAssumption
<1> QED
  BY <1>2, <1>3

-----------------------------------------------------------------------------
(* Type correctness.                                                       *)

LEMMA InitType == Init => TypeOK
<1> SUFFICES ASSUME Init PROVE TypeOK
  OBVIOUS
<1>1. 0 \in 0..Len(Keys) /\ 0 \in 0..MaxOrders /\ 1 \in 1..MaxSessions /\ MaxFaults \in 0..MaxFaults
  BY SomeKeys, LiveAssumption
<1>2. Nothing \in [Tokens -> Nat] /\ NoOrders \in [RowKey -> Nat]
  BY <1>1 DEF Nothing, NoOrders
<1>3. <<>> \in Seq(Report) /\ {} \subseteq Order /\ {} \subseteq Nat \X Nat \X Nat
  OBVIOUS
<1> QED
  BY <1>1, <1>2, <1>3 DEF Init, TypeOK

LEMMA MergedType ==
  ASSUME TypeOK
  PROVE  Merged \in [Tokens -> Nat]
<1> DEFINE amount == Smaller(position[Yes], position[No])
<1>1. position[Yes] \in Nat /\ position[No] \in Nat
  BY DEF TypeOK, Tokens
<1>2. amount \in Nat /\ amount <= position[Yes] /\ amount <= position[No]
  BY <1>1 DEF Smaller
<1>3. \A t \in Tokens : position[t] - amount \in Nat
  BY <1>1, <1>2 DEF Tokens
<1>4. Merged = IF amount >= MinMerge THEN [t \in Tokens |-> position[t] - amount] ELSE position
  BY DEF Merged
<1> HIDE DEF amount
<1> QED
  BY <1>3, <1>4 DEF TypeOK

\* What is spent was there.
LEMMA SpendType ==
  ASSUME TypeOK, NEW cost \in Nat, Spend(cost)
  PROVE  faults' \in 0..MaxFaults
BY LiveAssumption DEF TypeOK, Spend

\* A snapshot gives every key that a row goes to the order of such a row.
LEMMA SnapshotParts ==
  ASSUME TypeOK, NEW form, NEW s \in Snapshots(form)
  PROVE  /\ s \in [RowKey -> Nat]
         /\ \A o \in orders, k \in RowKey : k \in Filed(o.key, form) => s[k] \in Listed(k, form)
<1> DEFINE found == UNION {Filed(o.key, form) : o \in orders}
<1>1. PICK last \in [found -> {o.id : o \in orders}] :
        /\ \A k \in found : last[k] \in Listed(k, form)
        /\ s = [k \in RowKey |-> IF k \in found THEN last[k] ELSE 0]
  BY DEF Snapshots
<1>2. \A o \in orders, k \in RowKey : k \in Filed(o.key, form) => k \in found
  OBVIOUS
<1>3. \A o \in orders : o.id \in Nat
  BY DEF TypeOK, Order
<1> HIDE DEF found
<1>4. \A k \in found : last[k] \in Nat
  BY <1>1, <1>3
<1> QED
  BY <1>1, <1>2, <1>4

LEMMA StartPassType ==
  ASSUME TypeOK, StartPass
  PROVE  TypeOK'
<1>1. position' \in [Tokens -> Nat] /\ sellable' \in [Tokens -> Nat]
  BY MergedType DEF StartPass
<1>2. snapshot' \in [RowKey -> Nat]
  <2>1. NoOrders \in [RowKey -> Nat]
    BY DEF NoOrders
  <2> QED
    BY <2>1, SnapshotParts DEF StartPass
<1>3. faults' \in 0..MaxFaults
  BY SpendType DEF StartPass, TypeOK
<1>4. key' \in 0..Len(Keys)
  BY SomeKeys DEF StartPass
<1>5. quoting' \in BOOLEAN /\ misled' \in BOOLEAN
  BY DEF StartPass, TypeOK
<1> QED
  BY <1>1, <1>2, <1>3, <1>4, <1>5 DEF StartPass, TypeOK, exchange, feed

\* What settling a key does to its orders: some, at most that of the snapshot,
\* go, and up to copies of a new one come, of a quote key only.
SettlesTo(k, open, copies) ==
  /\ open \subseteq orders
  /\ copies \in Nat
  /\ copies > 0 => k \in Key
  /\ \E size \in Nat \ {0} :
       orders' = open \cup {[id |-> issued + i, key |-> k, left |-> size] : i \in 1..copies}
  /\ issued' = issued + copies
  /\ issued' <= MaxOrders

LEMMA PlaceEffect ==
  ASSUME TypeOK, NEW k \in Key, NEW size \in Nat \ {0}, NEW open \in SUBSET orders,
         NEW failed \in {0, 1}, Place(k, size, open, failed)
  PROVE  /\ faults' \in 0..MaxFaults
         /\ \E copies \in Nat :
              /\ SettlesTo(k, open, copies)
              /\ copies > 1 => "timeout" \in Faults
<1>1. issued \in Nat /\ issued <= MaxOrders /\ MaxRetries \in Nat
  BY LiveAssumption DEF TypeOK
<1>2. CASE Refused(k, size) /\ orders' = open /\ Spend(failed) /\ UNCHANGED issued
  <2>1. {[id |-> issued + i, key |-> k, left |-> size] : i \in 1..0} = {}
    OBVIOUS
  <2>2. SettlesTo(k, open, 0)
    BY <1>1, <1>2, <2>1 DEF SettlesTo
  <2> QED
    BY <1>2, <2>2, SpendType
<1>3. ASSUME NEW copies \in Copies,
             May(IF copies = 0 THEN "refusal" ELSE "timeout", FaultsOf(copies)),
             Accept(k, size, open, copies),
             Spend(failed + FaultsOf(copies))
      PROVE  /\ faults' \in 0..MaxFaults
             /\ SettlesTo(k, open, copies)
             /\ copies > 1 => "timeout" \in Faults
             /\ copies \in Nat
  <2>1. copies \in Nat /\ FaultsOf(copies) \in Nat
    BY <1>1 DEF Copies, FaultsOf
  <2>2. SettlesTo(k, open, copies)
    BY <1>1, <1>3, <2>1 DEF Accept, SettlesTo
  <2>3. faults' \in 0..MaxFaults
    BY <1>3, <2>1, SpendType
  <2>4. copies > 1 => "timeout" \in Faults
    BY <1>3, <2>1 DEF May, FaultsOf
  <2> QED
    BY <2>1, <2>2, <2>3, <2>4
<1> QED
  BY <1>2, <1>3 DEF Place

\* An order is left alone under a quote key only; where no cancellation fails
\* the order of the snapshot goes, and one order comes if no placement times out.
LEMMA SettleEffect ==
  ASSUME TypeOK, NEW k \in RowKey, NEW id \in Nat, Settle(k, id)
  PROVE  /\ faults' \in 0..MaxFaults
         /\ \/ k \in Key /\ UNCHANGED <<orders, issued>>
            \/ \E open \in SUBSET orders, copies \in Nat :
                 /\ SettlesTo(k, open, copies)
                 /\ copies > 1 => "timeout" \in Faults
                 /\ open = Without(id) \/ "cancel" \in Faults
<1>1. ASSUME NEW failed \in {0} \cup (IF id = 0 THEN {} ELSE {1}), May("cancel", failed),
             NEW open, open = IF failed = 1 THEN orders ELSE Without(id),
             \/ orders' = open /\ Spend(failed) /\ UNCHANGED issued
             \/ \E size \in Desirable(k) : Place(k, size, open, failed)
      PROVE  /\ faults' \in 0..MaxFaults
             /\ \E copies \in Nat :
                  /\ open \in SUBSET orders
                  /\ SettlesTo(k, open, copies)
                  /\ copies > 1 => "timeout" \in Faults
                  /\ open = Without(id) \/ "cancel" \in Faults
  <2>1. failed \in {0, 1}
    OBVIOUS
  <2>2. open \in SUBSET orders
    BY <1>1 DEF Without
  <2>3. open = Without(id) \/ "cancel" \in Faults
    BY <1>1, <2>1 DEF May
  <2>4. CASE orders' = open /\ Spend(failed) /\ UNCHANGED issued
    <3>1. {[id |-> issued + i, key |-> k, left |-> 1] : i \in 1..0} = {}
      OBVIOUS
    <3>2. issued \in Nat /\ issued <= MaxOrders
      BY LiveAssumption DEF TypeOK
    <3>3. SettlesTo(k, open, 0)
      BY <2>2, <2>4, <3>1, <3>2 DEF SettlesTo
    <3> QED
      BY <2>1, <2>2, <2>3, <2>4, <3>3, SpendType
  <2>5. ASSUME NEW size \in Desirable(k), Place(k, size, open, failed)
        PROVE  /\ faults' \in 0..MaxFaults
               /\ \E copies \in Nat :
                    /\ open \in SUBSET orders
                    /\ SettlesTo(k, open, copies)
                    /\ copies > 1 => "timeout" \in Faults
                    /\ open = Without(id) \/ "cancel" \in Faults
    <3>1. size \in Nat \ {0} /\ k \in Key
      BY LiveAssumption DEF Desirable
    <3> QED
      BY <2>1, <2>2, <2>3, <2>5, <3>1, PlaceEffect
  <2> QED
    BY <1>1, <2>4, <2>5
<1>2. CASE Desirable(k) # {} /\ UNCHANGED <<orders, issued, faults>>
  BY <1>2 DEF TypeOK, Desirable
<1> QED
  BY <1>1, <1>2 DEF Settle

LEMMA SettlesType ==
  ASSUME TypeOK, NEW k \in RowKey, NEW open, NEW copies, SettlesTo(k, open, copies)
  PROVE  orders' \subseteq Order /\ issued' \in 0..MaxOrders
<1>1. issued \in Nat /\ MaxOrders \in Nat /\ copies \in Nat
  BY LiveAssumption DEF TypeOK, SettlesTo
<1>2. PICK size \in Nat \ {0} :
        orders' = open \cup {[id |-> issued + i, key |-> k, left |-> size] : i \in 1..copies}
  BY DEF SettlesTo
<1>3. \A i \in 1..copies : [id |-> issued + i, key |-> k, left |-> size] \in Order
  <2>1. \A i \in 1..copies : issued + i \in Nat \ {0} /\ k \in Key
    BY <1>1 DEF SettlesTo
  <2> QED
    BY <2>1 DEF Order
<1>4. orders' \subseteq Order
  BY <1>2, <1>3 DEF SettlesTo, TypeOK
<1> QED
  BY <1>1, <1>4 DEF SettlesTo

LEMMA SettleKeyType ==
  ASSUME TypeOK, SettleKey
  PROVE  TypeOK'
<1>1. key \in 1..Len(Keys) /\ Keys[key] \in RowKey
  BY LiveAssumption DEF TypeOK, SettleKey
<1>2. snapshot[Keys[key]] \in Nat
  BY <1>1 DEF TypeOK
<1>3. Settle(Keys[key], snapshot[Keys[key]])
  BY DEF SettleKey
<1>4. faults' \in 0..MaxFaults /\ orders' \subseteq Order /\ issued' \in 0..MaxOrders
  BY <1>1, <1>2, <1>3, SettleEffect, SettlesType DEF TypeOK
<1>5. key' \in 0..Len(Keys)
  BY <1>1, SomeKeys DEF SettleKey
<1>6. snapshot' \in [RowKey -> Nat] /\ sellable' \in [Tokens -> Nat] /\ quoting' \in BOOLEAN
  <2>1. NoOrders \in [RowKey -> Nat] /\ Nothing \in [Tokens -> Nat]
    BY LiveAssumption DEF NoOrders, Nothing
  <2> QED
    BY <2>1 DEF SettleKey, TypeOK
<1> QED
  BY <1>4, <1>5, <1>6 DEF SettleKey, TypeOK, feed, memory

\* What is left of an order is an order, under the same id and key.
Rest(o, q) == [o EXCEPT !.left = @ - q]

LEMMA RestType ==
  ASSUME NEW o \in Order, NEW q \in 1..o.left
  PROVE  /\ Rest(o, q).id = o.id
         /\ Rest(o, q).key = o.key
         /\ q < o.left => Rest(o, q) \in Order
<1>1. o.left \in Nat \ {0} /\ q \in Nat
  BY DEF Order
<1>2. q < o.left => o.left - q \in Nat \ {0}
  BY <1>1
<1> QED
  BY <1>2 DEF Rest, Order

LEMMA FillType ==
  ASSUME TypeOK, NEW o \in orders, NEW q \in 1..o.left, Fill(o, q)
  PROVE  TypeOK'
<1>1. o \in Order /\ o.left \in Nat \ {0} /\ q \in Nat \ {0} /\ o.id \in Nat \ {0}
  BY DEF TypeOK, Order
<1>2. o.key \in Key /\ o.key[1] \in Tokens /\ o.key[2] \in Sides
  BY <1>1, KeyParts DEF Order
<1>3. orders' \subseteq Order
  BY <1>1, RestType DEF Fill, Rest, TypeOK
<1>4. balance' \in [Tokens -> Nat]
  <2>1. balance[o.key[1]] \in Nat
    BY <1>2 DEF TypeOK
  <2>2. (IF o.key[2] = "buy" THEN balance[o.key[1]] + q ELSE balance[o.key[1]] - q) \in Nat
    BY <1>1, <1>2, <2>1 DEF Fill, Sides
  <2> QED
    BY <2>2 DEF Fill, TypeOK
<1>5. trades' \in Nat /\ trades + 1 \in Nat \ {0}
  BY DEF Fill, TypeOK
<1>6. news' \in Seq(Report)
  <2>1. [order |-> o.id, key |-> o.key, size |-> q, trade |-> trades + 1] \in Report
    BY <1>1, <1>2, <1>5 DEF Report
  <2> QED
    BY <2>1 DEF Fill, TypeOK
<1> QED
  BY <1>3, <1>4, <1>5, <1>6 DEF Fill, TypeOK, pass, memory

LEMMA AfterType ==
  ASSUME NEW pos \in [Tokens -> Nat], NEW r \in Report
  PROVE  After(pos, r) \in [Tokens -> Nat]
<1>1. r.key[1] \in Tokens /\ r.size \in Nat
  BY KeyParts DEF Report
<1>2. pos[r.key[1]] \in Nat
  BY <1>1
<1>3. pos[r.key[1]] + r.size \in Nat /\ Larger(0, pos[r.key[1]] - r.size) \in Nat
  BY <1>1, <1>2 DEF Larger
<1> QED
  BY <1>3 DEF After

LEMMA DeliverType ==
  ASSUME TypeOK, Deliver
  PROVE  TypeOK'
<1> DEFINE r == Head(news)
<1>1. r \in Report /\ Tail(news) \in Seq(Report)
  BY DEF TypeOK, Deliver
<1>2. Handle(r)
  BY DEF Deliver
<1>3. Identity(r) \in Nat \X Nat \X Nat
  BY <1>1 DEF Identity, Report
<1>4. seen' \subseteq Nat \X Nat \X Nat
  BY <1>2, <1>3 DEF Handle, TypeOK
<1>5. position' \in [Tokens -> Nat] /\ brokerPosition' \in [Tokens -> Nat]
  BY <1>1, <1>2, AfterType DEF Handle, TypeOK
<1>6. lossHit' \in BOOLEAN
  BY <1>2 DEF Handle, TypeOK
<1>7. news' \in Seq(Report) /\ misled' \in BOOLEAN
  BY <1>1 DEF Deliver, TypeOK
<1>8. faults' \in 0..MaxFaults
  BY SpendType DEF Deliver, TypeOK
<1> QED
  BY <1>4, <1>5, <1>6, <1>7, <1>8 DEF Deliver, TypeOK, exchange, pass

LEMMA LeaveType ==
  ASSUME TypeOK, Leave, orders' \subseteq Order, session' \in {"stopped", "crashed"},
         faults' \in 0..MaxFaults
  PROVE  TypeOK'
<1>1. NoOrders \in [RowKey -> Nat] /\ Nothing \in [Tokens -> Nat]
  BY LiveAssumption DEF NoOrders, Nothing
<1>2. 0 \in 0..Len(Keys)
  BY SomeKeys
<1>3. <<>> \in Seq(Report)
  OBVIOUS
<1> QED
  BY <1>1, <1>2, <1>3 DEF Leave, TypeOK, memory

LEMMA OtherType ==
  ASSUME TypeOK, Disconnect \/ Reconnect \/ Stop \/ Crash \/ Restart
  PROVE  TypeOK'
<1>1. CASE Disconnect
  <2>1. faults' \in 0..MaxFaults
    BY <1>1, SpendType DEF Disconnect
  <2>2. <<>> \in Seq(Report)
    OBVIOUS
  <2> QED
    BY <1>1, <2>1, <2>2 DEF Disconnect, TypeOK, exchange, pass, memory
<1>2. CASE Reconnect
  BY <1>2 DEF Reconnect, TypeOK, exchange, pass, memory
<1>3. CASE Stop
  <2>1. faults' \in 0..MaxFaults
    BY <1>3, SpendType DEF Stop, TypeOK
  <2> QED
    BY <1>3, <2>1, LeaveType DEF Stop, TypeOK
<1>4. CASE Crash
  <2>1. faults' \in 0..MaxFaults
    BY <1>4, SpendType DEF Crash
  <2> QED
    BY <1>4, <2>1, LeaveType DEF Crash, TypeOK
<1>5. CASE Restart
  <2>1. Nothing \in [Tokens -> Nat]
    BY DEF Nothing
  <2>2. sessions' \in 1..MaxSessions
    BY <1>5, LiveAssumption DEF Restart, TypeOK
  <2>3. {} \subseteq Nat \X Nat \X Nat
    OBVIOUS
  <2> QED
    BY <1>5, <2>1, <2>2, <2>3 DEF Restart, TypeOK, exchange, pass
<1> QED
  BY <1>1, <1>2, <1>3, <1>4, <1>5

LEMMA NextType ==
  ASSUME TypeOK, [Next]_vars
  PROVE  TypeOK'
<1>1. CASE UNCHANGED vars
  BY <1>1 DEF vars, exchange, feed, pass, memory, TypeOK
<1> QED
  BY <1>1, StartPassType, SettleKeyType, FillType, DeliverType, OtherType DEF Next

\* Every variable keeps its type: what is spent on faults was there, no count
\* of holdings goes below zero, and a pass stays within the list of keys.
THEOREM TypeCorrect == Spec => []TypeOK
<1> QED
  BY InitType, NextType, PTL DEF Spec

-----------------------------------------------------------------------------
(* One order per quote.                                                    *)

\* Of a quote key the pass has yet to settle, the exchange holds the order the
\* snapshot names, under a key that is yet to be settled too, or none.
Known ==
  \A o \in orders, j \in 1..Len(Keys) :
    key > 0 /\ j >= key /\ Keys[j] = o.key =>
      \E i \in key..j :
        /\ snapshot[Keys[i]] = o.id
        /\ Keys[i] = o.key \/ Keys[i] = <<o.key[1], Posted(o.key[2])>>

OneOrderInv == TypeOK /\ OneOrderPerQuote /\ Known

\* No call is lost or made again.
Calm == Faults \cap {"timeout", "cancel", "snapshot"} = {}

\* The client's rows have the names that are looked for.
RowsRead == "unread" \notin RowForms

LEMMA StartPassOne ==
  ASSUME Calm, RowsRead, OneOrderInv, StartPass
  PROVE  OneOrderPerQuote' /\ Known'
<1>1. PICK form \in {"paper", "posted"} : snapshot' \in Snapshots(form)
  BY LiveAssumption DEF Calm, RowsRead, StartPass, May, Forms
<1>2. TypeOK /\ orders' = orders /\ key' = 1
  BY DEF OneOrderInv, StartPass, exchange
<1>3. ASSUME NEW o \in orders, NEW j \in 1..Len(Keys), Keys[j] = o.key
      PROVE  \E i \in 1..j : /\ snapshot'[Keys[i]] = o.id
                             /\ Keys[i] = o.key \/ Keys[i] = <<o.key[1], Posted(o.key[2])>>
  <2> DEFINE k == IF form = "paper" THEN o.key ELSE <<o.key[1], Posted(o.key[2])>>
  <2>1. o.key \in Key /\ k \in RowKey /\ Filed(o.key, form) = {k}
    BY <1>1, <1>2, RowKeyParts DEF TypeOK, Order, Filed
  <2>2. \A p \in orders : p.key \in Key /\ (k \in Filed(p.key, form) => p.key = o.key)
    <3>1. \A p \in orders : p.key \in Key
      BY <1>2 DEF TypeOK, Order
    <3> QED
      BY <1>1, <2>1, <3>1, RowKeyParts DEF Filed
  <2>3. PICK i \in 1..Len(Keys) : Keys[i] = k
    BY <2>1, KeyListed
  <2>4. i <= j
    BY <1>3, <2>1, <2>3, LiveAssumption
  <2> HIDE DEF k
  <2>5. snapshot'[k] \in Listed(k, form)
    BY <1>1, <1>2, <2>1, SnapshotParts
  <2>6. PICK p \in orders : k \in Filed(p.key, form) /\ snapshot'[k] = p.id
    BY <2>5 DEF Listed
  <2>7. p = o
    BY <2>2, <2>6 DEF OneOrderInv, OneOrderPerQuote
  <2> QED
    BY <2>3, <2>4, <2>6, <2>7 DEF k
<1> QED
  BY <1>2, <1>3 DEF Known, OneOrderInv, OneOrderPerQuote

\* The order the snapshot names under a posted key goes, that of a quote key is
\* left alone or goes, and one at most comes in its place.
LEMMA SettleOne ==
  ASSUME Calm, OneOrderInv, SettleKey
  PROVE  /\ \A o, p \in orders' : o.key = p.key => o = p
         /\ \A o \in orders' :
              \/ o.key = Keys[key]
              \/ o \in orders /\ (o.id = snapshot[Keys[key]] => Keys[key] \in Key)
<1> DEFINE k == Keys[key]
<1>1. key \in 1..Len(Keys) /\ k \in RowKey
  BY LiveAssumption DEF OneOrderInv, TypeOK, SettleKey
<1>2. snapshot[k] \in Nat
  BY <1>1 DEF OneOrderInv, TypeOK
<1>3. Settle(k, snapshot[k])
  BY DEF SettleKey
<1>4. CASE k \in Key /\ UNCHANGED <<orders, issued>>
  BY <1>4 DEF OneOrderInv, OneOrderPerQuote
<1>5. ASSUME NEW copies \in Nat, SettlesTo(k, Without(snapshot[k]), copies),
             copies > 1 => "timeout" \in Faults
      PROVE  /\ \A o, p \in orders' : o.key = p.key => o = p
             /\ \A o \in orders' : o.key = k \/ (o \in orders /\ o.id # snapshot[k])
  <2>1. copies = 0 \/ copies = 1
    BY <1>5 DEF Calm
  <2>2. PICK size \in Nat \ {0} :
          orders' = Without(snapshot[k])
                      \cup {[id |-> issued + i, key |-> k, left |-> size] : i \in 1..copies}
    BY <1>5 DEF SettlesTo
  <2>3. \A o \in Without(snapshot[k]) : o \in orders /\ o.id # snapshot[k]
    BY DEF Without
  <2>4. \A o \in Without(snapshot[k]) : o.key # k
    <3> SUFFICES ASSUME NEW o \in Without(snapshot[k]), o.key = k PROVE FALSE
      OBVIOUS
    <3>1. key > 0 /\ key \in 1..Len(Keys) /\ Keys[key] = o.key
      BY <1>1
    <3>2. PICK i \in key..key : snapshot[Keys[i]] = o.id
      BY <2>3, <3>1 DEF OneOrderInv, Known
    <3>3. i = key
      BY <1>1, <3>2
    <3> QED
      BY <2>3, <3>2, <3>3
  <2> DEFINE new == [id |-> issued + 1, key |-> k, left |-> size]
  <2>5. \A o \in orders' : o \in Without(snapshot[k]) \/ o = new
    BY <2>1, <2>2
  <2>6. new.key = k
    OBVIOUS
  <2> HIDE DEF new, k
  <2> QED
    BY <2>3, <2>4, <2>5, <2>6 DEF OneOrderInv, OneOrderPerQuote
<1>6. "timeout" \notin Faults /\ "cancel" \notin Faults
  BY DEF Calm
<1>7. TypeOK
  BY DEF OneOrderInv
<1> HIDE DEF k
<1>8. \/ k \in Key /\ UNCHANGED <<orders, issued>>
      \/ \E copies \in Nat :
           /\ SettlesTo(k, Without(snapshot[k]), copies)
           /\ copies > 1 => "timeout" \in Faults
  BY <1>1, <1>2, <1>3, <1>6, <1>7, SettleEffect
<1> QED
  BY <1>4, <1>5, <1>8 DEF k

LEMMA SettleKeyOne ==
  ASSUME Calm, OneOrderInv, SettleKey
  PROVE  OneOrderPerQuote' /\ Known'
<1>1. key \in 1..Len(Keys)
  BY LiveAssumption DEF OneOrderInv, TypeOK, SettleKey
<1>2. ASSUME NEW o \in orders', NEW j \in 1..Len(Keys), key' > 0, j >= key', Keys[j] = o.key
      PROVE  \E i \in key'..j : /\ snapshot'[Keys[i]] = o.id
                                /\ Keys[i] = o.key \/ Keys[i] = <<o.key[1], Posted(o.key[2])>>
  <2>1. key' = key + 1 /\ snapshot' = snapshot
    BY <1>2 DEF SettleKey
  <2>2. j # key /\ Keys[j] # Keys[key]
    BY <1>1, <1>2, <2>1, LiveAssumption
  <2>3. o \in orders /\ (o.id = snapshot[Keys[key]] => Keys[key] \in Key)
    BY <1>2, <2>2, SettleOne
  <2>4. PICK i \in key..j : /\ snapshot[Keys[i]] = o.id
                            /\ Keys[i] = o.key \/ Keys[i] = <<o.key[1], Posted(o.key[2])>>
    BY <1>1, <1>2, <2>1, <2>3 DEF OneOrderInv, Known
  <2>5. i # key
    <3>1. o.key \in Key
      BY <2>3 DEF OneOrderInv, TypeOK, Order
    <3> QED
      BY <1>2, <2>2, <2>3, <2>4, <3>1, RowKeyParts
  <2>6. i \in key'..j
    BY <1>1, <2>1, <2>4, <2>5
  <2> QED
    BY <2>1, <2>4, <2>6
<1> QED
  BY <1>2, SettleOne DEF OneOrderPerQuote, Known

LEMMA FillOne ==
  ASSUME OneOrderInv, NEW o \in orders, NEW q \in 1..o.left, Fill(o, q)
  PROVE  OneOrderPerQuote' /\ Known'
<1>1. o \in Order
  BY DEF OneOrderInv, TypeOK
<1>2. \A p \in orders' : (p \in orders /\ p # o) \/ p = Rest(o, q)
  BY DEF Fill, Rest
<1>3. Rest(o, q).id = o.id /\ Rest(o, q).key = o.key
  BY <1>1, RestType
<1>4. snapshot' = snapshot /\ key' = key
  BY DEF Fill, pass
<1>5. OneOrderPerQuote'
  BY <1>2, <1>3 DEF OneOrderInv, OneOrderPerQuote
<1>6. Known'
  <2>1. \A p \in orders' : \E r \in orders : p.id = r.id /\ p.key = r.key
    BY <1>2, <1>3
  <2>2. Known
    BY DEF OneOrderInv
  <2> SUFFICES ASSUME NEW p \in orders', NEW j \in 1..Len(Keys), key > 0, j >= key, Keys[j] = p.key
               PROVE  \E i \in key..j :
                        /\ snapshot[Keys[i]] = p.id
                        /\ Keys[i] = p.key \/ Keys[i] = <<p.key[1], Posted(p.key[2])>>
    BY <1>4 DEF Known
  <2>3. PICK r \in orders : p.id = r.id /\ p.key = r.key
    BY <2>1
  <2> QED
    BY <2>2, <2>3 DEF Known
<1> QED
  BY <1>5, <1>6

LEMMA OtherOne ==
  ASSUME OneOrderInv,
         Deliver \/ Disconnect \/ Reconnect \/ Stop \/ Crash \/ Restart \/ UNCHANGED vars
  PROVE  OneOrderPerQuote' /\ Known'
<1>1. orders' = {} \/ orders' = orders
  BY DEF Deliver, Disconnect, Reconnect, Stop, Crash, Restart, vars, exchange
<1>2. key' = 0 \/ UNCHANGED <<key, snapshot>>
  BY DEF Deliver, Disconnect, Reconnect, Stop, Crash, Restart, Leave, vars, pass
<1>3. Known'
  <2>1. CASE key' = 0
    BY <2>1 DEF Known
  <2>2. CASE orders' = {}
    BY <2>2 DEF Known
  <2>3. CASE orders' = orders /\ UNCHANGED <<key, snapshot>>
    BY <2>3 DEF OneOrderInv, Known
  <2> QED
    BY <1>1, <1>2, <2>1, <2>2, <2>3
<1> QED
  BY <1>1, <1>3 DEF OneOrderInv, OneOrderPerQuote

LEMMA NextOne ==
  ASSUME Calm, RowsRead, OneOrderInv, [Next]_vars
  PROVE  OneOrderInv'
<1>1. TypeOK'
  BY NextType DEF OneOrderInv
<1>2. OneOrderPerQuote' /\ Known'
  BY StartPassOne, SettleKeyOne, FillOne, OtherOne DEF Next
<1> QED
  BY <1>1, <1>2 DEF OneOrderInv

\* A session whose calls are neither lost nor retried, and whose rows have the
\* names that are looked for, never has two orders of a quote key on offer,
\* through fills in the middle of a pass, a feed that is down or repeats itself,
\* failed cancel_all calls, crashes and new sessions.  The orders it cancels are
\* read from the exchange at the start of each pass; one whose side comes back
\* as it was posted is taken for that of another key, of which nothing is
\* desired, and that key is settled before the quote key is placed anew.
THEOREM OneOrderCorrect ==
  ASSUME Calm, RowsRead
  PROVE  Spec => []OneOrderPerQuote
<1>1. Init => OneOrderInv
  <2>1. Init => OneOrderPerQuote /\ Known
    BY DEF Init, OneOrderPerQuote, Known
  <2> QED
    BY <2>1, InitType DEF OneOrderInv
<1>2. OneOrderInv /\ [Next]_vars => OneOrderInv'
  BY NextOne
<1>3. OneOrderInv => OneOrderPerQuote
  BY DEF OneOrderInv
<1> QED
  BY <1>1, <1>2, <1>3, PTL DEF Spec

-----------------------------------------------------------------------------
(* Sums.  Lots adds up a set of reports by taking out one after the other; *)
(* what it yields is shown by looking at a smallest set for which it would *)
(* not.                                                                    *)

\* A set of naturals has a least element.
LEMMA Least ==
  ASSUME NEW S, S \subseteq Nat, S # {}
  PROVE  \E x \in S : \A y \in S : x <= y
<1> DEFINE B == OpToRel(<, Nat)
<1>1. IsWellFoundedOn(B, Nat)
  BY NatLessThanWellFounded, Zenon
<1>2. ASSUME NEW x \in Nat, NEW y \in Nat, ~(<<y, x>> \in B)
      PROVE  x <= y
  BY <1>2 DEF OpToRel
<1> HIDE DEF B
<1>3. PICK x \in S : \A y \in S : ~(<<y, x>> \in B)
  BY <1>1, WFMin, Zenon
<1>4. \A y \in S : x <= y
  BY <1>2, <1>3
<1> QED
  BY <1>4

\* Finite sets of things that have a size, and the one taken out first.
Sized(S) == IsFiniteSet(S) /\ \A x \in S : x.size \in Nat
First(S) == CHOOSE x \in S : TRUE

LEMMA WithoutOne ==
  ASSUME NEW S, Sized(S), NEW x \in S
  PROVE  /\ Sized(S \ {x})
         /\ Cardinality(S) \in Nat /\ Cardinality(S) > 0
         /\ Cardinality(S \ {x}) = Cardinality(S) - 1
<1>1. IsFiniteSet(S \ {x}) /\ Cardinality(S \ {x}) = Cardinality(S) - 1
  BY FS_RemoveElement DEF Sized
<1>2. Cardinality(S) \in Nat /\ Cardinality(S \ {x}) \in Nat
  BY <1>1, FS_CardinalityType DEF Sized
<1> QED
  BY <1>1, <1>2 DEF Sized

LEMMA FirstOne ==
  ASSUME NEW S, S # {}
  PROVE  First(S) \in S
BY DEF First

\* The function that Lots is defined by, up to sets of a number of elements.
SumsUpTo(T, n, f) ==
  f = [S \in {R \in SUBSET T : Cardinality(R) <= n} |->
         IF S = {} THEN 0 ELSE First(S).size + f[S \ {First(S)}]]
Sums(T, f) == f = [S \in SUBSET T |-> IF S = {} THEN 0 ELSE First(S).size + f[S \ {First(S)}]]

LEMMA LotsIsSum ==
  ASSUME NEW T
  PROVE  Lots(T) = (CHOOSE f : Sums(T, f))[T]
BY Zenon DEF Lots, MapThenSumSet, MapThenFoldSet, Sums, First

LEMMA SubsetSized ==
  ASSUME NEW T, Sized(T), NEW S \in SUBSET T
  PROVE  Sized(S) /\ Cardinality(S) \in Nat /\ Cardinality(S) <= Cardinality(T) /\ Cardinality(T) \in Nat
BY FS_Subset, FS_CardinalityType DEF Sized

LEMMA SumsUpToExist ==
  ASSUME NEW T, Sized(T), NEW n \in Nat
  PROVE  \E f : SumsUpTo(T, n, f)
<1> DEFINE bad == {m \in Nat : ~ \E f : SumsUpTo(T, m, f)}
<1> SUFFICES ASSUME bad # {} PROVE FALSE
  OBVIOUS
<1>1. PICK m \in bad : \A k \in bad : m <= k
  <2> HIDE DEF bad
  <2>1. bad \subseteq Nat
    BY DEF bad
  <2> QED
    BY <2>1, Least, Zenon
<1>2. m \in Nat /\ ~ \E f : SumsUpTo(T, m, f)
  BY <1>1
<1>3. \A k \in Nat : k < m => \E f : SumsUpTo(T, k, f)
  BY <1>1
<1>4. CASE m = 0
  <2> DEFINE D == {R \in SUBSET T : Cardinality(R) <= 0}
             f == [S \in D |-> 0]
  <2>1. \A S \in D : S = {}
    BY SubsetSized, FS_EmptySet DEF Sized
  <2>2. f = [S \in D |-> IF S = {} THEN 0 ELSE First(S).size + f[S \ {First(S)}]]
    <3> HIDE DEF D
    <3> QED
      BY <2>1
  <2>3. SumsUpTo(T, m, f)
    BY <1>4, <2>2, Zenon DEF SumsUpTo
  <2> QED
    BY <1>2, <2>3, Zenon
<1>5. CASE m > 0
  <2>1. m - 1 \in Nat /\ m - 1 < m
    BY <1>2, <1>5
  <2>2. PICK f : SumsUpTo(T, m - 1, f)
    BY <1>3, <2>1
  <2> DEFINE A == {R \in SUBSET T : Cardinality(R) <= m - 1}
             D == {R \in SUBSET T : Cardinality(R) <= m}
             g == [S \in D |-> IF S = {} THEN 0 ELSE First(S).size + f[S \ {First(S)}]]
  <2>3. A \subseteq D /\ \A S \in D : S # {} => S \ {First(S)} \in A
    <3>1. A \subseteq D
      BY SubsetSized, <1>2
    <3>2. ASSUME NEW S \in D, S # {}
          PROVE  S \ {First(S)} \in A
      <4>1. Sized(S) /\ S \in SUBSET T /\ Cardinality(S) <= m /\ First(S) \in S
        BY <3>2, SubsetSized, FirstOne
      <4>2. Cardinality(S) \in Nat /\ Cardinality(S \ {First(S)}) = Cardinality(S) - 1
        BY <4>1, WithoutOne
      <4>3. Cardinality(S \ {First(S)}) <= m - 1
        BY <4>1, <4>2, <1>2
      <4> QED
        BY <4>1, <4>3
    <3> QED
      BY <3>1, <3>2
  <2>4. f = [S \in A |-> IF S = {} THEN 0 ELSE First(S).size + f[S \ {First(S)}]]
    BY <2>2, Zenon DEF SumsUpTo
  <2> HIDE DEF A, D
  <2>5. \A S \in A : f[S] = IF S = {} THEN 0 ELSE First(S).size + f[S \ {First(S)}]
    BY <2>4
  <2>6. \A S \in A : g[S] = f[S]
    BY <2>3, <2>5
  <2>7. \A S \in D : g[S] = IF S = {} THEN 0 ELSE First(S).size + g[S \ {First(S)}]
    BY <2>3, <2>6
  <2>8. g = [S \in D |-> IF S = {} THEN 0 ELSE First(S).size + g[S \ {First(S)}]]
    BY <2>7
  <2>9. SumsUpTo(T, m, g)
    <3> HIDE DEF g
    <3> QED
      BY <2>8, Zenon DEF SumsUpTo, D
  <2> QED
    BY <1>2, <2>9, Zenon
<1> QED
  BY <1>2, <1>4, <1>5

LEMMA SumsExist ==
  ASSUME NEW T, Sized(T)
  PROVE  \E f : Sums(T, f)
<1>1. Cardinality(T) \in Nat
  BY SubsetSized
<1>2. PICK f : SumsUpTo(T, Cardinality(T), f)
  BY <1>1, SumsUpToExist
<1>3. {R \in SUBSET T : Cardinality(R) <= Cardinality(T)} = SUBSET T
  BY SubsetSized
<1> QED
  BY <1>2, <1>3, Zenon DEF SumsUpTo, Sums

\* The sum over a set does not depend on the set it is taken from.
LEMMA SumsAgree ==
  ASSUME NEW T, Sized(T), NEW f, Sums(T, f), NEW U, NEW g, Sums(U, g), NEW S \in SUBSET T,
         S \in SUBSET U
  PROVE  f[S] = g[S]
<1> DEFINE bad == {m \in Nat : \E R \in SUBSET T :
                     R \in SUBSET U /\ Cardinality(R) = m /\ f[R] # g[R]}
<1>1. /\ \A R \in SUBSET T : f[R] = IF R = {} THEN 0 ELSE First(R).size + f[R \ {First(R)}]
      /\ \A R \in SUBSET U : g[R] = IF R = {} THEN 0 ELSE First(R).size + g[R \ {First(R)}]
  BY DEF Sums
<1>2. CASE bad = {}
  BY <1>2, SubsetSized
<1>3. CASE bad # {}
  <2>1. PICK m \in bad : \A k \in bad : m <= k
    <3> HIDE DEF bad
    <3>1. bad \subseteq Nat
      BY DEF bad
    <3> QED
      BY <1>3, <3>1, Least, Zenon
  <2>2. PICK R \in SUBSET T : R \in SUBSET U /\ Cardinality(R) = m /\ f[R] # g[R]
    BY <2>1
  <2>3. R # {}
    BY <1>1, <2>2
  <2> DEFINE Q == R \ {First(R)}
  <2>4. First(R) \in R /\ Sized(R)
    BY <2>2, <2>3, FirstOne, SubsetSized
  <2>5. Cardinality(Q) = m - 1 /\ m \in Nat /\ m > 0
    BY <2>2, <2>4, WithoutOne
  <2>6. m - 1 \notin bad
    BY <2>1, <2>5
  <2>7. Q \in SUBSET T /\ Q \in SUBSET U
    BY <2>2
  <2>8. f[Q] = g[Q]
    BY <2>5, <2>6, <2>7
  <2> QED
    BY <1>1, <2>2, <2>3, <2>8
<1> QED
  BY <1>2, <1>3

\* What Lots adds up.
LEMMA LotsTaken ==
  ASSUME NEW S, Sized(S)
  PROVE  Lots(S) = IF S = {} THEN 0 ELSE First(S).size + Lots(S \ {First(S)})
<1> DEFINE f == CHOOSE h : Sums(S, h)
<1>1. Sums(S, f)
  BY SumsExist
<1>2. Lots(S) = f[S]
  BY LotsIsSum
<1>3. f[S] = IF S = {} THEN 0 ELSE First(S).size + f[S \ {First(S)}]
  <2> HIDE DEF f
  <2>1. S \in SUBSET S
    OBVIOUS
  <2> QED
    BY <1>1, <2>1 DEF Sums
<1>4. CASE S = {}
  BY <1>2, <1>3, <1>4
<1>5. CASE S # {}
  <2> DEFINE Q == S \ {First(S)}
             g == CHOOSE h : Sums(Q, h)
  <2>1. Sized(Q)
    BY <1>5, FirstOne, WithoutOne
  <2>2. Sums(Q, g)
    BY <2>1, SumsExist
  <2>3. Lots(Q) = g[Q]
    BY LotsIsSum
  <2>4. Q \in SUBSET S /\ Q \in SUBSET Q
    OBVIOUS
  <2> HIDE DEF f, g, Q
  <2>5. f[Q] = g[Q]
    BY <1>1, <2>2, <2>4, SumsAgree
  <2> QED
    BY <1>2, <1>3, <1>5, <2>3, <2>5 DEF Q
<1> QED
  BY <1>4, <1>5

LEMMA LotsNatural ==
  ASSUME NEW T, Sized(T)
  PROVE  Lots(T) \in Nat
<1> DEFINE bad == {m \in Nat : \E S \in SUBSET T : Cardinality(S) = m /\ Lots(S) \notin Nat}
<1>1. CASE bad = {}
  BY <1>1, SubsetSized
<1>2. CASE bad # {}
  <2>1. PICK m \in bad : \A k \in bad : m <= k
    <3> HIDE DEF bad
    <3>1. bad \subseteq Nat
      BY DEF bad
    <3> QED
      BY <1>2, <3>1, Least, Zenon
  <2>2. PICK S \in SUBSET T : Cardinality(S) = m /\ Lots(S) \notin Nat
    BY <2>1
  <2>3. Sized(S)
    BY SubsetSized
  <2>4. ASSUME S = {} PROVE FALSE
    <3>1. Lots(S) = 0
      BY <2>3, <2>4, LotsTaken
    <3> QED
      BY <2>2, <3>1
  <2> DEFINE Q == S \ {First(S)}
  <2>5. First(S) \in S /\ First(S).size \in Nat
    BY <2>3, <2>4, FirstOne DEF Sized
  <2>6. Cardinality(Q) = m - 1 /\ m \in Nat /\ m > 0
    BY <2>2, <2>3, <2>5, WithoutOne
  <2>7. m - 1 \notin bad
    BY <2>1, <2>6
  <2>8. Lots(Q) \in Nat
    BY <2>6, <2>7
  <2> QED
    BY <2>2, <2>3, <2>4, <2>5, <2>8, LotsTaken
<1> QED
  BY <1>1, <1>2

\* A report adds its size, whichever is taken out.
LEMMA LotsWithout ==
  ASSUME NEW T, Sized(T), NEW z \in T
  PROVE  Lots(T) = z.size + Lots(T \ {z})
<1> DEFINE bad == {m \in Nat : \E S \in SUBSET T : \E x \in S :
                     Cardinality(S) = m /\ Lots(S) # x.size + Lots(S \ {x})}
<1>1. CASE bad = {}
  <2>1. T \in SUBSET T /\ Cardinality(T) \in Nat
    BY SubsetSized
  <2>2. Cardinality(T) \notin bad
    BY <1>1
  <2> QED
    BY <2>1, <2>2
<1>2. CASE bad # {}
  <2>1. PICK m \in bad : \A k \in bad : m <= k
    <3> HIDE DEF bad
    <3>1. bad \subseteq Nat
      BY DEF bad
    <3> QED
      BY <1>2, <3>1, Least, Zenon
  <2>s. PICK S \in SUBSET T : \E x \in S : Cardinality(S) = m /\ Lots(S) # x.size + Lots(S \ {x})
    BY <2>1
  <2>2. PICK x \in S : Cardinality(S) = m /\ Lots(S) # x.size + Lots(S \ {x})
    BY <2>s
  <2>3. Sized(S)
    BY SubsetSized
  <2> DEFINE y == First(S)
  <2>4. y \in S /\ Lots(S) = y.size + Lots(S \ {y})
    BY <2>2, <2>3, FirstOne, LotsTaken
  <2> HIDE DEF y
  <2>5. x # y
    BY <2>2, <2>4
  <2>6. /\ Cardinality(S \ {x}) = m - 1 /\ Cardinality(S \ {y}) = m - 1
        /\ m \in Nat /\ m > 0 /\ Sized(S \ {x}) /\ Sized(S \ {y})
    BY <2>2, <2>3, <2>4, WithoutOne
  <2>7. m - 1 \notin bad /\ m - 1 \in Nat
    <3> HIDE DEF bad
    <3> QED
      BY <2>1, <2>6
  <2>8. \A R \in SUBSET T : \A v \in R : Cardinality(R) = m - 1 => Lots(R) = v.size + Lots(R \ {v})
    BY <2>7, Zenon
  <2>9. Lots(S \ {x}) = y.size + Lots((S \ {x}) \ {y})
    BY <2>4, <2>5, <2>6, <2>8
  <2>10. Lots(S \ {y}) = x.size + Lots((S \ {y}) \ {x})
    BY <2>5, <2>6, <2>8
  <2>11. (S \ {x}) \ {y} = (S \ {y}) \ {x}
    OBVIOUS
  <2>12. Sized((S \ {x}) \ {y})
    BY <2>4, <2>5, <2>6, WithoutOne
  <2> DEFINE rest == Lots((S \ {x}) \ {y})
  <2>13. x.size \in Nat /\ y.size \in Nat /\ rest \in Nat
    BY <2>3, <2>4, <2>12, LotsNatural DEF Sized
  <2>14. Lots(S \ {x}) = y.size + rest /\ Lots(S \ {y}) = x.size + rest
    BY <2>9, <2>10, <2>11
  <2> HIDE DEF rest
  <2> QED
    BY <2>2, <2>4, <2>13, <2>14
<1> QED
  BY <1>1, <1>2

\* The sum with one report more.
LEMMA LotsWith ==
  ASSUME NEW T, Sized(T), NEW z, z \notin T, z.size \in Nat
  PROVE  Sized(T \cup {z}) /\ Lots(T \cup {z}) = Lots(T) + z.size /\ Lots(T) \in Nat
<1>1. Sized(T \cup {z})
  BY FS_AddElement DEF Sized
<1>2. Lots(T \cup {z}) = z.size + Lots((T \cup {z}) \ {z})
  BY <1>1, LotsWithout
<1>3. (T \cup {z}) \ {z} = T
  OBVIOUS
<1> QED
  BY <1>1, <1>2, <1>3, LotsNatural

-----------------------------------------------------------------------------
(* What the tracker and the feed add up to.                                *)

\* Holdings after a report, all of it taken off if it is a sale.
Moved(pos, r) ==
  [pos EXCEPT ![r.key[1]] = IF r.key[2] = "buy" THEN @ + r.size ELSE @ - r.size]
Lot(r, t, side) == IF r.key = <<t, side>> THEN r.size ELSE 0

LEMMA ReportParts ==
  ASSUME NEW r \in Report
  PROVE  /\ r.key \in Key /\ r.key[1] \in Tokens /\ r.key[2] \in {"buy", "sell"}
         /\ r.size \in Nat /\ r.size > 0 /\ r.order \in Nat /\ r.trade \in Nat
         /\ \A t, side : r.key = <<t, side>> <=> r.key[1] = t /\ r.key[2] = side
<1>1. r.key \in Key /\ r.size \in Nat \ {0} /\ r.order \in Nat /\ r.trade \in Nat
  BY DEF Report
<1>2. PICK u \in Tokens, d \in Sides : r.key = <<u, d>>
  BY <1>1 DEF Key
<1> QED
  BY <1>1, <1>2 DEF Sides

LEMMA MovedParts ==
  ASSUME NEW pos \in [Tokens -> Nat], NEW r \in Report,
         r.key[2] = "sell" => r.size <= pos[r.key[1]]
  PROVE  /\ Moved(pos, r) \in [Tokens -> Nat]
         /\ \A t \in Tokens : Moved(pos, r)[t] = pos[t] + Lot(r, t, "buy") - Lot(r, t, "sell")
         /\ After(pos, r) = Moved(pos, r)
         /\ \A t \in Tokens : Lot(r, t, "buy") \in Nat /\ Lot(r, t, "sell") \in Nat
<1> DEFINE u == r.key[1]
           d == r.key[2]
<1>1. /\ u \in Tokens /\ d \in {"buy", "sell"} /\ r.size \in Nat
      /\ \A t, side : r.key = <<t, side>> <=> u = t /\ d = side
  BY ReportParts
<1>2. d = "sell" => r.size <= pos[u]
  OBVIOUS
<1>3. /\ Moved(pos, r) = [pos EXCEPT ![u] = IF d = "buy" THEN pos[u] + r.size ELSE pos[u] - r.size]
      /\ After(pos, r) = [pos EXCEPT ![u] = IF d = "buy" THEN pos[u] + r.size ELSE Larger(0, pos[u] - r.size)]
  BY DEF Moved, After
<1>4. \A t, side : Lot(r, t, side) = IF u = t /\ d = side THEN r.size ELSE 0
  BY <1>1 DEF Lot
<1> HIDE DEF u, d
<1>5. pos[u] \in Nat
  BY <1>1
<1>6. Larger(0, pos[u] - r.size) = pos[u] - r.size \/ d = "buy"
  BY <1>1, <1>2, <1>5 DEF Larger
<1>7. (IF d = "buy" THEN pos[u] + r.size ELSE pos[u] - r.size) \in Nat
  BY <1>1, <1>2, <1>5
<1>8. Moved(pos, r) \in [Tokens -> Nat]
  BY <1>1, <1>3, <1>7
<1>9. After(pos, r) = Moved(pos, r)
  <2>1. CASE d = "buy"
    BY <1>3, <2>1
  <2>2. CASE d # "buy"
    BY <1>3, <1>6, <2>2
  <2> QED
    BY <2>1, <2>2
<1>10. ASSUME NEW t \in Tokens
       PROVE  Moved(pos, r)[t] = pos[t] + Lot(r, t, "buy") - Lot(r, t, "sell")
  <2>1. pos[t] \in Nat
    OBVIOUS
  <2>2. CASE u # t
    <3>1. Moved(pos, r)[t] = pos[t]
      BY <1>3, <2>2
    <3>2. Lot(r, t, "buy") = 0 /\ Lot(r, t, "sell") = 0
      BY <1>4, <2>2
    <3> QED
      BY <2>1, <3>1, <3>2
  <2>3. CASE u = t /\ d = "buy"
    <3>1. Moved(pos, r)[t] = pos[t] + r.size
      BY <1>1, <1>3, <2>3
    <3>2. Lot(r, t, "buy") = r.size /\ Lot(r, t, "sell") = 0
      BY <1>4, <2>3
    <3> QED
      BY <1>1, <2>1, <3>1, <3>2
  <2>4. CASE u = t /\ d = "sell"
    <3>1. Moved(pos, r)[t] = pos[t] - r.size
      BY <1>1, <1>3, <2>4
    <3>2. Lot(r, t, "buy") = 0 /\ Lot(r, t, "sell") = r.size
      BY <1>4, <2>4
    <3> QED
      BY <1>1, <2>1, <3>1, <3>2
  <2> QED
    BY <1>1, <2>2, <2>3, <2>4
<1>11. \A t \in Tokens : Lot(r, t, "buy") \in Nat /\ Lot(r, t, "sell") \in Nat
  BY <1>1, <1>4
<1> QED
  BY <1>8, <1>9, <1>10, <1>11

\* Reports are numbered in the order of trading, and what was counted is older.
InOrder(n, s, m) ==
  /\ \A i \in 1..Len(n) : n[i].trade <= m
  /\ \A i, j \in 1..Len(n) : i < j => n[i].trade < n[j].trade
  /\ \A id \in s : id[3] \in Nat /\ id[3] <= m

\* The holdings a tracker that has counted s comes to, from pos, as it handles
\* the reports n one by one.
Leads(path, n, s, pos, bal) ==
  /\ path \in [0..Len(n) -> [Tokens -> Nat]]
  /\ path[0] = pos
  /\ path[Len(n)] = bal
  /\ \A i \in 1..Len(n) :
       path[i] = IF Identity(n[i]) \in s THEN path[i - 1] ELSE Moved(path[i - 1], n[i])
Leading(n, s, pos, bal) == \E path : Leads(path, n, s, pos, bal)

Owed(n, s, t, side) == {r \in Range(n) : r.key = <<t, side>> /\ Identity(r) \notin s}
AddUp(n, s, pos, bal) ==
  \A t \in Tokens : pos[t] + Lots(Owed(n, s, t, "buy")) - Lots(Owed(n, s, t, "sell")) = bal[t]

First1 == session = "on" /\ sessions = 1

\* The inductive invariant of the first session: the feed is up, and handling
\* what is reported, one by one and each once, leads through holdings that are
\* never negative to those of the account.
HoldingsInv ==
  /\ TypeOK
  /\ InOrder(news, seen, trades)
  /\ First1 => /\ connected
               /\ AddUp(news, seen, position, balance)
               /\ Leading(news, seen, position, balance)

LEMMA RangeParts ==
  ASSUME NEW n \in Seq(Report)
  PROVE  /\ DOMAIN n = 1..Len(n) /\ Len(n) \in Nat
         /\ IsFiniteSet(Range(n))
         /\ \A r \in Range(n) : r \in Report /\ \E i \in 1..Len(n) : n[i] = r
         /\ \A i \in 1..Len(n) : n[i] \in Report /\ n[i] \in Range(n)
<1>1. DOMAIN n = 1..Len(n) /\ Len(n) \in Nat
  OBVIOUS
<1>2. IsFiniteSet(DOMAIN n)
  BY <1>1, FS_Interval
<1>3. IsFiniteSet(Range(n))
  <2>1. n \in [DOMAIN n -> Range(n)]
    BY <1>1 DEF Range
  <2>2. n \in Surjection(DOMAIN n, Range(n))
    BY <2>1, Zenon DEF Surjection, Range
  <2> QED
    BY <1>2, <2>2, FS_Surjection, Zenon
<1>4. \A i \in 1..Len(n) : n[i] \in Report
  OBVIOUS
<1> QED
  BY <1>1, <1>3, <1>4 DEF Range

LEMMA OwedSized ==
  ASSUME NEW n \in Seq(Report), NEW s, NEW t, NEW side
  PROVE  /\ Sized(Owed(n, s, t, side))
         /\ Lots(Owed(n, s, t, side)) \in Nat
<1>1. Owed(n, s, t, side) \in SUBSET Range(n)
  BY DEF Owed
<1>2. IsFiniteSet(Owed(n, s, t, side))
  BY <1>1, RangeParts, FS_Subset
<1>3. \A r \in Report : r.size \in Nat
  BY DEF Report
<1>4. Sized(Owed(n, s, t, side))
  BY <1>1, <1>2, <1>3, RangeParts DEF Sized
<1> QED
  BY <1>4, LotsNatural

\* A trade that is reported.
LEMMA ReportedInOrder ==
  ASSUME NEW n \in Seq(Report), NEW s, NEW m \in Nat, InOrder(n, s, m),
         NEW r \in Report, r.trade = m + 1
  PROVE  InOrder(Append(n, r), s, m + 1)
<1> DEFINE a == Append(n, r)
<1>1. Len(n) \in Nat /\ Len(a) = Len(n) + 1 /\ a[Len(n) + 1] = r /\ \A i \in 1..Len(n) : a[i] = n[i]
  OBVIOUS
<1> HIDE DEF a
<1>2. \A i \in 1..Len(n) : n[i].trade \in Nat
  <2>1. \A x \in Report : x.trade \in Nat
    BY DEF Report
  <2> QED
    BY <2>1, RangeParts
<1>3. \A i \in 1..Len(a) : a[i].trade <= m + 1
  <2> TAKE i \in 1..Len(a)
  <2>1. i \in 1..Len(n) \/ i = Len(n) + 1
    BY <1>1
  <2> QED
    BY <1>1, <1>2, <2>1 DEF InOrder
<1>4. ASSUME NEW i \in 1..Len(a), NEW j \in 1..Len(a), i < j
      PROVE  a[i].trade < a[j].trade
  <2>1. i \in 1..Len(n) /\ (j \in 1..Len(n) \/ j = Len(n) + 1)
    BY <1>1, <1>4
  <2>2. n[i].trade <= m
    BY <2>1 DEF InOrder
  <2>3. CASE j \in 1..Len(n)
    BY <1>1, <1>4, <2>1, <2>3 DEF InOrder
  <2>4. CASE j = Len(n) + 1
    <3>1. a[i].trade = n[i].trade /\ a[j].trade = m + 1 /\ n[i].trade \in Nat
      BY <1>1, <1>2, <2>1, <2>4
    <3> QED
      BY <2>2, <3>1
  <2> QED
    BY <2>1, <2>3, <2>4
<1>5. InOrder(a, s, m + 1)
  <2>1. \A id \in s : id[3] \in Nat /\ id[3] <= m
    BY DEF InOrder
  <2>2. ASSUME NEW id \in s PROVE id[3] \in Nat /\ id[3] <= m + 1
    BY <2>1
  <2> QED
    BY <1>3, <1>4, <2>2 DEF InOrder
<1> QED
  BY <1>5 DEF a


LEMMA ReportedAddsUp ==
  ASSUME NEW n \in Seq(Report), NEW s, NEW m \in Nat, InOrder(n, s, m),
         NEW r \in Report, r.trade = m + 1,
         NEW pos \in [Tokens -> Nat], NEW bal \in [Tokens -> Nat],
         r.key[2] = "sell" => r.size <= bal[r.key[1]],
         AddUp(n, s, pos, bal)
  PROVE  AddUp(Append(n, r), s, pos, Moved(bal, r))
<1> DEFINE a == Append(n, r)
<1>1. Range(a) = Range(n) \cup {r}
  <2>1. Len(n) \in Nat /\ DOMAIN a = 1..Len(n) + 1 /\ a[Len(n) + 1] = r /\ \A i \in 1..Len(n) : a[i] = n[i]
    OBVIOUS
  <2>2. DOMAIN n = 1..Len(n)
    OBVIOUS
  <2> HIDE DEF a
  <2>3. ASSUME NEW x \in Range(a) PROVE x \in Range(n) \cup {r}
    <3>1. PICK i \in DOMAIN a : a[i] = x
      BY DEF Range
    <3>2. i \in 1..Len(n) \/ i = Len(n) + 1
      <4>1. i \in 1..Len(n) + 1 /\ Len(n) \in Nat
        BY <2>1
      <4> QED
        BY <4>1
    <3> QED
      BY <2>1, <2>2, <3>1, <3>2 DEF Range
  <2>4. ASSUME NEW x \in Range(n) PROVE x \in Range(a)
    <3>1. PICK i \in DOMAIN n : n[i] = x
      BY DEF Range
    <3>2. i \in DOMAIN a /\ a[i] = x
      BY <2>1, <2>2, <3>1
    <3> QED
      BY <3>2 DEF Range
  <2>5. r \in Range(a)
    <3>1. Len(n) + 1 \in DOMAIN a
      BY <2>1
    <3> QED
      BY <2>1, <3>1 DEF Range
  <2> QED
    BY <2>3, <2>4, <2>5
<1>2. r \notin Range(n)
  <2>1. ASSUME NEW i \in 1..Len(n), n[i] = r PROVE FALSE
    BY <2>1 DEF InOrder
  <2> QED
    BY <2>1, RangeParts
<1>3. Identity(r) \notin s
  BY DEF InOrder, Identity
<1> HIDE DEF a
<1>4. ASSUME NEW t \in Tokens, NEW side \in Sides
      PROVE  Lots(Owed(a, s, t, side)) = Lots(Owed(n, s, t, side)) + Lot(r, t, side)
  <2>1. CASE r.key = <<t, side>>
    <3>1. Owed(a, s, t, side) = Owed(n, s, t, side) \cup {r}
      BY <1>1, <1>3, <2>1 DEF Owed
    <3>2. r \notin Owed(n, s, t, side)
      BY <1>2 DEF Owed
    <3>3. r.size \in Nat /\ Lot(r, t, side) = r.size
      BY <2>1, ReportParts DEF Lot
    <3> QED
      BY <3>1, <3>2, <3>3, OwedSized, LotsWith
  <2>2. CASE r.key # <<t, side>>
    <3>1. Owed(a, s, t, side) = Owed(n, s, t, side)
      BY <1>1, <2>2 DEF Owed
    <3>2. Lot(r, t, side) = 0
      BY <2>2 DEF Lot
    <3> QED
      BY <3>1, <3>2, OwedSized
  <2> QED
    BY <2>1, <2>2
<1>5. ASSUME NEW t \in Tokens
      PROVE  pos[t] + Lots(Owed(a, s, t, "buy")) - Lots(Owed(a, s, t, "sell")) = Moved(bal, r)[t]
  <2>1. /\ Lots(Owed(a, s, t, "buy")) = Lots(Owed(n, s, t, "buy")) + Lot(r, t, "buy")
        /\ Lots(Owed(a, s, t, "sell")) = Lots(Owed(n, s, t, "sell")) + Lot(r, t, "sell")
    BY <1>4 DEF Sides
  <2>2. Lots(Owed(n, s, t, "buy")) \in Nat /\ Lots(Owed(n, s, t, "sell")) \in Nat
    BY OwedSized
  <2>3. /\ Moved(bal, r)[t] = bal[t] + Lot(r, t, "buy") - Lot(r, t, "sell")
        /\ Lot(r, t, "buy") \in Nat /\ Lot(r, t, "sell") \in Nat
    BY MovedParts
  <2>4. pos[t] + Lots(Owed(n, s, t, "buy")) - Lots(Owed(n, s, t, "sell")) = bal[t]
    BY DEF AddUp
  <2>5. pos[t] \in Nat /\ bal[t] \in Nat
    OBVIOUS
  <2> DEFINE x == Lots(Owed(n, s, t, "buy"))
             y == Lots(Owed(n, s, t, "sell"))
             u == Lot(r, t, "buy")
             v == Lot(r, t, "sell")
             p == pos[t]
             b == bal[t]
  <2>6. p \in Nat /\ b \in Nat /\ x \in Nat /\ y \in Nat /\ u \in Nat /\ v \in Nat /\ p + x - y = b
    BY <2>2, <2>3, <2>4, <2>5
  <2>7. Moved(bal, r)[t] = b + u - v
    BY <2>3
  <2>8. Lots(Owed(a, s, t, "buy")) = x + u /\ Lots(Owed(a, s, t, "sell")) = y + v
    BY <2>1
  <2> HIDE DEF x, y, u, v, p, b
  <2>9. p + (x + u) - (y + v) = b + u - v
    BY <2>6
  <2> QED
    BY <2>7, <2>8, <2>9 DEF p
<1> QED
  BY <1>5 DEF AddUp, a

LEMMA ReportedLeads ==
  ASSUME NEW n \in Seq(Report), NEW s, NEW r \in Report, Identity(r) \notin s,
         NEW pos \in [Tokens -> Nat], NEW bal \in [Tokens -> Nat],
         r.key[2] = "sell" => r.size <= bal[r.key[1]],
         Leading(n, s, pos, bal)
  PROVE  Leading(Append(n, r), s, pos, Moved(bal, r))
<1> DEFINE a == Append(n, r)
           after == Moved(bal, r)
<1>1. Len(n) \in Nat /\ Len(a) = Len(n) + 1 /\ a[Len(n) + 1] = r /\ \A i \in 1..Len(n) : a[i] = n[i]
  OBVIOUS
<1>2. after \in [Tokens -> Nat]
  BY MovedParts
<1>3. PICK path : Leads(path, n, s, pos, bal)
  BY DEF Leading
<1> DEFINE next == [i \in 0..Len(a) |-> IF i <= Len(n) THEN path[i] ELSE after]
<1> HIDE DEF a
<1>4. next \in [0..Len(a) -> [Tokens -> Nat]]
  <2> HIDE DEF after
  <2>1. \A i \in 0..Len(a) : i <= Len(n) => i \in 0..Len(n)
    BY <1>1
  <2> QED
    BY <1>2, <1>3, <2>1 DEF Leads
<1>5. next[0] = pos /\ next[Len(a)] = after
  <2> HIDE DEF after
  <2>1. 0 \in 0..Len(a) /\ 0 <= Len(n) /\ Len(a) \in 0..Len(a) /\ ~(Len(a) <= Len(n))
    BY <1>1
  <2> QED
    BY <1>3, <2>1 DEF Leads
<1>6. ASSUME NEW i \in 1..Len(a)
      PROVE  next[i] = IF Identity(a[i]) \in s THEN next[i - 1] ELSE Moved(next[i - 1], a[i])
  <2>1. i \in 0..Len(a) /\ i - 1 \in 0..Len(a) /\ i - 1 <= Len(n) /\ i - 1 \in 0..Len(n)
    BY <1>1
  <2>2. next[i - 1] = path[i - 1]
    BY <2>1
  <2>3. CASE i <= Len(n)
    <3>1. i \in 1..Len(n) /\ next[i] = path[i] /\ a[i] = n[i]
      BY <1>1, <2>1, <2>3
    <3>2. path[i] = IF Identity(n[i]) \in s THEN path[i - 1] ELSE Moved(path[i - 1], n[i])
      BY <1>3, <3>1 DEF Leads
    <3> HIDE DEF next
    <3> QED
      BY <2>2, <3>1, <3>2
  <2>4. CASE ~(i <= Len(n))
    <3>1. i = Len(n) + 1 /\ i - 1 = Len(n)
      BY <1>1, <2>4
    <3>2. next[i] = Moved(bal, r) /\ a[i] = r
      BY <1>1, <2>1, <2>4, <3>1
    <3>3. path[i - 1] = bal
      BY <1>3, <3>1 DEF Leads
    <3> HIDE DEF next
    <3> QED
      BY <2>2, <3>2, <3>3
  <2> QED
    BY <2>3, <2>4
<1> HIDE DEF next, after
<1>7. Leads(next, a, s, pos, after)
  BY <1>4, <1>5, <1>6 DEF Leads
<1> QED
  BY <1>7 DEF Leading, a, after


\* No sale is counted of more than the tracker knows to be held.
LEMMA HeadFits ==
  ASSUME NEW n \in Seq(Report), n # <<>>, NEW s, NEW pos \in [Tokens -> Nat], NEW bal,
         Identity(Head(n)) \notin s, Leading(n, s, pos, bal)
  PROVE  Head(n).key[2] = "sell" => Head(n).size <= pos[Head(n).key[1]]
<1> DEFINE r == Head(n)
<1>1. Len(n) \in Nat /\ Len(n) >= 1 /\ n[1] = r /\ 1 \in 1..Len(n) /\ r \in Report
  OBVIOUS
<1>2. PICK path : Leads(path, n, s, pos, bal)
  BY DEF Leading
<1>i. Identity(r) \notin s
  OBVIOUS
<1> HIDE DEF r
<1>3. path[0] = pos /\ path[1] = Moved(pos, r) /\ path[1] \in [Tokens -> Nat]
  <2>1. 1 \in 0..Len(n) /\ 1 - 1 = 0
    BY <1>1
  <2> QED
    BY <1>1, <1>2, <1>i, <2>1 DEF Leads
<1>4. ASSUME r.key[2] = "sell" PROVE r.size <= pos[r.key[1]]
  <2>1. r.key[1] \in Tokens /\ r.size \in Nat /\ pos[r.key[1]] \in Nat
    BY <1>1, ReportParts
  <2>2. Moved(pos, r)[r.key[1]] = pos[r.key[1]] - r.size
    BY <1>4, <2>1 DEF Moved
  <2>3. Moved(pos, r)[r.key[1]] \in Nat
    BY <1>3, <2>1
  <2> QED
    BY <2>1, <2>2, <2>3
<1> QED
  BY <1>4 DEF r

\* A report the tracker counts.
LEMMA Counted ==
  ASSUME NEW n \in Seq(Report), n # <<>>, NEW s, NEW m \in Nat, InOrder(n, s, m),
         NEW pos \in [Tokens -> Nat], NEW bal \in [Tokens -> Nat],
         Identity(Head(n)) \notin s,
         AddUp(n, s, pos, bal), Leading(n, s, pos, bal)
  PROVE  LET r == Head(n)
             s1 == s \cup {Identity(r)}
         IN  /\ After(pos, r) \in [Tokens -> Nat]
             /\ InOrder(n, s1, m)
             /\ AddUp(n, s1, After(pos, r), bal)
             /\ Leading(n, s1, After(pos, r), bal)
<1> DEFINE r == Head(n)
           s1 == s \cup {Identity(r)}
<1>1. Len(n) \in Nat /\ Len(n) >= 1 /\ n[1] = r /\ 1 \in 1..Len(n) /\ r \in Report
  OBVIOUS
<1>2. PICK path : Leads(path, n, s, pos, bal)
  BY DEF Leading
<1> HIDE DEF r
<1>i. Identity(r) \notin s
  BY DEF r
<1>3. path[0] = pos /\ path[1] = Moved(pos, r) /\ path[1] \in [Tokens -> Nat]
  <2>1. 1 \in 0..Len(n) /\ 1 - 1 = 0
    BY <1>1
  <2> QED
    BY <1>1, <1>2, <1>i, <2>1 DEF Leads
<1>4. r.key[2] = "sell" => r.size <= pos[r.key[1]]
  BY <1>i, HeadFits DEF r
<1>5. /\ After(pos, r) = Moved(pos, r)
      /\ \A t \in Tokens : Moved(pos, r)[t] = pos[t] + Lot(r, t, "buy") - Lot(r, t, "sell")
      /\ \A t \in Tokens : Lot(r, t, "buy") \in Nat /\ Lot(r, t, "sell") \in Nat
  BY <1>1, <1>4, MovedParts
\* No other report has the identity of this one.
<1>6. \A i \in 1..Len(n) : i # 1 => Identity(n[i]) # Identity(r)
  <2>1. \A i \in 1..Len(n) : n[i].trade \in Nat
    BY RangeParts, ReportParts
  <2>2. ASSUME NEW i \in 1..Len(n), i # 1 PROVE n[1].trade < n[i].trade
    <3>1. 1 < i
      BY <2>2
    <3> QED
      BY <1>1, <3>1 DEF InOrder
  <2>3. ASSUME NEW i \in 1..Len(n), i # 1 PROVE n[i].trade # r.trade
    BY <1>1, <2>1, <2>2, <2>3
  <2> QED
    BY <2>3 DEF Identity
<1>7. InOrder(n, s1, m)
  <2>1. n[1].trade <= m /\ r.trade \in Nat
    BY <1>1, ReportParts DEF InOrder
  <2>2. Identity(r)[3] = r.trade
    BY DEF Identity
  <2> QED
    BY <1>1, <2>1, <2>2 DEF InOrder
<1>8. AddUp(n, s1, After(pos, r), bal)
  <2>1. ASSUME NEW t \in Tokens, NEW side \in Sides
        PROVE  Lots(Owed(n, s, t, side)) = Lots(Owed(n, s1, t, side)) + Lot(r, t, side)
    <3>1. Owed(n, s1, t, side) = Owed(n, s, t, side) \ {r}
      BY <1>6, RangeParts, <1>1 DEF Owed
    <3>2. CASE r.key = <<t, side>>
      <4>1. r \in Owed(n, s, t, side)
        BY <1>1, <1>i, <3>2, RangeParts DEF Owed
      <4>2. Lots(Owed(n, s, t, side)) = r.size + Lots(Owed(n, s, t, side) \ {r})
        BY <4>1, OwedSized, LotsWithout
      <4>3. Lot(r, t, side) = r.size /\ r.size \in Nat
        BY <1>1, <3>2, ReportParts DEF Lot
      <4> DEFINE rest == Lots(Owed(n, s1, t, side))
      <4>4. rest \in Nat
        BY OwedSized
      <4>5. Lots(Owed(n, s, t, side)) = r.size + rest
        BY <3>1, <4>2
      <4> HIDE DEF rest
      <4>6. r.size + rest = rest + Lot(r, t, side)
        BY <4>3, <4>4
      <4> QED
        BY <4>5, <4>6 DEF rest
    <3>3. CASE r.key # <<t, side>>
      <4>1. r \notin Owed(n, s, t, side) /\ Lot(r, t, side) = 0
        BY <3>3 DEF Owed, Lot
      <4>2. Owed(n, s1, t, side) = Owed(n, s, t, side)
        BY <3>1, <4>1
      <4> QED
        BY <4>1, <4>2, OwedSized
    <3> QED
      BY <3>2, <3>3
  <2>2. ASSUME NEW t \in Tokens
        PROVE  After(pos, r)[t] + Lots(Owed(n, s1, t, "buy")) - Lots(Owed(n, s1, t, "sell")) = bal[t]
    <3> DEFINE x == Lots(Owed(n, s1, t, "buy"))
               y == Lots(Owed(n, s1, t, "sell"))
               u == Lot(r, t, "buy")
               v == Lot(r, t, "sell")
    <3>1. x \in Nat /\ y \in Nat /\ u \in Nat /\ v \in Nat /\ pos[t] \in Nat
      BY <1>5, OwedSized
    <3>2. After(pos, r)[t] = pos[t] + u - v
      BY <1>5
    <3>3. Lots(Owed(n, s, t, "buy")) = x + u /\ Lots(Owed(n, s, t, "sell")) = y + v
      BY <2>1 DEF Sides
    <3>4. pos[t] + (x + u) - (y + v) = bal[t]
      BY <3>3, Zenon DEF AddUp
    <3> HIDE DEF x, y, u, v, s1
    <3>5. (pos[t] + u - v) + x - y = bal[t]
      BY <3>1, <3>4
    <3> QED
      BY <3>2, <3>5 DEF x, y
  <2> QED
    BY <2>2 DEF AddUp
<1>9. Leading(n, s1, After(pos, r), bal)
  <2> DEFINE next == [path EXCEPT ![0] = path[1]]
  <2>1. /\ path \in [0..Len(n) -> [Tokens -> Nat]] /\ 0 \in 0..Len(n)
        /\ path[Len(n)] = bal /\ Len(n) # 0 /\ Len(n) \in 0..Len(n)
    BY <1>1, <1>2 DEF Leads
  <2>2. next \in [0..Len(n) -> [Tokens -> Nat]] /\ next[0] = After(pos, r) /\ next[Len(n)] = bal
    BY <1>3, <1>5, <2>1
  <2>3. \A i \in 0..Len(n) : i # 0 => next[i] = path[i]
    BY <2>1
  <2>4. ASSUME NEW i \in 1..Len(n)
        PROVE  next[i] = IF Identity(n[i]) \in s1 THEN next[i - 1] ELSE Moved(next[i - 1], n[i])
    <3> HIDE DEF next
    <3>1. CASE i = 1
      <4>1. 1 \in 0..Len(n) /\ 1 - 1 = 0
        BY <1>1
      <4>2. next[1] = next[0] /\ Identity(n[1]) \in s1
        BY <1>1, <1>3, <1>5, <2>2, <2>3, <4>1
      <4> QED
        BY <3>1, <4>1, <4>2
    <3>2. CASE i # 1
      <4>1. i - 1 \in 0..Len(n) /\ i - 1 # 0 /\ i \in 0..Len(n) /\ i # 0
        BY <3>2, <1>1
      <4>2. next[i] = path[i] /\ next[i - 1] = path[i - 1]
        BY <2>3, <4>1
      <4>3. Identity(n[i]) \in s1 <=> Identity(n[i]) \in s
        BY <1>6, <3>2
      <4>4. path[i] = IF Identity(n[i]) \in s THEN path[i - 1] ELSE Moved(path[i - 1], n[i])
        BY <1>2 DEF Leads
      <4> HIDE DEF s1
      <4> QED
        BY <4>2, <4>3, <4>4
    <3> QED
      BY <3>1, <3>2
  <2> HIDE DEF next, s1
  <2>5. Leads(next, n, s1, After(pos, r), bal)
    BY <2>2, <2>4 DEF Leads
  <2> QED
    BY <2>5 DEF Leading
<1> QED
  BY <1>3, <1>5, <1>7, <1>8, <1>9 DEF r


LEMMA TailParts ==
  ASSUME NEW n \in Seq(Report), n # <<>>
  PROVE  /\ Tail(n) \in Seq(Report) /\ Len(Tail(n)) = Len(n) - 1
         /\ Len(n) \in Nat /\ Len(n) >= 1 /\ n[1] = Head(n) /\ Head(n) \in Report
         /\ \A i \in 1..Len(Tail(n)) : Tail(n)[i] = n[i + 1] /\ i + 1 \in 1..Len(n)
<1>1. /\ Tail(n) \in Seq(Report) /\ Len(Tail(n)) = Len(n) - 1
      /\ Len(n) \in Nat /\ Len(n) >= 1 /\ n[1] = Head(n) /\ Head(n) \in Report
  OBVIOUS
<1>2. \A i \in 1..Len(Tail(n)) : Tail(n)[i] = n[i + 1] /\ i + 1 \in 1..Len(n)
  <2> TAKE i \in 1..Len(Tail(n))
  <2>1. i \in 1..Len(n) - 1
    BY <1>1
  <2>2. Tail(n)[i] = n[i + 1]
    BY <1>1, <2>1
  <2> QED
    BY <1>1, <2>1, <2>2
<1> QED
  BY <1>1, <1>2

\* A report that is handled and not repeated.
LEMMA DroppedInOrder ==
  ASSUME NEW n \in Seq(Report), n # <<>>, NEW s, NEW m \in Nat, InOrder(n, s, m)
  PROVE  InOrder(Tail(n), s, m)
<1> DEFINE a == Tail(n)
<1>1. \A i \in 1..Len(a) : a[i] = n[i + 1] /\ i + 1 \in 1..Len(n)
  BY TailParts
<1>2. Len(a) \in Nat
  BY TailParts
<1> HIDE DEF a
<1>3. \A i \in 1..Len(a) : a[i].trade <= m
  BY <1>1 DEF InOrder
<1>4. ASSUME NEW i \in 1..Len(a), NEW j \in 1..Len(a), i < j
      PROVE  a[i].trade < a[j].trade
  <2>1. i + 1 < j + 1 /\ i + 1 \in 1..Len(n) /\ j + 1 \in 1..Len(n)
    BY <1>1, <1>2, <1>4
  <2>2. n[i + 1].trade < n[j + 1].trade
    BY <2>1 DEF InOrder
  <2> QED
    BY <1>1, <2>2
<1>5. InOrder(a, s, m)
  BY <1>3, <1>4 DEF InOrder
<1> QED
  BY <1>5 DEF a

\* What is left to handle leads on from the holdings after the first report.
LEMMA DroppedLeads ==
  ASSUME NEW n \in Seq(Report), n # <<>>, NEW s, NEW pos, NEW bal, Leading(n, s, pos, bal)
  PROVE  Leading(Tail(n), s, IF Identity(Head(n)) \in s THEN pos ELSE Moved(pos, Head(n)), bal)
<1> DEFINE a == Tail(n)
           after == IF Identity(Head(n)) \in s THEN pos ELSE Moved(pos, Head(n))
<1>1. PICK path : Leads(path, n, s, pos, bal)
  BY DEF Leading
<1>2. /\ \A i \in 1..Len(a) : a[i] = n[i + 1] /\ i + 1 \in 1..Len(n)
      /\ Len(n) \in Nat /\ Len(n) >= 1 /\ n[1] = Head(n) /\ Len(a) = Len(n) - 1
  BY TailParts
<1>3. path[1] = after
  <2>1. 1 \in 1..Len(n) /\ 1 - 1 = 0
    BY <1>2
  <2> QED
    BY <1>1, <1>2, <2>1 DEF Leads
<1> DEFINE next == [i \in 0..Len(a) |-> path[i + 1]]
<1> HIDE DEF a, after
<1>4. \A i \in 0..Len(a) : i + 1 \in 0..Len(n) /\ next[i] = path[i + 1]
  BY <1>2
<1>5. next \in [0..Len(a) -> [Tokens -> Nat]]
  BY <1>1, <1>4 DEF Leads
<1>6. next[0] = after
  <2>1. 0 \in 0..Len(a) /\ 0 + 1 = 1
    BY <1>2
  <2> QED
    BY <1>3, <1>4, <2>1
<1>7. next[Len(a)] = bal
  <2>1. Len(a) \in 0..Len(a) /\ Len(a) + 1 = Len(n)
    BY <1>2
  <2> QED
    BY <1>1, <1>4, <2>1 DEF Leads
<1>8. ASSUME NEW i \in 1..Len(a)
      PROVE  next[i] = IF Identity(a[i]) \in s THEN next[i - 1] ELSE Moved(next[i - 1], a[i])
  <2>1. i \in 0..Len(a) /\ i - 1 \in 0..Len(a) /\ (i - 1) + 1 = i /\ (i + 1) - 1 = i
    BY <1>2
  <2>2. next[i] = path[i + 1] /\ next[i - 1] = path[i] /\ a[i] = n[i + 1] /\ i + 1 \in 1..Len(n)
    BY <1>2, <1>4, <2>1
  <2>3. path[i + 1] = IF Identity(n[i + 1]) \in s THEN path[(i + 1) - 1] ELSE Moved(path[(i + 1) - 1], n[i + 1])
    BY <1>1, <2>2 DEF Leads
  <2> HIDE DEF next
  <2> QED
    BY <2>1, <2>2, <2>3
<1> HIDE DEF next
<1>9. Leads(next, a, s, after, bal)
  BY <1>5, <1>6, <1>7, <1>8 DEF Leads
<1> QED
  BY <1>9 DEF Leading, a, after

\* A report counted before adds nothing.
LEMMA DroppedAddsUp ==
  ASSUME NEW n \in Seq(Report), n # <<>>, NEW s, NEW pos, NEW bal, Identity(Head(n)) \in s,
         AddUp(n, s, pos, bal)
  PROVE  AddUp(Tail(n), s, pos, bal)
<1>1. ASSUME NEW t, NEW side
      PROVE  Owed(Tail(n), s, t, side) = Owed(n, s, t, side)
  <2>1. ASSUME NEW x \in Range(n), x # Head(n) PROVE x \in Range(Tail(n))
    <3>1. PICK i \in 1..Len(n) : n[i] = x
      BY RangeParts
    <3>2. i # 1
      BY <2>1, <3>1, TailParts
    <3>3. i - 1 \in 1..Len(Tail(n)) /\ (i - 1) + 1 = i
      BY <3>2, TailParts
    <3>4. Tail(n)[i - 1] = x
      BY <3>1, <3>3, TailParts
    <3> QED
      BY <3>3, <3>4, TailParts, RangeParts
  <2>2. ASSUME NEW x \in Range(Tail(n)) PROVE x \in Range(n)
    <3>1. PICK i \in 1..Len(Tail(n)) : Tail(n)[i] = x
      BY RangeParts, TailParts
    <3>2. n[i + 1] = x /\ i + 1 \in 1..Len(n)
      BY <3>1, TailParts
    <3> QED
      BY <3>2, RangeParts
  <2> QED
    BY <2>1, <2>2 DEF Owed
<1> QED
  BY <1>1, Zenon DEF AddUp

-----------------------------------------------------------------------------
(* The holdings of the first session.                                      *)

\* What is held of the two tokens is not enough to be merged.
NothingToMerge == Smaller(position[Yes], position[No]) < MinMerge

LEMMA InitHoldings == Init => HoldingsInv
<1> SUFFICES ASSUME Init PROVE HoldingsInv
  OBVIOUS
<1>1. TypeOK
  BY InitType
<1>2. news = <<>> /\ Len(news) = 0 /\ seen = {} /\ position = Nothing /\ balance = Nothing /\ connected
  BY DEF Init
<1>3. InOrder(news, seen, trades)
  BY <1>2 DEF InOrder
<1>4. AddUp(news, seen, position, balance)
  <2>1. \A t, side : Owed(news, seen, t, side) = {}
    BY <1>2 DEF Owed, Range
  <2>2. Lots({}) = 0
    <3>1. Sized({})
      BY FS_EmptySet DEF Sized
    <3> QED
      BY <3>1, LotsTaken
  <2>3. ASSUME NEW t \in Tokens
        PROVE  position[t] + Lots(Owed(news, seen, t, "buy")) - Lots(Owed(news, seen, t, "sell")) = balance[t]
    <3>1. Owed(news, seen, t, "buy") = {} /\ Owed(news, seen, t, "sell") = {}
      BY <2>1
    <3>2. Lots(Owed(news, seen, t, "buy")) = 0 /\ Lots(Owed(news, seen, t, "sell")) = 0
      BY <2>2, <3>1
    <3>3. position[t] = 0 /\ balance[t] = 0
      BY <1>2 DEF Nothing
    <3> QED
      BY <3>2, <3>3
  <2> QED
    BY <2>3 DEF AddUp
<1>5. Leading(news, seen, position, balance)
  <2> DEFINE path == [i \in 0..0 |-> Nothing]
  <2>1. Nothing \in [Tokens -> Nat]
    BY DEF Nothing
  <2>2. 0..Len(news) = 0..0 /\ 1..Len(news) = {} /\ 0 \in 0..0
    BY <1>2
  <2>3. path \in [0..Len(news) -> [Tokens -> Nat]] /\ path[0] = Nothing
    BY <2>1, <2>2
  <2> HIDE DEF path
  <2>4. Leads(path, news, seen, position, balance)
    BY <1>2, <2>2, <2>3 DEF Leads
  <2> QED
    BY <2>4 DEF Leading
<1> QED
  BY <1>1, <1>2, <1>3, <1>4, <1>5 DEF HoldingsInv

\* Steps that leave what is counted alone.
LEMMA SameHoldings ==
  ASSUME HoldingsInv, TypeOK', UNCHANGED <<news, seen, trades, balance, position>>,
         First1' => First1 /\ connected' = connected
  PROVE  HoldingsInv'
BY DEF HoldingsInv

\* Steps that end the first session, or come after it.
LEMMA LaterHoldings ==
  ASSUME HoldingsInv, TypeOK', ~First1', trades' = trades,
         \/ news' = news /\ seen' = seen
         \/ news' = <<>> /\ seen' = seen
         \/ news' = news /\ seen' = {}
  PROVE  HoldingsInv'
<1>1. InOrder(news, seen, trades)
  BY DEF HoldingsInv
<1>2. CASE news' = news /\ seen' = seen
  BY <1>1, <1>2 DEF HoldingsInv
<1>3. CASE news' = <<>> /\ seen' = seen
  <2>1. InOrder(<<>>, seen, trades)
    BY <1>1 DEF InOrder
  <2> QED
    BY <1>3, <2>1 DEF HoldingsInv
<1>4. CASE news' = news /\ seen' = {}
  <2>1. InOrder(news, {}, trades)
    BY <1>1 DEF InOrder
  <2> QED
    BY <1>4, <2>1 DEF HoldingsInv
<1> QED
  BY <1>2, <1>3, <1>4

\* A trade, as it is reported.
LEMMA FillParts ==
  ASSUME TypeOK, NEW o \in orders, NEW q \in 1..o.left, Fill(o, q)
  PROVE  LET r == [order |-> o.id, key |-> o.key, size |-> q, trade |-> trades + 1]
         IN  /\ r \in Report
             /\ r.trade = trades + 1
             /\ r.key[2] = "sell" => r.size <= balance[r.key[1]]
             /\ balance' = Moved(balance, r)
             /\ connected /\ session = "on" => news' = Append(news, r)
             /\ ~(connected /\ session = "on") => news' = news
             /\ trades' = trades + 1 /\ trades \in Nat
             /\ UNCHANGED <<connected, session, sessions, seen, position, brokerPosition>>
<1> DEFINE r == [order |-> o.id, key |-> o.key, size |-> q, trade |-> trades + 1]
<1>1. o \in Order /\ trades \in Nat
  BY DEF TypeOK
<1>2. o.id \in Nat \ {0} /\ o.key \in Key /\ o.left \in Nat \ {0}
  BY <1>1 DEF Order
<1>3. q \in Nat \ {0} /\ trades + 1 \in Nat \ {0}
  BY <1>1, <1>2
<1>4. r \in Report
  BY <1>2, <1>3 DEF Report
<1>5. balance' = Moved(balance, r)
  BY DEF Fill, Moved
<1> QED
  BY <1>1, <1>4, <1>5 DEF Fill, memory


LEMMA FillHoldings ==
  ASSUME HoldingsInv, TypeOK', NEW o \in orders, NEW q \in 1..o.left, Fill(o, q)
  PROVE  HoldingsInv'
<1> DEFINE r == [order |-> o.id, key |-> o.key, size |-> q, trade |-> trades + 1]
<1>1. /\ r \in Report
      /\ r.trade = trades + 1
      /\ r.key[2] = "sell" => r.size <= balance[r.key[1]]
      /\ balance' = Moved(balance, r)
      /\ connected /\ session = "on" => news' = Append(news, r)
      /\ ~(connected /\ session = "on") => news' = news
      /\ trades' = trades + 1 /\ trades \in Nat
      /\ UNCHANGED <<connected, session, sessions, seen, position, brokerPosition>>
  BY FillParts DEF HoldingsInv
<1> HIDE DEF r
<1>2. /\ InOrder(news, seen, trades) /\ news \in Seq(Report)
      /\ position \in [Tokens -> Nat] /\ balance \in [Tokens -> Nat]
  BY DEF HoldingsInv, TypeOK
<1>3. Identity(r) \notin seen
  BY <1>1, <1>2 DEF Identity, InOrder
<1>4. InOrder(Append(news, r), seen, trades + 1) /\ InOrder(news, seen, trades + 1)
  <2>1. InOrder(Append(news, r), seen, trades + 1)
    BY <1>1, <1>2, ReportedInOrder
  <2>2. InOrder(news, seen, trades + 1)
    <3>1. \A i \in 1..Len(news) : news[i].trade \in Nat
      BY <1>2, RangeParts, ReportParts
    <3>2. \A i \in 1..Len(news) : news[i].trade <= trades + 1
      BY <1>1, <1>2, <3>1 DEF InOrder
    <3>3. ASSUME NEW id \in seen PROVE id[3] \in Nat /\ id[3] <= trades + 1
      <4>1. id[3] \in Nat /\ id[3] <= trades
        BY <1>2 DEF InOrder
      <4> QED
        BY <1>1, <4>1
    <3>4. \A i, j \in 1..Len(news) : i < j => news[i].trade < news[j].trade
      BY <1>2 DEF InOrder
    <3> QED
      BY <3>2, <3>3, <3>4 DEF InOrder
  <2> QED
    BY <2>1, <2>2
<1>5. InOrder(news', seen', trades')
  BY <1>1, <1>4
<1>6. ASSUME First1
      PROVE  /\ AddUp(Append(news, r), seen, position, Moved(balance, r))
             /\ Leading(Append(news, r), seen, position, Moved(balance, r))
             /\ news' = Append(news, r) /\ connected
  <2>1. connected /\ AddUp(news, seen, position, balance) /\ Leading(news, seen, position, balance)
    BY <1>6 DEF HoldingsInv
  <2> QED
    BY <1>1, <1>2, <1>3, <1>6, <2>1, ReportedAddsUp, ReportedLeads DEF First1
<1>7. First1' => First1
  BY <1>1 DEF First1
<1>8. First1' => connected' /\ AddUp(news', seen', position', balance') /\ Leading(news', seen', position', balance')
  <2> SUFFICES ASSUME First1'
               PROVE  connected' /\ AddUp(news', seen', position', balance') /\ Leading(news', seen', position', balance')
    OBVIOUS
  <2>1. news' = Append(news, r) /\ balance' = Moved(balance, r) /\ seen' = seen /\ position' = position /\ connected'
    BY <1>1, <1>6, <1>7
  <2> QED
    BY <1>6, <1>7, <2>1
<1> QED
  BY <1>5, <1>8, Zenon DEF HoldingsInv

LEMMA DeliverHoldings ==
  ASSUME HoldingsInv, TypeOK', Deliver
  PROVE  HoldingsInv'
<1> DEFINE r == Head(news)
<1>1. /\ news # <<>> /\ news \in Seq(Report) /\ position \in [Tokens -> Nat] /\ balance \in [Tokens -> Nat]
      /\ trades \in Nat /\ InOrder(news, seen, trades)
      /\ news' = Tail(news) \/ news' = news
      /\ UNCHANGED <<trades, balance, connected, session, sessions>>
  BY DEF HoldingsInv, TypeOK, Deliver, exchange
<1>2. First1' => First1 /\ connected' = connected
  BY <1>1 DEF First1
<1>s. \/ Identity(r) \in seen /\ seen' = seen /\ position' = position
      \/ Identity(r) \notin seen /\ seen' = seen \cup {Identity(r)} /\ position' = After(position, r)
  BY DEF Deliver, Handle
\* What counting the report does, ...
<1>3. /\ InOrder(news, seen', trades)
      /\ Identity(r) \in seen'
      /\ First1 => AddUp(news, seen', position', balance) /\ Leading(news, seen', position', balance)
  <2> HIDE DEF r
  <2>1. CASE Identity(r) \in seen /\ seen' = seen /\ position' = position
    BY <1>1, <2>1, Zenon DEF HoldingsInv
  <2>2. CASE Identity(r) \notin seen /\ seen' = seen \cup {Identity(r)} /\ position' = After(position, r)
    <3> DEFINE s1 == seen \cup {Identity(r)}
               p1 == After(position, r)
    <3>1. InOrder(news, s1, trades)
      <4>1. r \in Report /\ \E i \in 1..Len(news) : news[i] = r
        <5>1. r = news[1] /\ 1 \in 1..Len(news)
          BY <1>1, TailParts DEF r
        <5> QED
          BY <1>1, <5>1, RangeParts
      <4>2. r.trade \in Nat /\ r.trade <= trades
        BY <1>1, <4>1, ReportParts DEF InOrder
      <4>3. Identity(r)[3] = r.trade
        BY DEF Identity
      <4> QED
        BY <1>1, <4>2, <4>3 DEF InOrder
    <3>2. First1 => AddUp(news, s1, p1, balance) /\ Leading(news, s1, p1, balance)
      BY <1>1, <2>2, Counted DEF HoldingsInv, r
    <3>3. seen' = s1 /\ position' = p1 /\ Identity(r) \in s1
      BY <2>2
    <3> HIDE DEF s1, p1
    <3> QED
      BY <3>1, <3>2, <3>3
  <2> QED
    BY <1>s, <2>1, <2>2
\* ... and what dropping it does.
<1>4. CASE news' = news
  <2>1. InOrder(news', seen', trades')
    BY <1>1, <1>3, <1>4
  <2>2. First1 => connected
    BY DEF HoldingsInv
  <2>3. First1' => connected' /\ AddUp(news', seen', position', balance') /\ Leading(news', seen', position', balance')
    BY <1>1, <1>2, <1>3, <1>4, <2>2
  <2> QED
    BY <2>1, <2>3, Zenon DEF HoldingsInv
<1>5. CASE news' = Tail(news)
  <2>1. InOrder(Tail(news), seen', trades)
    BY <1>1, <1>3, DroppedInOrder
  <2>2. First1 => connected
    BY DEF HoldingsInv
  <2>3. First1 => AddUp(Tail(news), seen', position', balance) /\ Leading(Tail(news), seen', position', balance)
    BY <1>1, <1>3, DroppedAddsUp, DroppedLeads
  <2>4. First1' => connected' /\ AddUp(news', seen', position', balance') /\ Leading(news', seen', position', balance')
    BY <1>1, <1>2, <1>5, <2>2, <2>3
  <2>5. InOrder(news', seen', trades')
    BY <1>1, <1>5, <2>1
  <2> QED
    BY <2>4, <2>5, Zenon DEF HoldingsInv
<1> QED
  BY <1>1, <1>4, <1>5

LEMMA NextHoldings ==
  ASSUME "disconnect" \notin Faults, HoldingsInv, NothingToMerge, [Next]_vars
  PROVE  HoldingsInv'
<1>1. TypeOK /\ TypeOK'
  BY NextType DEF HoldingsInv
<1>2. CASE StartPass
  <2>1. Merged = position
    <3>1. position[Yes] \in Nat /\ position[No] \in Nat /\ MinMerge \in Nat
      BY <1>1, LiveAssumption DEF TypeOK, Tokens
    <3>2. Smaller(position[Yes], position[No]) \in Nat
      BY <3>1 DEF Smaller
    <3>3. ~(Smaller(position[Yes], position[No]) >= MinMerge)
      BY <3>1, <3>2 DEF NothingToMerge
    <3> QED
      BY <3>3, Zenon DEF Merged
  <2>2. position' = position /\ UNCHANGED <<news, seen, trades, balance, session, sessions, connected>>
    BY <1>2, <2>1 DEF StartPass, exchange, feed
  <2> QED
    BY <1>1, <2>2, SameHoldings DEF First1
<1>3. CASE SettleKey
  <2>1. UNCHANGED <<news, seen, trades, balance, position, session, sessions, connected>>
    BY <1>3 DEF SettleKey, feed, memory
  <2> QED
    BY <1>1, <2>1, SameHoldings DEF First1
<1>4. ASSUME NEW o \in orders, NEW q \in 1..o.left, Fill(o, q)
      PROVE  HoldingsInv'
  BY <1>1, <1>4, FillHoldings
<1>5. CASE Deliver
  BY <1>1, <1>5, DeliverHoldings
<1>6. CASE Disconnect
  BY <1>6 DEF Disconnect, May
<1>7. CASE Reconnect
  <2>1. UNCHANGED <<news, seen, trades, balance, position, session, sessions>> /\ ~connected
    BY <1>7 DEF Reconnect, exchange, memory
  <2>2. ~First1
    BY <2>1 DEF HoldingsInv
  <2> QED
    BY <1>1, <2>1, <2>2, SameHoldings DEF First1
<1>8. CASE Stop \/ Crash
  <2>1. session' # "on" /\ news' = <<>> /\ UNCHANGED <<trades, seen>>
    BY <1>8 DEF Stop, Crash, Leave, memory
  <2> QED
    BY <1>1, <2>1, LaterHoldings DEF First1
<1>9. CASE Restart
  <2>1. sessions' = sessions + 1 /\ sessions \in Nat /\ sessions >= 1
    BY <1>1, <1>9, LiveAssumption DEF Restart, TypeOK
  <2>2. ~First1'
    BY <2>1 DEF First1
  <2>3. news' = news /\ seen' = {} /\ trades' = trades
    BY <1>9 DEF Restart, exchange
  <2> QED
    BY <1>1, <2>2, <2>3, LaterHoldings
<1>10. CASE UNCHANGED vars
  BY <1>1, <1>10, SameHoldings DEF First1, vars, exchange, feed, memory
<1> QED
  BY <1>2, <1>3, <1>4, <1>5, <1>6, <1>7, <1>8, <1>9, <1>10 DEF Next

\* As long as the feed is not interrupted and nothing is merged, the tracker of
\* the first session and what the feed has yet to count add up to the account.
THEOREM HoldingsKnownCorrect ==
  ASSUME "disconnect" \notin Faults
  PROVE  Spec /\ []NothingToMerge => []HoldingsKnown
<1>1. HoldingsInv => HoldingsKnown
  BY DEF HoldingsInv, HoldingsKnown, First1, AddUp, Owed, Uncounted
<1>2. HoldingsInv /\ NothingToMerge /\ [Next]_vars => HoldingsInv'
  BY NextHoldings
<1> QED
  BY <1>1, <1>2, InitHoldings, PTL DEF Spec


-----------------------------------------------------------------------------
(* The position limit.                                                     *)

\* What is held of t stays within the limit, and so it does if the order to
\* buy t is filled.
Fits(t, limit) ==
  /\ balance[t] <= limit
  /\ \A o \in orders : o.key = <<t, "buy">> => balance[t] + o.left <= limit

\* The inductive invariant: while no fill has been repeated, lost or late for a
\* pass, the broker's tracker comes to the account's holdings by what is
\* reported, and what is held of a token whose order to buy the pass has yet to
\* settle is above what the broker knew at the start of the pass by no more than
\* what was left of that order then.
CapInv ==
  /\ OneOrderInv
  /\ \A o \in orders : o.left <= LargestSize
  /\ ~misled =>
       /\ \A t \in Tokens : Fits(t, PositionCap + LargestSize)
       /\ session = "on" => connected /\ Leading(news, {}, brokerPosition, balance)
       /\ key > 0 => \A i \in key..Len(Keys) :
            Keys[i][2] = "buy" => Fits(Keys[i][1], brokerPosition[Keys[i][1]] + LargestSize)

\* Orders have a size beyond which they do not go.
SizesBounded == \E s \in Sizes : \A r \in Sizes : r <= s

LEMMA LargestParts ==
  ASSUME SizesBounded
  PROVE  LargestSize \in Nat /\ \A r \in Sizes : r \in Nat /\ r <= LargestSize
<1>1. LargestSize \in Sizes /\ \A r \in Sizes : r <= LargestSize
  BY DEF SizesBounded, LargestSize
<1> QED
  BY <1>1, LiveAssumption

\* A placement that is let through is of a size there is, and of no more than
\* the broker's tracker has room for.
LEMMA SettleOffers ==
  ASSUME Calm, NEW k, NEW id, Settle(k, id)
  PROVE  \/ orders' = orders
         \/ \A o \in orders' :
              \/ o \in Without(id)
              \/ o.key = k /\ o.left \in Sizes /\ ~Refused(k, o.left)
<1> DEFINE Offers(open) ==
      \A o \in orders' : o \in open \/ (o.key = k /\ o.left \in Sizes /\ ~Refused(k, o.left))
<1>1. ASSUME NEW open, NEW failed, NEW size \in Desirable(k), Place(k, size, open, failed)
      PROVE  Offers(open)
  <2>1. size \in Sizes
    BY DEF Desirable
  <2>2. CASE orders' = open
    BY <2>2
  <2>3. ASSUME ~Refused(k, size), NEW copies, Accept(k, size, open, copies)
        PROVE  Offers(open)
    <3>1. orders' = open \cup {[id |-> issued + i, key |-> k, left |-> size] : i \in 1..copies}
      BY <2>3 DEF Accept
    <3>2. ASSUME NEW o \in orders', o \notin open PROVE o.key = k /\ o.left = size
      BY <3>1, <3>2
    <3> QED
      BY <2>1, <2>3, <3>2
  <2> QED
    BY <1>1, <2>2, <2>3 DEF Place
<1>2. ASSUME NEW failed \in {0} \cup (IF id = 0 THEN {} ELSE {1}), May("cancel", failed),
             \/ orders' = IF failed = 1 THEN orders ELSE Without(id)
             \/ \E size \in Desirable(k) : Place(k, size, IF failed = 1 THEN orders ELSE Without(id), failed)
      PROVE  Offers(Without(id))
  <2>1. failed = 0 \/ failed = 1
    OBVIOUS
  <2>2. failed # 1
    BY <1>2 DEF May, Calm
  <2>3. \/ orders' = Without(id)
        \/ \E size \in Desirable(k) : Place(k, size, Without(id), failed)
    BY <1>2, <2>2
  <2> QED
    BY <1>1, <2>3
<1>3. Offers(Without(id)) \/ orders' = orders
  <2> HIDE DEF Offers
  <2> QED
    BY <1>2 DEF Settle
<1> QED
  BY <1>3

LEMMA FillFits ==
  ASSUME OneOrderInv, NEW o \in orders, NEW q \in 1..o.left, Fill(o, q),
         NEW t \in Tokens, NEW limit \in Nat, Fits(t, limit)
  PROVE  Fits(t, limit)'
<1>1. /\ o \in Order /\ o.left \in Nat /\ q \in Nat /\ q >= 1 /\ q <= o.left
      /\ o.key[1] \in Tokens /\ o.key[2] \in {"buy", "sell"} /\ o.key \in Key
      /\ balance \in [Tokens -> Nat]
  <2>1. o \in Order /\ balance \in [Tokens -> Nat]
    BY DEF OneOrderInv, TypeOK
  <2>2. o.key \in Key /\ o.left \in Nat
    BY <2>1 DEF Order
  <2> QED
    BY <2>1, <2>2, KeyParts DEF Sides
<1>2. \A p \in orders' : (p \in orders /\ p # o) \/ (p = Rest(o, q) /\ q < o.left)
  BY DEF Fill, Rest
<1>3. balance' = [balance EXCEPT ![o.key[1]] = IF o.key[2] = "buy" THEN @ + q ELSE @ - q]
  BY DEF Fill
<1>4. Rest(o, q).left = o.left - q /\ Rest(o, q).key = o.key
  BY <1>1 DEF Rest, Order
<1>b. balance[t] \in Nat /\ balance[t] <= limit
  BY <1>1 DEF Fits
<1>l. \A p \in orders : p.left \in Nat
  BY DEF OneOrderInv, TypeOK, Order
<1>k. o.key = <<t, "buy">> <=> o.key[1] = t /\ o.key[2] = "buy"
  <2>1. PICK u \in Tokens, d \in Sides : o.key = <<u, d>>
    BY <1>1 DEF Key
  <2> QED
    BY <2>1
<1>5. CASE o.key = <<t, "buy">>
  <2>1. balance'[t] = balance[t] + q
    BY <1>1, <1>3, <1>5
  <2>2. balance[t] + o.left <= limit
    BY <1>5 DEF Fits
  <2>3. ASSUME NEW p \in orders', p.key = <<t, "buy">>
        PROVE  balance'[t] + p.left <= limit
    <3>1. p = Rest(o, q)
      BY <1>2, <1>5, <2>3 DEF OneOrderInv, OneOrderPerQuote
    <3>2. p.left = o.left - q
      BY <1>4, <3>1
    <3> QED
      BY <1>1, <1>b, <2>1, <2>2, <3>2
  <2>4. balance'[t] <= limit
    BY <1>1, <1>b, <2>1, <2>2
  <2> QED
    BY <2>3, <2>4 DEF Fits
<1>6. CASE o.key # <<t, "buy">>
  <2>1. balance'[t] \in Int /\ balance'[t] <= balance[t]
    <3>1. CASE o.key[1] = t
      <4>1. balance'[t] = balance[t] - q
        BY <1>1, <1>3, <1>6, <1>k, <3>1
      <4> QED
        BY <1>1, <1>b, <4>1
    <3>2. CASE o.key[1] # t
      <4>1. balance'[t] = balance[t]
        BY <1>3, <1>1, <3>2
      <4> QED
        BY <1>b, <4>1
    <3> QED
      BY <3>1, <3>2
  <2>2. ASSUME NEW p \in orders', p.key = <<t, "buy">>
        PROVE  balance'[t] + p.left <= limit
    <3>1. p \in orders
      BY <1>2, <1>4, <1>6, <2>2
    <3>2. balance[t] + p.left <= limit /\ p.left \in Nat
      BY <1>l, <2>2, <3>1 DEF Fits
    <3> QED
      BY <1>b, <2>1, <3>2
  <2>3. balance'[t] <= limit
    BY <1>b, <2>1
  <2> QED
    BY <2>2, <2>3 DEF Fits
<1> QED
  BY <1>5, <1>6


\* The limits that what is held is measured by.
LEMMA Limits ==
  ASSUME SizesBounded, TypeOK, NEW t \in Tokens
  PROVE  /\ PositionCap + LargestSize \in Nat /\ PositionCap \in Nat
         /\ brokerPosition[t] \in Nat /\ brokerPosition[t] + LargestSize \in Nat
         /\ balance[t] \in Nat /\ LargestSize \in Nat
         /\ \A o \in orders : o.left \in Nat /\ o.key \in Key
<1>1. PositionCap \in Nat /\ LargestSize \in Nat /\ brokerPosition[t] \in Nat /\ balance[t] \in Nat
  BY LargestParts, LiveAssumption DEF TypeOK
<1>2. \A o \in orders : o.left \in Nat /\ o.key \in Key
  BY DEF TypeOK, Order
<1> QED
  BY <1>1, <1>2

LEMMA FewerFit ==
  ASSUME NEW t, NEW limit, Fits(t, limit), orders' \subseteq orders, balance' = balance
  PROVE  Fits(t, limit)'
BY DEF Fits

LEMMA InitCap ==
  ASSUME SizesBounded, Init
  PROVE  CapInv
<1>1. TypeOK
  BY InitType
<1>2. OneOrderInv
  BY <1>1 DEF Init, OneOrderInv, OneOrderPerQuote, Known
<1>3. orders = {} /\ news = <<>> /\ balance = Nothing /\ brokerPosition = Nothing /\ key = 0 /\ connected
  BY DEF Init
<1>4. \A t \in Tokens : Fits(t, PositionCap + LargestSize)
  <2> TAKE t \in Tokens
  <2>1. balance[t] = 0
    BY <1>3 DEF Nothing
  <2> QED
    BY <1>1, <1>3, <2>1, Limits DEF Fits
<1>5. Leading(news, {}, brokerPosition, balance)
  <2> DEFINE path == [i \in 0..0 |-> Nothing]
  <2>1. Nothing \in [Tokens -> Nat]
    BY DEF Nothing
  <2>2. Len(news) = 0 /\ 0..Len(news) = 0..0 /\ 1..Len(news) = {} /\ 0 \in 0..0
    BY <1>3
  <2>3. path \in [0..Len(news) -> [Tokens -> Nat]] /\ path[0] = Nothing
    BY <2>1, <2>2
  <2> HIDE DEF path
  <2>4. Leads(path, news, {}, brokerPosition, balance)
    BY <1>3, <2>2, <2>3 DEF Leads
  <2> QED
    BY <2>4 DEF Leading
<1> QED
  BY <1>2, <1>3, <1>4, <1>5 DEF CapInv

LEMMA StartPassCap ==
  ASSUME SizesBounded, CapInv, OneOrderInv', StartPass
  PROVE  CapInv'
<1>1. UNCHANGED <<orders, balance, news, connected, session, brokerPosition>> /\ misled' = (misled \/ news # <<>>)
      /\ session = "on"
  BY DEF StartPass, exchange, feed
<1>2. ~misled' => ~misled /\ news = <<>>
  BY <1>1
<1>3. \A t, limit : Fits(t, limit) => Fits(t, limit)'
  BY <1>1 DEF Fits
<1>4. ASSUME ~misled, news = <<>>, NEW t \in Tokens
      PROVE  Fits(t, brokerPosition[t] + LargestSize)
  <2>1. PICK path : Leads(path, news, {}, brokerPosition, balance)
    BY <1>1, <1>4 DEF CapInv, Leading
  <2>2. Len(news) = 0
    BY <1>4
  <2>3. brokerPosition[t] = balance[t]
    BY <2>1, <2>2 DEF Leads
  <2>4. TypeOK /\ \A o \in orders : o.left <= LargestSize
    BY DEF CapInv, OneOrderInv
  <2>5. balance[t] \in Nat /\ LargestSize \in Nat /\ \A o \in orders : o.left \in Nat
    BY <2>4, Limits
  <2> QED
    BY <2>3, <2>4, <2>5 DEF Fits
<1>5. \A o \in orders' : o.left <= LargestSize
  BY <1>1 DEF CapInv
<1>6. ASSUME ~misled'
      PROVE  /\ \A t \in Tokens : Fits(t, PositionCap + LargestSize)'
             /\ session' = "on" => connected' /\ Leading(news', {}, brokerPosition', balance')
             /\ \A t \in Tokens : Fits(t, brokerPosition[t] + LargestSize)'
  <2>1. ~misled /\ news = <<>>
    BY <1>2, <1>6
  <2>2. /\ \A t \in Tokens : Fits(t, PositionCap + LargestSize)
        /\ session = "on" => connected /\ Leading(news, {}, brokerPosition, balance)
    BY <2>1 DEF CapInv
  <2>3. ASSUME NEW t \in Tokens PROVE Fits(t, brokerPosition[t] + LargestSize)'
    BY <1>1, <1>4, <2>1 DEF Fits
  <2>4. ASSUME NEW t \in Tokens PROVE Fits(t, PositionCap + LargestSize)'
    BY <1>1, <2>2 DEF Fits
  <2> QED
    BY <1>1, <2>2, <2>3, <2>4
<1>7. \A i \in key'..Len(Keys) : Keys[i][1] \in Tokens
  <2>1. key' = 1
    BY DEF StartPass
  <2>2. \A i \in 1..Len(Keys) : Keys[i] \in RowKey
    BY LiveAssumption
  <2> QED
    BY <2>1, <2>2, RowKeyParts
<1> QED
  BY <1>5, <1>6, <1>7, Zenon DEF CapInv

LEMMA SettleKeyCap ==
  ASSUME SizesBounded, Calm, CapInv, OneOrderInv', SettleKey
  PROVE  CapInv'
<1> DEFINE k == Keys[key]
<1>1. UNCHANGED <<balance, news, connected, session, brokerPosition, misled>>
  BY DEF SettleKey, feed, memory
<1>2. TypeOK /\ OneOrderInv /\ key \in 1..Len(Keys) /\ k \in RowKey /\ key > 0
  <2>1. TypeOK /\ OneOrderInv
    BY DEF CapInv, OneOrderInv
  <2>2. key \in 0..Len(Keys) /\ key > 0
    BY <2>1 DEF TypeOK, SettleKey
  <2> QED
    BY <2>1, <2>2, LiveAssumption
<1>3. \A i \in 1..Len(Keys) : Keys[i] \in RowKey
  BY LiveAssumption
<1>4. \/ orders' = orders
      \/ \A o \in orders' :
           \/ o \in Without(snapshot[k])
           \/ o.key = k /\ o.left \in Sizes /\ ~Refused(k, o.left)
  BY SettleOffers DEF SettleKey
<1>5. \A o \in orders' : o \in orders \/ (o.key = k /\ o.left \in Sizes /\ ~Refused(k, o.left))
  BY <1>4 DEF Without
<1> HIDE DEF k
<1>6. \A o \in orders' : o.left <= LargestSize
  BY <1>5, LargestParts DEF CapInv
<1>7. ASSUME NEW t \in Tokens, NEW limit, Fits(t, limit), k # <<t, "buy">>
      PROVE  Fits(t, limit)'
  BY <1>1, <1>5, <1>7 DEF Fits
<1>8. ASSUME ~misled, NEW t \in Tokens, k = <<t, "buy">>
      PROVE  Fits(t, PositionCap + LargestSize)'
  <2>1. k[2] = "buy" /\ k[1] = t
    BY <1>8
  <2>2. Fits(t, brokerPosition[t] + LargestSize)
    <3>1. key \in key..Len(Keys)
      BY <1>2
    <3> QED
      BY <1>2, <1>8, <2>1, <3>1 DEF CapInv, k
  <2>3. Fits(t, PositionCap + LargestSize)
    BY <1>8 DEF CapInv
  <2>4. /\ PositionCap \in Nat /\ brokerPosition[t] \in Nat /\ balance[t] \in Nat /\ LargestSize \in Nat
    BY <1>2, Limits
  <2>5. ASSUME NEW o \in orders', o.key = <<t, "buy">>
        PROVE  balance[t] + o.left <= PositionCap + LargestSize
    <3>1. CASE o \in orders
      BY <2>3, <2>5, <3>1 DEF Fits
    <3>2. CASE o.left \in Sizes /\ ~Refused(k, o.left)
      <4>1. o.left \in Nat
        BY <3>2, LargestParts
      <4>2. ~(brokerPosition[t] + o.left > PositionCap)
        BY <2>1, <3>2 DEF Refused
      <4>3. balance[t] <= brokerPosition[t] + LargestSize
        BY <2>2 DEF Fits
      <4> QED
        BY <2>4, <4>1, <4>2, <4>3
    <3> QED
      BY <1>5, <3>1, <3>2
  <2>6. balance[t] <= PositionCap + LargestSize
    BY <2>3 DEF Fits
  <2> QED
    BY <1>1, <2>5, <2>6 DEF Fits
<1>9. ASSUME ~misled, NEW t \in Tokens
      PROVE  Fits(t, PositionCap + LargestSize)'
  <2>1. Fits(t, PositionCap + LargestSize)
    BY <1>9 DEF CapInv
  <2> QED
    BY <1>7, <1>8, <1>9, <2>1
<1>10. ASSUME ~misled, key' > 0, NEW i \in key'..Len(Keys), Keys[i][2] = "buy"
       PROVE  Fits(Keys[i][1], brokerPosition[Keys[i][1]] + LargestSize)'
  <2>1. key' = key + 1
    BY <1>10 DEF SettleKey
  <2>2. i \in 1..Len(Keys) /\ i \in key..Len(Keys) /\ i # key
    BY <1>2, <2>1
  <2>3. Keys[i] # k /\ Keys[i] \in Key /\ Keys[i][1] \in Tokens
    BY <1>2, <1>3, <1>10, <2>2, LiveAssumption, RowKeyParts DEF k
  <2>4. Keys[i] = <<Keys[i][1], "buy">>
    BY <1>10, <2>3 DEF Key
  <2>5. Fits(Keys[i][1], brokerPosition[Keys[i][1]] + LargestSize)
    BY <1>2, <1>10, <2>2 DEF CapInv
  <2> DEFINE t == Keys[i][1]
             limit == brokerPosition[t] + LargestSize
  <2>6. t \in Tokens /\ k # <<t, "buy">> /\ Fits(t, limit)
    BY <2>3, <2>4, <2>5
  <2> HIDE DEF t
  <2>7. limit' = limit
    BY <1>1 DEF t
  <2>8. Fits(t, limit)'
    <3>1. balance[t] <= limit /\ \A o \in orders : o.key = <<t, "buy">> => balance[t] + o.left <= limit
      BY <2>6 DEF Fits
    <3>2. \A o \in orders' : o.key = <<t, "buy">> => o \in orders
      BY <1>5, <2>6
    <3> HIDE DEF limit
    <3> QED
      BY <1>1, <2>7, <3>1, <3>2 DEF Fits, t
  <2> QED
    BY <2>8 DEF t
<1>11. ~misled' => ~misled /\ (session' = "on" => connected' /\ Leading(news', {}, brokerPosition', balance'))
  <2>1. ~misled => (session = "on" => connected /\ Leading(news, {}, brokerPosition, balance))
    BY DEF CapInv
  <2> QED
    BY <1>1, <2>1
<1> QED
  BY <1>6, <1>9, <1>10, <1>11, Zenon DEF CapInv


LEMMA FillCap ==
  ASSUME SizesBounded, CapInv, OneOrderInv', NEW o \in orders, NEW q \in 1..o.left, Fill(o, q)
  PROVE  CapInv'
<1>1. OneOrderInv /\ TypeOK
  BY DEF CapInv, OneOrderInv
<1> DEFINE r == [order |-> o.id, key |-> o.key, size |-> q, trade |-> trades + 1]
<1>2. /\ r \in Report
      /\ r.key[2] = "sell" => r.size <= balance[r.key[1]]
      /\ balance' = Moved(balance, r)
      /\ connected /\ session = "on" => news' = Append(news, r)
      /\ UNCHANGED <<connected, session, brokerPosition, key, misled>>
  BY <1>1, FillParts DEF Fill, pass, memory
<1> HIDE DEF r
<1>3. \A p \in orders' : p.left <= LargestSize
  <2>1. o \in Order /\ o.left \in Nat /\ q \in Nat /\ o.left <= LargestSize /\ LargestSize \in Nat
    BY <1>1, LargestParts DEF TypeOK, Order, CapInv
  <2>2. \A p \in orders' : p \in orders \/ p = Rest(o, q)
    BY DEF Fill, Rest
  <2>3. Rest(o, q).left = o.left - q
    BY <2>1 DEF Rest, Order
  <2>4. Rest(o, q).left <= LargestSize
    BY <2>1, <2>3
  <2> QED
    BY <2>2, <2>4 DEF CapInv
<1>4. ASSUME ~misled
      PROVE  \A t \in Tokens : Fits(t, PositionCap + LargestSize)'
  <2> TAKE t \in Tokens
  <2> DEFINE limit == PositionCap + LargestSize
  <2>1. limit \in Nat /\ Fits(t, limit) /\ limit' = limit
    BY <1>1, <1>4, Limits DEF CapInv
  <2> HIDE DEF limit
  <2>2. PICK m \in Nat : m = limit
    BY <2>1
  <2>3. Fits(t, m)'
    BY <1>1, <2>1, <2>2, FillFits
  <2> QED
    BY <2>1, <2>2, <2>3 DEF Fits, limit
<1>5. ASSUME ~misled, session = "on"
      PROVE  connected /\ Leading(news', {}, brokerPosition', balance')
  <2>1. connected /\ Leading(news, {}, brokerPosition, balance)
    BY <1>5 DEF CapInv
  <2>2. news \in Seq(Report) /\ brokerPosition \in [Tokens -> Nat] /\ balance \in [Tokens -> Nat]
    BY <1>1 DEF TypeOK
  <2>3. Leading(Append(news, r), {}, brokerPosition, Moved(balance, r))
    BY <1>2, <2>1, <2>2, ReportedLeads
  <2> QED
    BY <1>2, <1>5, <2>1, <2>3
<1>6. ASSUME ~misled, key' > 0, NEW i \in key'..Len(Keys), Keys[i][2] = "buy"
      PROVE  Fits(Keys[i][1], brokerPosition[Keys[i][1]] + LargestSize)'
  <2> DEFINE t == Keys[i][1]
             limit == brokerPosition[t] + LargestSize
  <2>1. i \in 1..Len(Keys) /\ i \in key..Len(Keys) /\ key > 0
    BY <1>1, <1>2, <1>6 DEF TypeOK
  <2>2. t \in Tokens /\ Fits(t, limit)
    BY <1>6, <2>1, LiveAssumption, RowKeyParts DEF CapInv
  <2>3. limit \in Nat
    BY <1>1, <2>2, Limits
  <2> HIDE DEF t
  <2>4. limit' = limit
    BY <1>2 DEF t
  <2> HIDE DEF limit
  <2>5. PICK u \in Tokens : u = t
    BY <2>2
  <2>6. PICK m \in Nat : m = limit
    BY <2>3
  <2>7. Fits(u, m)'
    BY <1>1, <2>2, <2>5, <2>6, FillFits
  <2>8. t' = t
    BY DEF t
  <2> QED
    BY <2>4, <2>5, <2>6, <2>7, <2>8 DEF Fits, t, limit
<1> QED
  BY <1>2, <1>3, <1>4, <1>5, <1>6, Zenon DEF CapInv

LEMMA DeliverCap ==
  ASSUME SizesBounded, CapInv, OneOrderInv', Deliver
  PROVE  CapInv'
<1>1. OneOrderInv /\ TypeOK
  BY DEF CapInv, OneOrderInv
<1>2. /\ UNCHANGED <<orders, balance, connected, session, key>> /\ key = 0 /\ session = "on" /\ news # <<>>
      /\ brokerPosition' = After(brokerPosition, Head(news))
      /\ ~misled' => ~misled /\ news' = Tail(news)
  BY DEF Deliver, Handle, exchange, pass
<1>3. \A p \in orders' : p.left <= LargestSize
  BY <1>2 DEF CapInv
<1>4. ASSUME ~misled' PROVE \A t \in Tokens : Fits(t, PositionCap + LargestSize)'
  <2>1. \A t \in Tokens : Fits(t, PositionCap + LargestSize)
    BY <1>2, <1>4 DEF CapInv
  <2> QED
    BY <1>2, <2>1 DEF Fits
<1>5. ASSUME ~misled' PROVE connected' /\ Leading(news', {}, brokerPosition', balance')
  <2> DEFINE r == Head(news)
  <2>1. connected /\ Leading(news, {}, brokerPosition, balance)
    BY <1>2, <1>5 DEF CapInv
  <2>2. news \in Seq(Report) /\ brokerPosition \in [Tokens -> Nat] /\ r \in Report
    BY <1>1, <1>2, TailParts DEF TypeOK
  <2>3. r.key[2] = "sell" => r.size <= brokerPosition[r.key[1]]
    BY <1>2, <2>1, <2>2, HeadFits
  <2>4. After(brokerPosition, r) = Moved(brokerPosition, r)
    BY <2>2, <2>3, MovedParts
  <2>5. Leading(Tail(news), {}, IF Identity(r) \in {} THEN brokerPosition ELSE Moved(brokerPosition, r), balance)
    BY <1>2, <2>1, <2>2, DroppedLeads
  <2>6. Leading(Tail(news), {}, Moved(brokerPosition, r), balance)
    BY <2>5
  <2> QED
    BY <1>2, <1>5, <2>1, <2>4, <2>6
<1> QED
  BY <1>2, <1>3, <1>4, <1>5 DEF CapInv

LEMMA NextCap ==
  ASSUME SizesBounded, Calm, RowsRead, CapInv, [Next]_vars
  PROVE  CapInv'
<1>1. OneOrderInv /\ OneOrderInv'
  BY NextOne DEF CapInv
<1>2. \A p \in orders : p.left <= LargestSize
  BY DEF CapInv
<1>3. \A t \in Tokens : ~misled => Fits(t, PositionCap + LargestSize)
  BY DEF CapInv
<1>4. CASE Disconnect \/ Restart
  <2>1. misled' = TRUE /\ orders' = orders
    BY <1>4 DEF Disconnect, Restart, exchange
  <2> QED
    BY <1>1, <1>2, <2>1 DEF CapInv
<1>5. CASE Reconnect
  <2>1. session = "on" /\ ~connected /\ misled' = misled /\ orders' = orders
    BY <1>5 DEF Reconnect, exchange
  <2>2. misled
    BY <2>1 DEF CapInv
  <2> QED
    BY <1>1, <1>2, <2>1, <2>2 DEF CapInv
<1>6. CASE Stop \/ Crash
  <2>1. session' # "on" /\ orders' \subseteq orders /\ key' = 0 /\ balance' = balance /\ misled' = misled
    BY <1>6 DEF Stop, Crash, Leave
  <2>2. \A t \in Tokens : ~misled => Fits(t, PositionCap + LargestSize)'
    BY <1>3, <2>1 DEF Fits
  <2> QED
    BY <1>1, <1>2, <2>1, <2>2 DEF CapInv
<1>7. CASE UNCHANGED vars
  BY <1>1, <1>7 DEF CapInv, Fits, vars, exchange, feed, pass, memory
<1> QED
  BY <1>1, <1>4, <1>5, <1>6, <1>7, StartPassCap, SettleKeyCap, FillCap, DeliverCap DEF Next

\* A session whose calls are neither lost nor retried, and whose rows have the
\* names that are looked for, never holds more of a token than the position limit and one order, as long as no fill is repeated,
\* lost, or late for a pass, however the fills of an order come between the
\* start of a pass and the moment its replacement is placed, and also after the
\* session has crashed or was stopped with its orders left on offer.
THEOREM PositionNearlyCappedCorrect ==
  ASSUME Calm, RowsRead, SizesBounded
  PROVE  Spec => []PositionNearlyCapped
<1>1. CapInv => PositionNearlyCapped
  BY DEF CapInv, PositionNearlyCapped, Fits
<1>2. Init => CapInv
  BY InitCap
<1>3. CapInv /\ [Next]_vars => CapInv'
  BY NextCap
<1> QED
  BY <1>1, <1>2, <1>3, PTL DEF Spec
=============================================================================
