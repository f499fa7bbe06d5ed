---------------------------- MODULE LiveSession ----------------------------
(***************************************************************************)
(* A LIVE session: the script's loop (scripts/run_core_mm.py) quoting one  *)
(* market through LiveBroker and ExecutionAdapter (core_mm/live_broker.py, *)
(* execution.py), while fills come back over the user feed                 *)
(* (user_ws_adapter.py, user_feed.py) into two position trackers: the      *)
(* runner's, which quotes are sized on, and the broker's own, which its    *)
(* risk checks read.                                                       *)
(*                                                                         *)
(* The exchange is external and runs at any time.  The session's HTTP      *)
(* calls block its event loop, so user messages are handled between passes *)
(* only.  A session may be stopped or crash, and another may follow.       *)
(*                                                                         *)
(* Data.  Sizes are lots at one price, so notional limits are in lots.     *)
(* What a pass desires of a key is a free choice of size, sells within the *)
(* holdings (QuotingCycle models the sizing); so is whether the resting    *)
(* order is close enough to be kept.                                       *)
(*                                                                         *)
(* Orders are desired under <<token, "buy">> and <<token, "sell">>, posted *)
(* with the side in upper case, and known again from the rows the client   *)
(* of the exchange answers with, which are taken as they are.  The client  *)
(* is not part of the repository, so the form of its rows is a constant.   *)
(***************************************************************************)
EXTENDS Integers, Sequences, FiniteSets, FiniteSetsExt, Functions

CONSTANTS
  Yes, No,         \* the two outcome tokens of the market
  Keys,            \* quote keys, <<token, side as written>>, in their sorting order
  RowForms,        \* forms the rows of open orders may take
  Sizes,           \* order sizes
  PositionCap,     \* max_position_notional
  MinMerge,        \* min_merge_size
  MaxRetries,      \* max_retries of the execution adapter
  Faults,          \* kinds of faults that may happen
  MaxFaults,       \* bound: faults of a behaviour
  MaxOrders,       \* bound: orders the exchange ever accepts
  MaxSessions      \* bound: sessions

Sides == {"buy", "sell"}
Tokens == {Yes, No}
Key == Tokens \X Sides
Posted(side) == IF side = "buy" THEN "BUY" ELSE "SELL"
RowKey == Tokens \X {"buy", "sell", "BUY", "SELL"}

\* Names and sides as PaperBroker gives them; the same names with sides as they
\* are posted; or a token or an id under a name that is not looked for, such as
\* the "asset_id" and "id" that legacy/core/broker_polymarket.py:290 reads too.
Forms == {"paper", "posted", "unread"}
FaultKinds ==
  {"timeout", "refusal", "cancel", "snapshot", "cancel_all", "redelivery", "disconnect", "crash"}

ASSUME LiveAssumption ==
  /\ Yes # No
  /\ Keys \in Seq(RowKey)
  /\ \A k \in RowKey : \E i \in DOMAIN Keys : Keys[i] = k
  /\ \A i, j \in DOMAIN Keys : Keys[i] = Keys[j] => i = j
  \* Upper case sorts first.
  /\ \A i, j \in DOMAIN Keys, k \in Key :
       Keys[i] = <<k[1], Posted(k[2])>> /\ Keys[j] = k => i < j
  /\ RowForms \subseteq Forms
  /\ Sizes \subseteq Nat \ {0}
  /\ PositionCap \in Nat
  /\ MinMerge \in Nat
  /\ MaxRetries \in Nat
  /\ Faults \subseteq FaultKinds
  /\ MaxFaults \in Nat
  /\ MaxOrders \in Nat
  /\ MaxSessions \in Nat \ {0}

VARIABLES
  \* The exchange.
  orders,        \* open orders
  balance,       \* tokens the account holds
  issued,        \* orders accepted so far
  trades,        \* trades so far
  \* The user feed.
  connected,     \* whether the session is subscribed
  news,          \* fills reported and not yet handled
  \* The session.
  session,       \* "on", "stopped" or "crashed"
  sessions,      \* sessions so far
  key,           \* key being settled, by place in Keys; 0 between passes
  snapshot,      \* open order the pass knows under each key; 0 is none
  sellable,      \* holdings the pass was sized on
  quoting,       \* whether the filters let the pass quote
  seen,          \* fills the user feed has counted
  position,      \* holdings, as the runner's tracker knows them
  brokerPosition,\* holdings, as the broker's own tracker knows them
  lossHit,       \* whether the realized loss has reached max_daily_loss
  misled,        \* history: fills were repeated, lost, or late for a pass
  faults         \* faults that may still happen

exchange == <<orders, balance, issued, trades>>
feed == <<connected, news>>
pass == <<key, snapshot, sellable, quoting>>
memory == <<seen, position, brokerPosition, lossHit>>
vars == <<exchange, feed, session, sessions, pass, memory, misled, faults>>

Order == [id : Nat \ {0}, key : Key, left : Nat \ {0}]
Report == [order : Nat \ {0}, key : Key, size : Nat \ {0}, trade : Nat \ {0}]

TypeOK ==
  /\ orders \subseteq Order
  /\ balance \in [Tokens -> Nat]
  /\ issued \in 0..MaxOrders
  /\ trades \in Nat
  /\ connected \in BOOLEAN
  /\ news \in Seq(Report)
  /\ session \in {"on", "stopped", "crashed"}
  /\ sessions \in 1..MaxSessions
  /\ key \in 0..Len(Keys)
  /\ snapshot \in [RowKey -> Nat]
  /\ sellable \in [Tokens -> Nat]
  /\ quoting \in BOOLEAN
  /\ seen \subseteq Nat \X Nat \X Nat
  /\ position \in [Tokens -> Nat]
  /\ brokerPosition \in [Tokens -> Nat]
  /\ lossHit \in BOOLEAN
  /\ misled \in BOOLEAN
  /\ faults \in 0..MaxFaults

Nothing == [t \in Tokens |-> 0]
NoOrders == [k \in RowKey |-> 0]

Init ==
  /\ orders = {}
  /\ balance = Nothing
  /\ issued = 0
  /\ trades = 0
  /\ connected = TRUE
  /\ news = <<>>
  /\ session = "on"
  /\ sessions = 1
  /\ key = 0
  /\ snapshot = NoOrders
  /\ sellable = Nothing
  /\ quoting = FALSE
  /\ seen = {}
  /\ position = Nothing
  /\ brokerPosition = Nothing
  /\ lossHit = FALSE
  /\ misled = FALSE
  /\ faults = MaxFaults

Smaller(m, n) == IF m < n THEN m ELSE n
Larger(m, n) == IF m > n THEN m ELSE n

May(kind, cost) == cost > 0 => kind \in Faults
Spend(cost) == cost <= faults /\ faults' = faults - cost

-----------------------------------------------------------------------------
(* A pass.                                                                 *)

\* Where the row of an order of k goes, its side taken as written.
Filed(k, form) ==
  CASE form = "paper" -> {k}
    [] form = "posted" -> {<<k[1], Posted(k[2])>>}
    [] form = "unread" -> {}

\* The open orders whose rows go to k.
Listed(k, form) == {o.id : o \in {p \in orders : k \in Filed(p.key, form)}}

\* One of the orders of a key, the last in the answer, ends up there.
Snapshots(form) ==
  LET found == UNION {Filed(o.key, form) : o \in orders}
      last == {s \in [found -> {o.id : o \in orders}] : \A k \in found : s[k] \in Listed(k, form)}
  IN  {[k \in RowKey |-> IF k \in found THEN s[k] ELSE 0] : s \in last}

\* Merging is bookkeeping of the runner's tracker alone.
Merged ==
  LET amount == Smaller(position[Yes], position[No])
  IN  IF amount >= MinMerge THEN [t \in Tokens |-> position[t] - amount] ELSE position

\* A snapshot that fails, retries included, counts as no open orders.
StartPass ==
  /\ session = "on"
  /\ key = 0
  /\ position' = Merged
  /\ sellable' = position'
  /\ quoting' \in BOOLEAN
  /\ \/ \E form \in RowForms : snapshot' \in Snapshots(form)
        /\ UNCHANGED faults
     \/ snapshot' = NoOrders /\ May("snapshot", 1) /\ Spend(1)
  /\ key' = 1
  /\ misled' = (misled \/ news # <<>>)
  /\ UNCHANGED <<exchange, feed, session, sessions, seen, brokerPosition, lossHit>>

\* Variant: the limit is checked on what is held, without the new order.
BugRefused(k, size) ==
  k[2] = "buy" /\ (brokerPosition[k[1]] > PositionCap \/ lossHit)

\* LiveBroker's own checks; only buys are looked at.
Refused(k, size) ==
  k[2] = "buy" /\ (brokerPosition[k[1]] + size > PositionCap \/ lossHit)

\* An attempt that times out may have been accepted and is made again, without
\* anything that tells the exchange it is the same order.
Copies == 0..(MaxRetries + 1)
FaultsOf(copies) == IF copies = 0 THEN 1 ELSE copies - 1

Accept(k, size, open, copies) ==
  /\ issued + copies <= MaxOrders
  /\ orders' = open \cup {[id |-> issued + i, key |-> k, left |-> size] : i \in 1..copies}
  /\ issued' = issued + copies

\* failed counts the faults of the cancellation before.
Place(k, size, open, failed) ==
  \/ /\ Refused(k, size)
     /\ orders' = open
     /\ Spend(failed)
     /\ UNCHANGED issued
  \/ /\ ~Refused(k, size)
     /\ \E copies \in Copies :
          /\ May(IF copies = 0 THEN "refusal" ELSE "timeout", FaultsOf(copies))
          /\ Accept(k, size, open, copies)
          /\ Spend(failed + FaultsOf(copies))

\* Variant: the order is not cancelled.
BugWithout(id) == orders

Without(id) == {o \in orders : o.id # id}

\* Sizes an order may be desired of k in: none for a key with a posted side.
Desirable(k) ==
  {s \in Sizes : /\ k \in Key
                 /\ quoting
                 /\ issued < MaxOrders
                 /\ k[2] = "sell" => s <= sellable[k[1]]}

\* Variant: an order that nothing is desired of is left alone.
BugSettle(k, id) ==
  IF Desirable(k) = {} THEN UNCHANGED <<orders, issued, faults>>
  ELSE \E size \in Desirable(k) : Place(k, size, Without(id), 0)

\* One action of the plan: nothing, cancel, place, or cancel and place.  What
\* a call answers is not looked at: a failed cancellation does not keep the
\* replacement back.
Settle(k, id) ==
  \/ \E failed \in {0} \cup (IF id = 0 THEN {} ELSE {1}) :
       LET open == IF failed = 1 THEN orders ELSE Without(id)
       IN  /\ May("cancel", failed)
           /\ \/ orders' = open /\ Spend(failed) /\ UNCHANGED issued
              \/ \E size \in Desirable(k) : Place(k, size, open, failed)
  \/ /\ id # 0
     /\ Desirable(k) # {}
     /\ UNCHANGED <<orders, issued, faults>>

SettleKey ==
  /\ session = "on"
  /\ key > 0
  /\ Settle(Keys[key], snapshot[Keys[key]])
  /\ IF key < Len(Keys)
       THEN key' = key + 1 /\ UNCHANGED <<snapshot, sellable, quoting>>
       ELSE /\ key' = 0
            /\ snapshot' = NoOrders
            /\ sellable' = Nothing
            /\ UNCHANGED quoting
  /\ UNCHANGED <<balance, trades, feed, session, sessions, memory, misled>>

-----------------------------------------------------------------------------
(* The exchange.                                                           *)

\* Some of an open order is executed, and reported if the session listens.
Fill(o, q) ==
  /\ o.key[2] = "sell" => q <= balance[o.key[1]]
  /\ orders' = (orders \ {o})
                 \cup (IF q < o.left THEN {[o EXCEPT !.left = @ - q]} ELSE {})
  /\ balance' = [balance EXCEPT ![o.key[1]] = IF o.key[2] = "buy" THEN @ + q ELSE @ - q]
  /\ trades' = trades + 1
  /\ news' = IF connected /\ session = "on"
               THEN Append(news, [order |-> o.id, key |-> o.key, size |-> q, trade |-> trades + 1])
               ELSE news
  /\ UNCHANGED <<issued, connected, session, sessions, pass, memory, misled, faults>>

-----------------------------------------------------------------------------
(* The user feed.                                                          *)

\* Variant: a sale of more than is known to be held is taken off in full.
BugAfter(pos, r) ==
  [pos EXCEPT ![r.key[1]] = IF r.key[2] = "buy" THEN @ + r.size ELSE @ - r.size]

After(pos, r) ==
  [pos EXCEPT ![r.key[1]] = IF r.key[2] = "buy" THEN @ + r.size ELSE Larger(0, @ - r.size)]

\* Variant: fills are told apart by order and size only.
BugIdentity(r) == <<r.order, r.size, 0>>

Identity(r) == <<r.order, r.size, r.trade>>

\* _on_user_message: the user feed drops a fill it has counted, record_fill
\* counts all it is given.  Fees and sales move the realized result.
Handle(r) ==
  /\ IF Identity(r) \in seen
       THEN UNCHANGED <<seen, position>>
       ELSE /\ seen' = seen \cup {Identity(r)}
            /\ position' = After(position, r)
  /\ brokerPosition' = After(brokerPosition, r)
  /\ lossHit' \in IF r.key[2] = "buy" THEN {lossHit, TRUE} ELSE BOOLEAN

Deliver ==
  /\ session = "on"
  /\ key = 0
  /\ connected
  /\ news # <<>>
  /\ Handle(Head(news))
  /\ \/ news' = Tail(news) /\ UNCHANGED <<misled, faults>>
     \/ news' = news /\ misled' = TRUE /\ May("redelivery", 1) /\ Spend(1)
  /\ UNCHANGED <<exchange, connected, session, sessions, pass>>

\* What is reported while the feed is down is never asked for again.
Disconnect ==
  /\ session = "on"
  /\ connected
  /\ May("disconnect", 1)
  /\ Spend(1)
  /\ connected' = FALSE
  /\ news' = <<>>
  /\ misled' = TRUE
  /\ UNCHANGED <<exchange, session, sessions, pass, memory>>

Reconnect ==
  /\ session = "on"
  /\ key = 0
  /\ ~connected
  /\ connected' = TRUE
  /\ UNCHANGED <<exchange, news, session, sessions, pass, memory, misled, faults>>

-----------------------------------------------------------------------------
(* Sessions.                                                               *)

Leave ==
  /\ connected' = FALSE
  /\ news' = <<>>
  /\ key' = 0
  /\ snapshot' = NoOrders
  /\ sellable' = Nothing
  /\ quoting' = FALSE
  /\ UNCHANGED <<balance, issued, trades, sessions, memory, misled>>

\* The session's time is up, its loss cap is reached or it is interrupted:
\* cancel_all is called, and what it answers is not looked at.
Stop ==
  /\ session = "on"
  /\ key = 0
  /\ session' = "stopped"
  /\ \/ orders' = {} /\ UNCHANGED faults
     \/ orders' = orders /\ May("cancel_all", 1) /\ Spend(1)
  /\ Leave

Crash ==
  /\ session = "on"
  /\ May("crash", 1)
  /\ Spend(1)
  /\ session' = "crashed"
  /\ UNCHANGED orders
  /\ Leave

\* A new session starts with empty trackers.
Restart ==
  /\ session # "on"
  /\ sessions < MaxSessions
  /\ session' = "on"
  /\ sessions' = sessions + 1
  /\ connected' = TRUE
  /\ seen' = {}
  /\ position' = Nothing
  /\ brokerPosition' = Nothing
  /\ lossHit' = FALSE
  /\ misled' = TRUE
  /\ UNCHANGED <<exchange, news, pass, faults>>

Next ==
  \/ StartPass
  \/ SettleKey
  \/ \E o \in orders : \E q \in 1..o.left : Fill(o, q)
  \/ Deliver
  \/ Disconnect
  \/ Reconnect
  \/ Stop
  \/ Crash
  \/ Restart

Spec == Init /\ [][Next]_vars

\* The loop goes on while the session lasts, and nothing in a pass can block
\* for ever.
Fairness == WF_vars(StartPass) /\ WF_vars(SettleKey)

FairSpec == Spec /\ Fairness

-----------------------------------------------------------------------------
(* Properties.                                                             *)

\* The planner knows one open order per quote key; a second one would rest
\* beside it unseen.  Orders are known from the exchange only, so this has to
\* survive fills during a pass, a feed that is down or repeats itself, and a
\* crash in the middle of a pass, as long as no placement times out and is made
\* again and no cancellation or snapshot fails.  It is what "Broker reconnect restores
\* open-order state without duplicate intents" (Polymarket Trading Plan.md:108)
\* asks for.
OneOrderPerQuote == \A o, p \in orders : o.key = p.key => o = p

\* As long as the feed is not interrupted and nothing is merged, the tracker of
\* the first session and what the feed has yet to count add up to the account,
\* however orders are retried, orphaned and cancelled and fills are repeated.
\* (A later session starts with empty trackers, whatever the account holds.)
Uncounted(t, side) ==
  {r \in Range(news) : r.key = <<t, side>> /\ Identity(r) \notin seen}
Lots(reports) == MapThenSumSet(LAMBDA r : r.size, reports)
HoldingsKnown ==
  session = "on" /\ sessions = 1 =>
    \A t \in Tokens :
      position[t] + Lots(Uncounted(t, "buy")) - Lots(Uncounted(t, "sell")) = balance[t]

\* The position limit is checked order by order against the holdings reported
\* so far (max_position_notional).  A fill between the report and the placement
\* is in neither the holdings nor the open orders, so the account may exceed
\* the limit, but by one order at most as long as every pass starts with all
\* fills reported once.
LargestSize == CHOOSE s \in Sizes : \A r \in Sizes : r <= s
PositionNearlyCapped ==
  ~misled => \A t \in Tokens : balance[t] <= PositionCap + LargestSize

\* Once the filters let nothing through any more, whatever failures left on
\* offer goes: duplicates of a key one by one, and the orders of a session
\* that crashed.
QuotesGo == <>[](session = "on" /\ ~quoting) => <>[](orders = {})
=============================================================================
