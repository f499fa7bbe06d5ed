--------------------------- MODULE DecisionReplay ---------------------------
(***************************************************************************)
(* The offline replay of recorded events (core/replay) through the engine  *)
(* that decides on simulated positions (core/decision_engine,              *)
(* core/entry_exit_rules).  The tape is one sequence of reference quotes   *)
(* and market records in the order they were received.  Decisions are      *)
(* dated: at each market record the engine first makes up for the          *)
(* heartbeats that are overdue, dated at the moments they were due, from   *)
(* what it has read by then.  Two assets are the two outcomes of one       *)
(* market and follow one reference symbol.                                 *)
(***************************************************************************)
EXTENDS Integers, FiniteSets, FiniteSetsExt, Sequences, SequencesExt

CONSTANTS
  Interval,   \* time between heartbeats of an asset
  HoldMax,    \* time after which a position is closed
  MaxAge,     \* age from which a quote is stale
  MaxBookAge, \* age from which a book is stale
  Ends,       \* from this time on too little of the market is left to enter
  Tops,       \* best bid and ask of a market record, 0 where the side is empty
  MaxSpread, Fee, EdgeMin, EdgeExit, EdgeStop,
  Values,     \* reference values
  Hard,       \* difference at which the two sources disagree
  AllowPartial,  \* whether one source's price is passed on, as "partial"
  Lags,       \* time from a quote's event to its arrival
  Skews,      \* wall clock of a quote against the time line of the tape
  Traded,     \* the assets the tape has market records of
  Extra,      \* time after the last market record that heartbeats are made up for
  Steps, MaxTime, MaxQuotes, MaxReads  \* bounds: of the time between records and of the tape

Sources == {"spot", "perp"}
Assets == {"up", "down"}

ReplayAssumption ==
  /\ Interval \in Nat \ {0} /\ HoldMax \in Nat /\ Ends \in Nat /\ Extra \in Nat
  /\ {EdgeMin, EdgeStop, EdgeExit} \subseteq Nat /\ EdgeMin > EdgeStop /\ EdgeStop > EdgeExit
  /\ Traded \subseteq Assets
  /\ Steps \subseteq Nat /\ Lags \subseteq Nat /\ Skews \subseteq Int /\ Values \subseteq Int
  /\ MaxQuotes \in Nat /\ MaxReads \in Nat

VARIABLES
  trained,    \* whether a trained model is used
  clock,      \* time of the record read last
  left,       \* quotes and market records still on the tape
  reading,    \* the market record being processed, or the time of the last one
  quotes,     \* the aggregator's quote of each source
  points,     \* the quotes by the time of their events, as the model sees them
  signal,     \* the momentum of the validated price
  books,      \* top of each asset's book and when it came
  lastBbo,    \* what the last change of the top was measured against
  last,       \* time of each asset's last decision
  position,   \* the simulated position in each asset
  decided     \* the decision made last

vars == <<trained, clock, left, reading, quotes, points, signal, books, lastBbo,
          last, position, decided>>

Never == -1
NoQuote == [value |-> 0, recv |-> Never, wall |-> Never]
NoTop == [bid |-> 0, ask |-> 0]
Flat == [side |-> "none", since |-> 0, edge |-> 0]
Idle == [kind |-> "idle", asset |-> "up", top |-> NoTop, at |-> 0]

Sign(x) == IF x > 0 THEN 1 ELSE IF x < 0 THEN -1 ELSE 0
Abs(x) == IF x < 0 THEN -x ELSE x

-----------------------------------------------------------------------------
(* The validated reference price at a time.                                *)

Heard == {s \in Sources : quotes[s].recv # Never}

\* The sources whose quote came after the decision, on either clock.
BugFuture(t) == {}

Future(t) == {s \in Heard : quotes[s].recv > t \/ quotes[s].wall >= t}

Stale(t) == {s \in Heard : t - quotes[s].wall > MaxAge}
Apart == Abs(quotes["spot"].value - quotes["perp"].value)

Status(t) ==
  IF Heard = {} \/ (Heard # Sources /\ ~AllowPartial) THEN "missing"
  ELSE IF Heard # Sources THEN "partial"
  ELSE IF Future(t) # {} THEN "future"
  ELSE IF Apart >= Hard THEN "extreme"
  ELSE IF Stale(t) # {} THEN "stale" ELSE "ok"

\* A partial price needs a confidence of 0.5 out of 0.6 at age zero.
Sure(t) == \A s \in Heard : 6 * (t - quotes[s].wall) <= MaxAge

\* Twice the mean of the sources that spoke, and when the later one did.
Value == IF Heard = Sources THEN quotes["spot"].value + quotes["perp"].value
         ELSE 2 * quotes[CHOOSE s \in Heard : TRUE].value
Received == Max({quotes[s].recv : s \in Heard})

Usable(t) == Status(t) = "ok" \/ (Status(t) = "partial" /\ Sure(t))

-----------------------------------------------------------------------------
(* What the price has done, and what the asset should then cost.           *)

NoSignal == [value |-> 0, at |-> Never, way |-> 0, moved |-> FALSE]

\* ReferenceSignalState.update: only a price from the past, newer than the last.
Updated(t) ==
  IF ~Usable(t) \/ Received > t \/ Received <= signal.at THEN signal
  ELSE IF signal.at = Never THEN [NoSignal EXCEPT !.value = Value, !.at = Received]
  ELSE [value |-> Value, at |-> Received, way |-> Sign(Value - signal.value),
        moved |-> signal.moved \/ Value # signal.value]

\* The feature builder's history: every quote of an event before t, which are
\* the first ones.
History(t) == {i \in DOMAIN points : points[i].event < t}

\* Without any movement there is no volatility and the features fail.
Featured(t) == trained /\ \E i, j \in History(t) : points[i].value # points[j].value

Way(sig, t) ==
  IF Featured(t) THEN Sign(points[Max(History(t))].value - points[1].value) ELSE sig.way

FairKnown(sig, t) == Featured(t) \/ sig.moved

\* p_fair, on a scale of 0 to 10.
Fair(a, sig, t) == 5 + 3 * (IF a = "up" THEN Way(sig, t) ELSE -Way(sig, t))

\* When the latest fact behind the decision was received.
Known(a, sig, t) ==
  Max({books[a].recv, sig.at}
      \cup (IF Usable(t) THEN {Received} ELSE {})
      \cup (IF Featured(t) THEN {points[i].recv : i \in History(t)} ELSE {}))

-----------------------------------------------------------------------------
(* Entry and exit rules.                                                   *)

Offers(a, sig, t) ==
  LET top == books[a].top
  IN IF ~FairKnown(sig, t) THEN {}
     ELSE {[side |-> "buy", edge |-> Fair(a, sig, t) - top.ask - Fee] : x \in {top.ask} \ {0}}
          \cup {[side |-> "sell", edge |-> top.bid - Fee - Fair(a, sig, t)] : x \in {top.bid} \ {0}}

\* choose_best_action: the larger edge, a buy before a sell.
Best(offers) ==
  CHOOSE o \in offers :
    \A p \in offers \ {o} : o.edge > p.edge \/ (o.edge = p.edge /\ o.side = "buy")

\* validate_hypothetical_order for a buy at once.
Ready(a, t) ==
  LET b == books[a]
  IN /\ b.recv # Never /\ t - b.recv <= MaxBookAge
     /\ b.top.bid # 0 /\ b.top.ask # 0
     /\ b.top.ask - b.top.bid <= MaxSpread

\* _alignment_check: an asset is bought when the price moves its way.
Aligned(a, side, sig) ==
  sig.way # 0 /\ side = IF (a = "up") = (sig.way > 0) THEN "buy" ELSE "sell"

\* entry_gate: the size of the edge counts, not its sign.
Allowed(a, sig, t) ==
  /\ Ready(a, t)
  /\ Status(t) = "ok"
  /\ sig.moved
  /\ t < Ends
  /\ Offers(a, sig, t) # {}
  /\ LET best == Best(Offers(a, sig, t))
     IN Abs(best.edge) >= EdgeMin /\ Aligned(a, best.side, sig)

\* _position_edge: against the price the position could be closed at.
Closing(a) == IF position[a].side = "buy" THEN books[a].top.bid - Fee ELSE books[a].top.ask + Fee
Closable(a) == (IF position[a].side = "buy" THEN books[a].top.bid ELSE books[a].top.ask) # 0

EdgeLost(a, sig, t) ==
  LET edge == Fair(a, sig, t) - Closing(a)
  IN \/ Abs(edge) <= EdgeExit
     \/ /\ Sign(edge) * Sign(position[a].edge) = -1
        /\ Abs(edge) >= EdgeStop

\* The edge is looked at before the time.
BugExits(a, sig, t) ==
  /\ position[a] # Flat
  /\ FairKnown(sig, t) /\ Closable(a)
  /\ t - position[a].since >= HoldMax \/ EdgeLost(a, sig, t)

\* exit_gate: the time first; no other gate is asked.
Exits(a, sig, t) ==
  /\ position[a] # Flat
  /\ \/ t - position[a].since >= HoldMax
     \/ FairKnown(sig, t) /\ Closable(a) /\ EdgeLost(a, sig, t)

-----------------------------------------------------------------------------
(* The engine and the tape.                                                *)

Init ==
  /\ trained \in BOOLEAN
  /\ clock = 0 /\ reading = Idle
  /\ left = [quotes |-> MaxQuotes, reads |-> MaxReads]
  /\ quotes = [s \in Sources |-> NoQuote]
  /\ points = <<>> /\ signal = NoSignal
  /\ books = [a \in Assets |-> [top |-> NoTop, recv |-> Never]]
  /\ lastBbo = [a \in Assets |-> [seen |-> FALSE, top |-> NoTop]]
  /\ last = [a \in Assets |-> Never]
  /\ position = [a \in Assets |-> Flat]
  /\ decided = [asset |-> "up", at |-> 0, entry |-> "none", exit |-> FALSE, known |-> Never]

\* _emit_decision: the exit first, then an entry, by the same facts.
Decide(a, t) ==
  LET sig == Updated(t)
      exits == Exits(a, sig, t)
      held == IF exits THEN Flat ELSE position[a]
      enters == held = Flat /\ Allowed(a, sig, t)
      best == Best(Offers(a, sig, t))
  IN /\ signal' = sig
     /\ last' = [last EXCEPT ![a] = t]
     /\ position' = [position EXCEPT ![a] =
                       IF enters THEN [side |-> best.side, since |-> t, edge |-> best.edge]
                       ELSE held]
     /\ decided' = [asset |-> a, at |-> t, exit |-> exits,
                    entry |-> IF enters THEN best.side ELSE "none",
                    known |-> Known(a, sig, t)]

Later == {t \in {clock + d : d \in Steps} : t <= MaxTime}

\* A reference record: to the aggregator, and to the features a model reads,
\* whatever its date.
Quote(s) ==
  /\ reading.kind = "idle" /\ left.quotes > 0
  /\ left' = [left EXCEPT !.quotes = @ - 1]
  /\ \E t \in Later, value \in Values, lag \in Lags, skew \in Skews :
       /\ clock' = t
       /\ quotes' = [quotes EXCEPT ![s] = [value |-> value, recv |-> t, wall |-> t + skew]]
       /\ LET before == Cardinality({i \in DOMAIN points : points[i].event <= t - lag})
          IN points' = IF trained
                       THEN InsertAt(points, before + 1, [event |-> t - lag, recv |-> t, value |-> value])
                       ELSE points
  /\ UNCHANGED <<trained, reading, signal, books, lastBbo, last, position, decided>>

\* The next market record; the heartbeats come first.
Read ==
  /\ reading.kind = "idle" /\ left.reads > 0
  /\ left' = [left EXCEPT !.reads = @ - 1]
  /\ \E t \in Later, a \in Traded, top \in Tops :
       clock' = t /\ reading' = [kind |-> "record", asset |-> a, top |-> top, at |-> t]
  /\ UNCHANGED <<trained, quotes, points, signal, books, lastBbo, last, position, decided>>

\* The tape is over.
End ==
  /\ reading.kind = "idle" /\ left = [quotes |-> 0, reads |-> 0]
  /\ reading' = [reading EXCEPT !.kind = "end", !.at = @ + Extra]
  /\ UNCHANGED <<trained, clock, left, quotes, points, signal, books, lastBbo, last, position, decided>>

Overdue == {a \in Assets : last[a] = Never \/ reading.at - last[a] >= Interval}
NextOverdue == IF "up" \in Overdue THEN "up" ELSE "down"

\* emit_heartbeats_until: one asset after the other.
Heartbeat ==
  /\ reading.kind \in {"record", "end"} /\ Overdue # {}
  /\ LET a == NextOverdue
     IN Decide(a, IF last[a] = Never THEN reading.at ELSE last[a] + Interval)
  /\ UNCHANGED <<trained, clock, left, reading, quotes, points, books, lastBbo>>

\* The record's new top enters the book.
ApplyBook ==
  /\ reading.kind = "record" /\ Overdue = {}
  /\ reading' = [reading EXCEPT !.kind = "applied"]
  /\ books' = [books EXCEPT ![reading.asset] = [top |-> reading.top, recv |-> reading.at]]
  /\ UNCHANGED <<trained, clock, left, quotes, points, signal, lastBbo, last, position, decided>>

\* on_book_update: a decision if the best bid or ask has changed.
OnBookUpdate ==
  /\ reading.kind = "applied"
  /\ LET a == reading.asset
         top == [seen |-> TRUE, top |-> books[a].top]
     IN /\ lastBbo' = [lastBbo EXCEPT ![a] = top]
        /\ IF lastBbo[a] # top THEN Decide(a, reading.at)
           ELSE UNCHANGED <<signal, last, position, decided>>
  /\ reading' = [Idle EXCEPT !.at = reading.at]
  /\ UNCHANGED <<trained, clock, left, quotes, points, books>>

Next == (\E s \in Sources : Quote(s)) \/ Read \/ End \/ Heartbeat \/ ApplyBook \/ OnBookUpdate

Spec == Init /\ [][Next]_vars

-----------------------------------------------------------------------------

TypeOK ==
  /\ clock \in 0..MaxTime
  /\ reading.kind \in {"idle", "record", "applied", "end"} /\ reading.at <= clock + Extra
  /\ \A a \in Assets : last[a] <= reading.at /\ position[a].side \in {"none", "buy", "sell"}
  /\ Len(points) + left.quotes <= MaxQuotes
  /\ \A i, j \in DOMAIN points : i < j => points[i].event <= points[j].event

(* A position is only entered by a decision that rests on facts received   *)
(* by its own date: heartbeats made up for later see quotes that came      *)
(* after them, through the price, the momentum that the other asset's      *)
(* later decisions have moved on, and the model's history, and none of     *)
(* these ever lets an entry through.                                       *)
EntriesKnown == decided.entry # "none" => decided.known <= decided.at

(* The same of the decisions that close a position; it fails, for exits    *)
(* ask for no validated price (Polymarket Trading Plan.md:100).            *)
ExitsKnown == decided.exit => decided.known <= decided.at

(* When a market record has entered its book, no position is older by the   *)
(* tape than the longest hold and one heartbeat: the decisions are never   *)
(* further apart, and a position whose price or book is gone is closed     *)
(* like any other.                                                         *)
PositionsEnd ==
  reading.kind = "applied" =>
    \A a \in Assets : position[a] # Flat => reading.at - position[a].since < HoldMax + Interval

(* A position is entered for an edge, not for a loss; it fails, for the    *)
(* entry gate compares the size of the edge and drops its sign.            *)
EntriesPay == \A a \in Assets : position[a] # Flat => position[a].edge > 0

(* A short position is not stopped out while it could be entered again for *)
(* as much; it fails, for an exit measures a short's edge with the         *)
(* opposite sign.                                                          *)
ShortsHold ==
  \A a \in Assets :
    /\ position[a].side = "sell" /\ Closable(a)
    /\ books[a].top.bid - Fee - Fair(a, signal, clock) >= position[a].edge
    => ~EdgeLost(a, signal, clock)
=============================================================================
