--------------------------- MODULE ReferencePrice ---------------------------
(***************************************************************************)
(* The reference price of one symbol (core/pstar), built from the last     *)
(* quote of a spot and of a perpetual venue.  Each venue has a feed of one *)
(* of three kinds: "poll" asks again after any failure, "session" is one   *)
(* websocket whose first error ends it, "futures" is a websocket that is   *)
(* opened again.  A quote carries the venue's own time, which may run      *)
(* behind or ahead of the clock here, and may reach it late.               *)
(***************************************************************************)
EXTENDS Integers

CONSTANTS
  MaxAge,  \* ticks after which a quote is stale
  Late,    \* how far a quote's time may lie behind its arrival
  Ahead    \* how far it may lie ahead

ReferenceAssumption == MaxAge \in Nat /\ Late \in 0..MaxAge /\ Ahead \in Nat

VARIABLES
  kind,    \* the kind of each venue's feed
  link,    \* "up", "down" (to be retried) or "ended"
  mute,    \* the venues whose link is open and says nothing
  apart,   \* whether the two venues' prices are too far apart
  latest,  \* the quote kept of each venue: its age by the venue's time, its age
           \* by its arrival, and whether it was given while the prices were apart
  heard,   \* the venues heard since the last tick
  calm     \* full ticks since the last trouble, as far as they matter

vars == <<kind, link, mute, apart, latest, heard, calm>>

Venues == {"spot", "perp"}

NoQuote == [age |-> MaxAge + 1, received |-> MaxAge + Ahead + 1, off |-> FALSE, known |-> FALSE]

Known == {v \in Venues : latest[v].known}
Stale == {v \in Known : latest[v].age > MaxAge}

\* Only the perpetual's price ever moves away.
Diverged == Known = Venues /\ latest["perp"].off

\* Only the venue with the latest time is looked at.
BugState ==
  IF Known = {} THEN "UNAVAILABLE"
  ELSE IF Stale = Known THEN "STALE"
  ELSE IF Diverged THEN "DIVERGED"
  ELSE IF Known = Venues THEN "VALID" ELSE "WARMING"

\* PStarBuilder.build: one venue is enough as long as the other was never heard.
State ==
  IF Known = {} THEN "UNAVAILABLE"
  ELSE IF Stale # {} THEN "STALE"
  ELSE IF Diverged THEN "DIVERGED"
  ELSE IF Known = Venues THEN "VALID" ELSE "WARMING"

Priced == State \in {"VALID", "WARMING"}

-----------------------------------------------------------------------------

Init ==
  /\ kind \in [spot : {"poll", "session"}, perp : {"poll", "futures"}]
  /\ link = [v \in Venues |-> "up"]
  /\ mute = {} /\ apart = FALSE
  /\ latest = [v \in Venues |-> NoQuote]
  /\ heard = {} /\ calm = 0

\* A venue's own time, against the clock here; without one a quote counts as
\* of its arrival.
Times == -Ahead..Late

\* PStarBuilder.ingest drops a quote older than the one kept, by these times.
Kept(v, age) == latest[v].known /\ age > latest[v].age

Ingest(v) ==
  \E age \in Times :
    latest' = IF Kept(v, age) THEN latest
              ELSE [latest EXCEPT ![v] = [age |-> age, received |-> 0, known |-> TRUE,
                                          off |-> apart /\ v = "perp"]]

\* A request is answered; after failures the feed counts as recovered.
Poll(v) ==
  /\ kind[v] = "poll" /\ v \notin mute
  /\ Ingest(v)
  /\ link' = [link EXCEPT ![v] = "up"]
  /\ heard' = heard \cup {v}
  /\ UNCHANGED <<kind, mute, apart, calm>>

\* A request fails or times out; the next one is made all the same.
PollFails(v) ==
  /\ kind[v] = "poll" /\ link[v] = "up"
  /\ link' = [link EXCEPT ![v] = "down"]
  /\ mute' = mute \ {v} /\ calm' = 0
  /\ UNCHANGED <<kind, apart, latest, heard>>

\* A websocket hands over a quote.
Receive(v) ==
  /\ kind[v] # "poll" /\ link[v] = "up" /\ v \notin mute
  /\ Ingest(v)
  /\ heard' = heard \cup {v}
  /\ UNCHANGED <<kind, link, mute, apart, calm>>

\* A failed subscription or read ends either websocket's task.
BugAfterFailure(v) == "ended"

AfterFailure(v) == IF kind[v] = "session" THEN "ended" ELSE "down"

\* A connection or a read fails; that of a mute link by the inactivity timeout
\* or an unanswered ping.
Disconnect(v) ==
  /\ kind[v] # "poll" /\ link[v] = "up"
  /\ link' = [link EXCEPT ![v] = AfterFailure(v)]
  /\ mute' = mute \ {v} /\ calm' = 0
  /\ UNCHANGED <<kind, apart, latest, heard>>

\* The futures feed opens its connection again and subscribes.
Reconnect(v) ==
  /\ kind[v] = "futures" /\ link[v] = "down"
  /\ link' = [link EXCEPT ![v] = "up"]
  /\ UNCHANGED <<kind, mute, apart, latest, heard, calm>>

FallSilent(v) ==
  /\ link[v] = "up" /\ v \notin mute
  /\ mute' = mute \cup {v} /\ calm' = 0
  /\ UNCHANGED <<kind, link, apart, latest, heard>>

\* The venues' prices move apart or together again.
Move == apart' = ~apart /\ calm' = 0 /\ UNCHANGED <<kind, link, mute, latest, heard>>

\* PStarBuilder.reset_symbols, when the runtime takes on another market.
Reset ==
  /\ latest' = [v \in Venues |-> NoQuote] /\ calm' = 0
  /\ UNCHANGED <<kind, link, mute, apart, heard>>

Cap(age, most) == IF age > most THEN most ELSE age

Older(q) ==
  IF q.known
  THEN [age |-> Cap(q.age + 1, MaxAge + 1), received |-> Cap(q.received + 1, MaxAge + Ahead + 1),
        off |-> q.off, known |-> q.known]
  ELSE q

\* Full ticks for which something from before the calm can last: a quote from
\* the future, or the gap a reset left in the tick it came in.
Settling == IF Ahead + Late = 0 THEN 1 ELSE Ahead + Late

\* No link is open and mute or waits to be retried, and the prices are close.
Healthy == ~apart /\ mute = {} /\ \A v \in Venues : link[v] # "down"

\* A tick is longer than a poll and its answer: a feed that is up and not mute
\* was heard in it.
Tick ==
  /\ \A v \in Venues : link[v] = "up" => v \in mute \cup heard
  /\ latest' = [v \in Venues |-> Older(latest[v])]
  /\ heard' = {}
  /\ calm' = IF Healthy THEN Cap(calm + 1, Settling + 1) ELSE 0
  /\ UNCHANGED <<kind, link, mute, apart>>

Next ==
  \/ \E v \in Venues : \/ Poll(v) \/ PollFails(v)
                       \/ Receive(v) \/ Disconnect(v) \/ Reconnect(v) \/ FallSilent(v)
  \/ Move \/ Reset \/ Tick

Spec == Init /\ [][Next]_vars

-----------------------------------------------------------------------------

(* Ages stay within their bounds, and only a futures feed or a poll waits  *)
(* to be tried again.                                                      *)
TypeOK ==
  /\ kind \in [Venues -> {"poll", "session", "futures"}]
  /\ link \in [Venues -> {"up", "down", "ended"}]
  /\ calm \in 0..(Settling + 1)
  /\ mute \subseteq Venues /\ heard \subseteq Venues /\ apart \in BOOLEAN
  /\ latest \in [Venues -> [age : -Ahead..(MaxAge + 1), off : BOOLEAN, known : BOOLEAN,
                            received : 0..(MaxAge + Ahead + 1)]]

(* Whatever the venues' clocks say and whichever feed has died, a price is *)
(* never given from a quote that arrived more than MaxAge + Ahead ago: a   *)
(* quote from the future keeps later ones out, but not for longer.         *)
PriceIsRecent == Priced => \A v \in Known : latest[v].received <= MaxAge + Ahead

(* Once no link fails or goes mute and the prices stay together, the price *)
(* is back within Settling + 1 ticks: no quote kept from before (from  *)
(* the future, or from the time the prices were apart) holds it back for   *)
(* longer, and no feed but the session is lost by its failures.  A quote   *)
(* must be able to last for a tick after it arrives (Late < MaxAge).       *)
PriceReturns ==
  kind["spot"] = "poll" /\ Late < MaxAge /\ calm > Settling => Priced
=============================================================================
