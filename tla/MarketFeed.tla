----------------------------- MODULE MarketFeed -----------------------------
(***************************************************************************)
(* The market feed, PolymarketMarketFeed (core_mm/market_ws_adapter.py),   *)
(* under the script's loop, which points it at the tokens of the active    *)
(* markets (scripts/run_core_mm.py).  Feed and script are coroutines of    *)
(* one event loop: the feed's steps below end where it awaits, and the     *)
(* script refreshes the selection or stops the feed in between.            *)
(*                                                                         *)
(* Data.  A set of tokens is the set of markets it belongs to.  Book       *)
(* messages change nothing here (PaperBroker models what they lead to).    *)
(***************************************************************************)
EXTENDS MarketSelection

CONSTANT MaxFailures   \* bound: failures of the connection

ASSUME FailuresAssumption == MaxFailures \in Nat

VARIABLES
  pc,         \* where the feed is
  desired,    \* _desired_token_ids
  reported,   \* _active_token_ids, as status() tells them
  sending,    \* tokens in the subscription that is being sent
  subscribed, \* tokens the connection is subscribed to
  reconnect,  \* _reconnect_event
  stopping,   \* _stop_event
  failures    \* failures that may still happen

feed == <<pc, desired, reported, sending, subscribed, reconnect, stopping, failures>>
vars == <<selection, feed>>

Places == {"idle", "connecting", "sending", "receiving", "closing", "backoff", "done"}

FeedTypeOK ==
  /\ pc \in Places
  /\ {desired, reported, sending, subscribed} \subseteq SUBSET Markets
  /\ reconnect \in BOOLEAN
  /\ stopping \in BOOLEAN
  /\ failures \in 0..MaxFailures

TypeOK == SelectionTypeOK /\ FeedTypeOK

Init ==
  /\ SelectionInit
  /\ pc = "idle"
  /\ desired = {}
  /\ reported = {}
  /\ sending = {}
  /\ subscribed = {}
  /\ reconnect = FALSE
  /\ stopping = FALSE
  /\ failures = MaxFailures

-----------------------------------------------------------------------------
(* The script.                                                             *)

\* Variant: the receive loop is not told.
BugSetTokenIds(tokens) ==
  /\ desired' = tokens
  /\ UNCHANGED reconnect

SetTokenIds(tokens) ==
  /\ desired' = tokens
  /\ reconnect' = (reconnect \/ tokens # desired)

Refresh(ranking) ==
  /\ ~stopping
  /\ Select(ranking)
  /\ IF active' # <<>> /\ Changed
       THEN SetTokenIds(Members(active'))
       ELSE UNCHANGED <<desired, reconnect>>
  /\ UNCHANGED <<pc, reported, sending, subscribed, stopping, failures>>

\* Variant: a feed that waits for a message is not woken up.
BugStop ==
  /\ ~stopping
  /\ stopping' = TRUE
  /\ UNCHANGED <<selection, pc, desired, reported, sending, subscribed, reconnect, failures>>

Stop ==
  /\ ~stopping
  /\ stopping' = TRUE
  /\ reconnect' = TRUE
  /\ UNCHANGED <<selection, pc, desired, reported, sending, subscribed, failures>>

PassTime == ~stopping /\ Tick /\ UNCHANGED feed

-----------------------------------------------------------------------------
(* The feed.                                                               *)

Connect ==
  /\ pc = "idle"
  /\ pc' = IF stopping THEN "done" ELSE "connecting"
  /\ stopping \/ desired # {}
  /\ UNCHANGED <<selection, desired, reported, sending, subscribed, reconnect, stopping, failures>>

\* The payload is made of the tokens desired now.
Subscribe ==
  /\ pc = "connecting"
  /\ pc' = "sending"
  /\ sending' = desired
  /\ UNCHANGED <<selection, desired, reported, subscribed, reconnect, stopping, failures>>

\* The payload is sent.  What is reported is what is desired by then.
Subscribed ==
  /\ pc = "sending"
  /\ pc' = IF stopping THEN "closing" ELSE "receiving"
  /\ subscribed' = sending
  /\ reported' = desired
  /\ UNCHANGED <<selection, desired, sending, reconnect, stopping, failures>>

\* The receive loop finds the reconnect event set, with or without a message.
Reconnect ==
  /\ pc = "receiving"
  /\ reconnect
  /\ pc' = "closing"
  /\ UNCHANGED <<selection, desired, reported, sending, subscribed, reconnect, stopping, failures>>

\* Connecting, sending or receiving fails.  Nothing is cleaned up yet.
Fail ==
  /\ pc \in {"connecting", "sending", "receiving", "closing"}
  /\ failures > 0
  /\ failures' = failures - 1
  /\ pc' = "backoff"
  /\ sending' = {}
  /\ subscribed' = {}
  /\ UNCHANGED <<selection, desired, reported, reconnect, stopping>>

\* Variant: the reconnect event stays set.
BugLeave ==
  /\ pc \in {"closing", "backoff"}
  /\ pc' = "idle"
  /\ subscribed' = {}
  /\ sending' = {}
  /\ reported' = {}
  /\ UNCHANGED <<selection, desired, reconnect, stopping, failures>>

\* The finally clause, once the connection is closed or backoff is over.
Leave ==
  /\ pc \in {"closing", "backoff"}
  /\ pc' = "idle"
  /\ subscribed' = {}
  /\ sending' = {}
  /\ reported' = {}
  /\ reconnect' = FALSE
  /\ UNCHANGED <<selection, desired, stopping, failures>>

Feed == Connect \/ Subscribe \/ Subscribed \/ Reconnect \/ Leave

Next ==
  \/ \E ranking \in Rankings : Refresh(ranking)
  \/ PassTime
  \/ Stop
  \/ Connect
  \/ Subscribe
  \/ Subscribed
  \/ Reconnect
  \/ Fail
  \/ Leave

Spec == Init /\ [][Next]_vars

\* Awaited connections, messages and timeouts end and the event loop runs what
\* is ready; the script refreshes the selection again and again, with clock time
\* passing in between.
FairSpec ==
  /\ Spec
  /\ WF_vars(Feed)
  /\ WF_vars(\E ranking \in Rankings : Refresh(ranking))
  /\ WF_vars(PassTime)

-----------------------------------------------------------------------------
(* Properties.                                                             *)

\* A feed that waits for messages, with no reconnect due, is subscribed to what
\* is desired and says so: a change of the tokens during connecting, sending,
\* closing or backoff, where the event is set and cleared, is never lost.
NoLostChange ==
  pc = "receiving" /\ ~reconnect => subscribed = desired /\ reported = subscribed

\* While any market is active the feed is pointed at all active markets,
\* although it is told of changes only: the selection may become empty in
\* between, and come back as it was.
SelectionDesired == active # <<>> => desired = Members(active)

\* The selection the session settles on is subscribed to in the end, whatever
\* changes and failures came before.
SettledOn(chosen) == active # <<>> /\ Members(active) = chosen /\ ~stopping
SelectionFollowed ==
  \A chosen \in SUBSET Markets :
    <>[]SettledOn(chosen) => <>[](pc = "receiving" /\ subscribed = chosen)

\* Protection ends: a candidate that leads every ranking of a session that goes
\* on becomes active for good.
Leads(m) == candidates # <<>> /\ candidates[1] = m
LeaderGetsIn ==
  \A m \in Markets : <>[](~stopping /\ Leads(m)) => <>[](m \in Members(active))

\* A feed that is stopped, wherever it is, ends by itself.
StopEnds == stopping ~> pc = "done"
=============================================================================
