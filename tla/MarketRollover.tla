--------------------------- MODULE MarketRollover ---------------------------
(* The switch of the archived runtime from one market to its successor: the   *)
(* rollover loop of legacy/scripts/run_system.py, its manager and its health  *)
(* gate, and the market stream (MarketWSClient), whose connection comes and   *)
(* goes while the loop waits for it.                                          *)
(*                                                                            *)
(* An attempt asks discovery for a candidate, points the stream at it, waits  *)
(* until the stream has confirmed it, and then commits the runtime to it or   *)
(* points the stream back.  The clock is read once, when the attempt begins:  *)
(* "old" is what it said of the current market.  Markets have no token in     *)
(* common.  The swap of the runtime itself is the action Commit of            *)
(* QuoteRuntime.                                                              *)
EXTENDS Integers

CONSTANTS Markets, Threshold,    \* rollover_abort_threshold
          None                   \* no market

ASSUME MarketsAssumption == None \notin Markets
ASSUME ThresholdAssumption == Threshold \in Nat \ {0}

VARIABLES market,    \* RolloverManager.current
          books,     \* the market whose books the runtime quotes
          age,       \* of every market: open, ended, past its end by grace_ms
          phase,     \* what the rollover loop is doing
          cand,      \* the candidate of the attempt
          old,       \* the age of the current market when the attempt began
          active,    \* _active_asset_ids: what a new connection subscribes
          applied,   \* _active_asset_set: whose messages count as active
          pending,   \* _pending_asset_ids
          heard,     \* of pending: nothing, too little, enough
          onPending, \* _reconnect_pending_on_connect
          wire,      \* what the live connection is subscribed to
          aborts,    \* entries of abort_ts_ms
          cooling,   \* frozen_until_ts_ms is in the future
          goal       \* the market discovery will answer from here on

loop == <<market, books, phase, cand, old>>
stream == <<active, applied, pending, heard, onPending, wire>>
gate == <<aborts, cooling>>
vars == <<loop, stream, gate, age, goal>>

Ages == {"open", "ended", "past"}
Phases == {"idle", "discover", "switch", "reswitch", "commit", "back", "reback", "dead"}
Waiting == {"switch", "reswitch", "back", "reback"}
Down == "down"     \* no connection
Over(a) == a # "open"
Settled == goal # None

Init == /\ market \in Markets /\ books = market
        /\ age = [m \in Markets |-> "open"]
        /\ phase = "idle" /\ cand = None /\ old = "open"
        /\ active = market /\ applied = market
        /\ pending = None /\ heard = "nothing" /\ onPending = FALSE
        /\ wire = Down
        /\ aborts = 0 /\ cooling = FALSE
        /\ goal = None

-----------------------------------------------------------------------------
(* The attempt, up to the switch of the stream. *)

\* evaluate_reasons and should_attempt_discovery: the current market is near
\* its end, silent or closed.  The read of the clock is kept for the attempt.
Attempt ==
  /\ phase = "idle" /\ ~cooling
  /\ phase' = "discover" /\ old' = age[market]
  /\ UNCHANGED <<market, books, cand, stream, gate, age, goal>>

Idle == phase' = "idle" /\ cand' = None /\ UNCHANGED <<market, old>>

\* note_abort: the Threshold-th abort within the window closes the gate.
AbortsAfter == IF aborts = Threshold THEN aborts ELSE aborts + 1

\* _emit_rollover_abort, for an abort that counts.
CountAbort == aborts' = AbortsAfter /\ cooling' = (AbortsAfter = Threshold)

\* NoActiveMarketError, any other error, the same market again, or a candidate
\* too early: the attempt ends and is not counted.
NothingToDo ==
  /\ phase = "discover"
  /\ Settled => goal = market \/ old = "open"
  /\ Idle /\ UNCHANGED <<books, stream, gate, age, goal>>

\* More than one market, or one that has ended or takes no orders.
Unfit ==
  /\ phase = "discover" /\ ~Settled
  /\ Idle /\ CountAbort /\ UNCHANGED <<books, stream, age, goal>>

\* _candidate_liveness: not ended, and taking orders.
Live(c) == age[c] = "open"

\* can_commit_switch: before the end only a silent or closed market is left.
MaySwitch(c) == /\ c # market /\ Live(c)
                /\ Settled => c = goal

\* The first half of resubscribe, for a stream that is connected and elsewhere.
Point(c) ==
  /\ pending' = c /\ heard' = "nothing" /\ onPending' = FALSE
  /\ applied' = None
  /\ wire' = c
  /\ UNCHANGED active

\* The stream is there already (noop_same_market) or has no connection
\* (abort_not_connected): neither is "committed", and both count.
Refused(c) == active = c \/ wire = Down

Switch(c) ==
  /\ phase = "discover" /\ MaySwitch(c) /\ ~Refused(c)
  /\ phase' = "switch" /\ cand' = c
  /\ Point(c)
  /\ UNCHANGED <<market, books, old, gate, age, goal>>

SwitchRefused(c) ==
  /\ phase = "discover" /\ MaySwitch(c) /\ Refused(c)
  /\ Idle /\ CountAbort /\ UNCHANGED <<books, stream, age, goal>>

\* The connection closes between the unsubscription and the subscription: the
\* exception leaves resubscribe and ends the loop's task for good.
Broken ==
  /\ phase \in {"switch", "back"} /\ heard = "nothing" /\ wire = pending /\ ~Settled
  /\ phase' = "dead" /\ wire' = Down
  /\ UNCHANGED <<market, books, cand, old, active, applied, pending, heard, onPending, gate, age, goal>>

-----------------------------------------------------------------------------
(* The wait for the confirmation. *)

\* _record_pending_confirmation: a valid update adds up, an invalid one takes
\* away; enough is when every token has had its number.
HeardAfter == {"some", "enough"}

\* A message of a pending token.
Hear ==
  /\ phase \in Waiting /\ wire = pending /\ heard # "enough"
  /\ heard' \in HeardAfter
  /\ UNCHANGED <<loop, active, applied, pending, onPending, wire, gate, age, goal>>

\* The wait is over, the connection made for it is not told.
BugForget == pending' = None /\ heard' = "nothing" /\ UNCHANGED onPending
Forget == pending' = None /\ heard' = "nothing" /\ onPending' = FALSE

\* The second half of resubscribe: the pending tokens are the active ones.
Adopt == active' = pending /\ applied' = pending /\ Forget /\ UNCHANGED wire

\* The escape hatch the wrong way round.
BugCommits(ready) == ready /\ ~Over(old)

\* _rollover_commit_decision and _should_adopt_switched_market_without_readiness
\* by the clock of the attempt: past the grace period, or ready, or nowhere to
\* go back to.
Commits(ready) == ready \/ Over(old)

\* _rollback_post_switch_abort: the stream is pointed back.
PointBack == /\ phase' = "back"
             /\ pending' = market /\ heard' = "nothing" /\ onPending' = FALSE
             /\ applied' = None /\ wire' = market

\* What is done about a market that is confirmed, committable or not.
Decide(ready) == IF Commits(ready) THEN phase' = "commit" /\ Adopt
                 ELSE active' = pending /\ PointBack

Confirmed ==
  /\ phase \in {"switch", "reswitch"} /\ heard = "enough"
  /\ \E ready \in BOOLEAN : (Settled => ready) /\ Decide(ready)
  /\ UNCHANGED <<market, books, cand, old, gate, age, goal>>

\* commit_rollover_swap under the runtime's lock, and RolloverManager.commit.
Commit ==
  /\ phase = "commit"
  /\ market' = cand /\ books' = cand /\ phase' = "idle" /\ cand' = None
  /\ UNCHANGED <<old, stream, gate, age, goal>>

\* The swap raises (it writes to the database half way): the runtime has the
\* new books by then.  The stream is pointed back, but not by an attempt that
\* adopts the new market without its being ready.
CommitFails ==
  /\ phase = "commit" /\ ~Settled
  /\ books' = cand
  /\ \/ /\ wire # Down
        /\ PointBack /\ UNCHANGED <<market, cand, old, active, gate>>
     \/ /\ wire = Down \/ Over(old)
        /\ Idle /\ CountAbort /\ UNCHANGED stream
  /\ UNCHANGED <<age, goal>>

\* The rollback ends like any other attempt, its status only logged.
Restored ==
  /\ phase \in {"back", "reback"} /\ heard = "enough"
  /\ Adopt /\ Idle /\ CountAbort /\ UNCHANGED <<books, age, goal>>

Late == ~Settled \/ wire # pending

\* No confirmation in time and not one message: once more, on a connection of
\* its own (_reconnect_pending_subscription).
Reconnects ==
  /\ phase \in {"switch", "back"} /\ heard = "nothing" /\ Late /\ wire # Down
  /\ phase' = IF phase = "switch" THEN "reswitch" ELSE "reback"
  /\ wire' = Down /\ onPending' = TRUE
  /\ UNCHANGED <<market, books, cand, old, active, applied, pending, heard, gate, age, goal>>

\* Given up: the tokens that were active are so again, and only a connection
\* that was made for the pending ones is closed.
GiveUp ==
  /\ phase \in Waiting /\ heard # "enough" /\ Late
  /\ phase \in {"switch", "back"} /\ heard = "nothing" => wire = Down
  /\ applied' = active /\ UNCHANGED active
  /\ wire' = IF phase \in {"reswitch", "reback"} THEN Down ELSE wire
  /\ Forget
  /\ Idle /\ CountAbort /\ UNCHANGED <<books, age, goal>>

-----------------------------------------------------------------------------
(* The connection, the gate and the world. *)

\* _connect_asset_ids.
ConnectTo == IF onPending /\ pending # None THEN pending ELSE active

\* MarketWSClient.run connects and subscribes.
Connect ==
  /\ wire = Down
  /\ wire' = ConnectTo
  /\ UNCHANGED <<loop, active, applied, pending, heard, onPending, gate, age, goal>>

\* The loop wakes at once when it has heard enough: no connection is lost then.
Drop == /\ wire # Down /\ ~Settled /\ heard # "enough"
        /\ wire' = Down
        /\ UNCHANGED <<loop, active, applied, pending, heard, onPending, gate, age, goal>>

\* is_frozen finds the cooldown over; the aborts behind it are out of the window.
Thaw == cooling /\ cooling' = FALSE /\ aborts' = 0 /\ UNCHANGED <<loop, stream, age, goal>>

\* _prune.
Prune == /\ aborts > 0 /\ ~cooling /\ aborts' = aborts - 1
         /\ UNCHANGED <<cooling, loop, stream, age, goal>>

Grow(m) == /\ age[m] # "past" /\ m # goal
           /\ age' = [age EXCEPT ![m] = IF @ = "open" THEN "ended" ELSE "past"]
           /\ UNCHANGED <<loop, stream, gate, goal>>

\* From here on discovery finds this market, it stays open, what is subscribed
\* is heard in time and the connection holds.
Settle(m) == /\ ~Settled /\ age[m] = "open"
             /\ goal' = m /\ UNCHANGED <<loop, stream, gate, age>>

Next == \/ Attempt \/ NothingToDo \/ Unfit
        \/ \E c \in Markets : Switch(c) \/ SwitchRefused(c) \/ Grow(c) \/ Settle(c)
        \/ Broken \/ Hear \/ Confirmed \/ Commit \/ CommitFails \/ Restored \/ Reconnects \/ GiveUp
        \/ Connect \/ Drop \/ Thaw \/ Prune

\* The loop and the stream run on; a message that is heard is in the end enough.
Fairness == /\ WF_vars(Attempt) /\ WF_vars(NothingToDo)
            /\ \A c \in Markets : WF_vars(Switch(c)) /\ WF_vars(SwitchRefused(c)) /\ WF_vars(Grow(c))
            /\ WF_vars(Hear /\ heard' = "enough")
            /\ WF_vars(Confirmed) /\ WF_vars(Commit) /\ WF_vars(Restored)
            /\ WF_vars(Reconnects) /\ WF_vars(GiveUp) /\ WF_vars(Connect) /\ WF_vars(Thaw)

Spec == Init /\ [][Next]_vars /\ Fairness

-----------------------------------------------------------------------------
TypeOK == /\ {market, books} \subseteq Markets /\ age \in [Markets -> Ages]
          /\ phase \in Phases /\ cand \in Markets \cup {None} /\ old \in Ages
          /\ active \in Markets /\ applied \in Markets \cup {None}
          /\ pending \in Markets \cup {None} /\ heard \in {"nothing", "some", "enough"}
          /\ onPending \in BOOLEAN /\ wire \in Markets \cup {Down}
          /\ aborts \in 0 .. Threshold /\ cooling \in BOOLEAN
          /\ goal \in Markets \cup {None}

\* Between two attempts the stream waits for nothing and takes the messages of
\* the market a new connection would subscribe: every way out of resubscribe,
\* confirmed, refused or given up, first or second connection, cleans up.
IdleListens ==
  phase \in {"idle", "discover", "commit"} =>
    pending = None /\ ~onPending /\ applied = active

\* The runtime is committed to a market only when the stream has confirmed it
\* and still takes its messages, however long the runtime's lock was waited for.
CommittedIsStreamed == [][market' # market => active = market' /\ applied = market']_vars

\* A stream that is in step with a runtime whose market has ended follows it to
\* the successor: whatever was refused or timed out before, the loop tries
\* again, the gate opens, and in the end the new market is the runtime's, the
\* stream's and the connection's.
InStep == Settled /\ phase # "dead" /\ active = market /\ market # goal
Followed == market = goal /\ books = goal /\ applied = goal /\ wire = goal
Follows == InStep ~> Followed

\* A test of the rollback: it brings the previous tokens back.
RollbackRestores == phase = "idle" => active = market
=============================================================================
