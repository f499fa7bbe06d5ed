---------------------------- MODULE RuntimeHealth ----------------------------
(* The two loops of the archived runtime (legacy/scripts/run_system.py) and   *)
(* what they tell each other: the quote loop, which snapshots the books and   *)
(* quotes or withdraws; the stats loop, which freezes quoting when a feed     *)
(* starves or a clock drifts and raises the alarm on unknown messages; and    *)
(* the error handlers of both, which write to the same database as the work   *)
(* that failed: when the database fails them too, the task is over and        *)
(* nobody notices.                                                            *)
(*                                                                            *)
(* Time is counted in ticks.  Both loops are much faster than a tick, so a    *)
(* tick passes only after each live loop got through one whole round in it.   *)
(* The two sides of a token's quote are one here, and every other reason to   *)
(* skip a quote is left to QuoteRuntime, as are the rollover guard and swap.  *)
EXTENDS Integers, Sequences

CONSTANTS Order,    \* the tokens, in the order of RuntimeEngine.books
          Starve,   \* ws_starvation_max_ms, in ticks
          MaxAge,   \* the book age past which the policy skips
          Down,     \* book_down_after_ms
          Grace,    \* startup_liveness_grace_ms
          Sustain,  \* unknown_alert_sustain_windows
          Clear     \* unknown_alert_clear_windows

ASSUME AgesAssumption == /\ {Starve, MaxAge, Down, Grace} \subseteq Nat
                         /\ MaxAge + 1 <= Down
ASSUME WindowsAssumption == Sustain \in Nat \ {0} /\ Clear \in Nat \ {0}

VARIABLES age,     \* per token: ticks since its book last changed
          seen,    \* per token: ticks since the quote loop looked at it
          quotes,  \* the tokens with an open quote
          frozen,  \* _liveness_freeze_active
          quoter,  \* the quote loop: "up" or "dead"
          keeper,  \* the stats loop: "up" or "dead"
          rounds,  \* the loops that got through a round in this tick
          up,      \* ticks since run_epoch_ms
          breach, quiet, alarm,   \* streaks and state of the unknown alarm
          db, drift, noisy        \* the world: database, clock, messages

watch == <<frozen, breach, quiet, alarm>>
world == <<db, drift, noisy>>
vars == <<age, seen, quotes, watch, quoter, keeper, rounds, up, world>>

Tokens == {Order[i] : i \in DOMAIN Order}
First(n) == {Order[i] : i \in 1 .. n}
BugUpTo(n, top) == IF n > top THEN top ELSE n + 1
UpTo(n, top) == IF n >= top THEN top ELSE n + 1

\* A snapshot's time of reception is the time it is taken, whatever the age of
\* its book.
ReceivedNow == 0
Looked(s) == [t \in Tokens |-> IF t \in s THEN ReceivedNow ELSE seen[t]]

-----------------------------------------------------------------------------
\* startup_feed_guard has let the process through: every book was looked at
\* just now and has changed at least once, however long ago.
Init == /\ age \in [Tokens -> 0 .. Down + 1]
        /\ seen = [t \in Tokens |-> 0]
        /\ quotes = {}
        /\ frozen = FALSE
        /\ quoter = "up" /\ keeper = "up" /\ rounds = {}
        /\ up = 0
        /\ breach = 0 /\ quiet = 0 /\ alarm = FALSE
        /\ db = TRUE /\ drift = FALSE /\ noisy = FALSE

-----------------------------------------------------------------------------
(* The quote loop. *)

\* Down before the policy has skipped it.
BugIsDown(t) == age[t] > MaxAge

\* health_state, on the age of the last event.
IsDown(t) == age[t] > Down
Allowed(t) == age[t] <= MaxAge /\ ~frozen

\* The quotes after the turns of the tokens in s: a token that is down is left
\* alone, one not allowed withdraws, an allowed one quotes what is accepted.
AfterTurns(s, accepted) ==
  {t \in quotes : t \notin s \/ IsDown(t) \/ Allowed(t)}
    \cup {t \in accepted \cap s : Allowed(t) /\ ~IsDown(t)}

\* run_quote_cycle, from the first token to the last.
QuotePass ==
  /\ quoter = "up" /\ db
  /\ \E accepted \in SUBSET Tokens : quotes' = AfterTurns(Tokens, accepted)
  /\ seen' = Looked(Tokens)
  /\ rounds' = rounds \cup {"quoter"}
  /\ UNCHANGED <<age, watch, quoter, keeper, up, world>>

\* A turn raises after its snapshot: the tokens after it get no turn, and the
\* handler of the loop logs it.
QuoteError ==
  /\ quoter = "up" /\ db
  /\ \E n \in DOMAIN Order :
       /\ seen' = Looked(First(n))
       /\ \E accepted \in SUBSET Tokens : quotes' = AfterTurns(First(n - 1), accepted)
  /\ UNCHANGED <<age, watch, quoter, keeper, rounds, up, world>>

\* The database fails the first turn, then the handler.
QuoterDies ==
  /\ quoter = "up" /\ ~db
  /\ quoter' = "dead"
  /\ seen' = Looked(First(1))
  /\ UNCHANGED <<age, quotes, watch, keeper, rounds, up, world>>

-----------------------------------------------------------------------------
(* The stats loop. *)

\* One tick more than the ages are counted to.
BugStarved(t) == seen[t] > Starve + 1

\* Starvation is measured on the snapshots' times of reception.
Starved(t) == seen[t] > Starve
FreezeCandidate == drift \/ \E t \in Tokens : Starved(t)

Frozen == FreezeCandidate /\ up >= Grace

\* The alarm is not taken back.
BugStreaks ==
  /\ breach' = IF noisy THEN UpTo(breach, Sustain) ELSE 0
  /\ quiet' = IF noisy THEN 0 ELSE UpTo(quiet, Clear)
  /\ alarm' \in IF breach' = Sustain THEN {TRUE, alarm} ELSE {alarm}

\* _stats_loop after run_stats_cycle: streaks of windows above the rate; within
\* its cooldown the alarm is not raised again.
Streaks ==
  /\ breach' = IF noisy THEN UpTo(breach, Sustain) ELSE 0
  /\ quiet' = IF noisy THEN 0 ELSE UpTo(quiet, Clear)
  /\ alarm' \in IF breach' = Sustain THEN {TRUE, alarm}
                ELSE {alarm /\ quiet' # Clear}

StatsCycle ==
  /\ keeper = "up" /\ db
  /\ frozen' = Frozen
  /\ Streaks
  /\ rounds' = rounds \cup {"keeper"}
  /\ UNCHANGED <<age, seen, quotes, quoter, keeper, up, world>>

\* A reconciliation, say, raises: the freeze is set by then, the alarm not.
StatsError ==
  /\ keeper = "up" /\ db
  /\ frozen' = Frozen
  /\ UNCHANGED <<age, seen, quotes, breach, quiet, alarm, quoter, keeper, rounds, up, world>>

\* The database fails before the freeze is decided or after, then the handler.
KeeperDies ==
  /\ keeper = "up" /\ ~db
  /\ keeper' = "dead"
  /\ frozen' \in {frozen, Frozen}
  /\ UNCHANGED <<age, seen, quotes, breach, quiet, alarm, quoter, rounds, up, world>>

-----------------------------------------------------------------------------
\* A message of the market feed changes a book.
Message(t) == /\ age' = [age EXCEPT ![t] = 0]
              /\ UNCHANGED <<seen, quotes, watch, quoter, keeper, rounds, up, world>>

Tick ==
  /\ quoter = "up" => "quoter" \in rounds
  /\ keeper = "up" => "keeper" \in rounds
  /\ age' = [t \in Tokens |-> UpTo(age[t], Down + 1)]
  /\ seen' = [t \in Tokens |-> UpTo(seen[t], Starve + 1)]
  /\ up' = UpTo(up, Grace)
  /\ rounds' = {}
  /\ UNCHANGED <<quotes, watch, quoter, keeper, world>>

World == /\ \/ db' = ~db /\ UNCHANGED <<drift, noisy>>
            \/ drift' = ~drift /\ UNCHANGED <<db, noisy>>
            \/ noisy' = ~noisy /\ UNCHANGED <<db, drift>>
         /\ UNCHANGED <<age, seen, quotes, watch, quoter, keeper, rounds, up>>

Next == \/ QuotePass \/ QuoteError \/ QuoterDies
        \/ StatsCycle \/ StatsError \/ KeeperDies
        \/ \E t \in Tokens : Message(t)
        \/ Tick \/ World

\* A loop that lives gets through a round from time to time, and time passes.
Fairness == WF_vars(QuotePass) /\ WF_vars(StatsCycle) /\ WF_vars(Tick)

Spec == Init /\ [][Next]_vars /\ Fairness

-----------------------------------------------------------------------------
TypeOK == /\ age \in [Tokens -> 0 .. Down + 1]
          /\ seen \in [Tokens -> 0 .. Starve + 1]
          /\ quotes \subseteq Tokens
          /\ quoter \in {"up", "dead"} /\ keeper \in {"up", "dead"}
          /\ rounds \subseteq {"quoter", "keeper"}
          /\ up \in 0 .. Grace /\ breach \in 0 .. Sustain /\ quiet \in 0 .. Clear
          /\ {frozen, alarm, db, drift, noisy} \subseteq BOOLEAN

\* While the quote loop lives, a quote does not outlive its book by more than
\* a tick: the policy withdraws it before the book counts as down, from when on
\* its turns no longer touch it.
SilentUnquoted ==
  quoter = "up" => \A t \in quotes : age[t] <= MaxAge + 1

\* When the quote loop has died the watch sees its snapshots grow old, and
\* freezes, though nobody is left to withdraw a quote.
DeadLoopFreezes ==
  (<>[](quoter = "dead" /\ keeper = "up" /\ db)) => <>[]frozen

\* An alarm on unknown messages is not left standing over a quiet feed.
AlarmClears == (<>[](keeper = "up" /\ db /\ ~noisy)) => <>[]~alarm

\* The release notes: a starved feed freezes.
StarvationFreezes ==
  \A t \in Tokens :
    (<>[](age[t] > Starve /\ quoter = "up" /\ keeper = "up" /\ db)) => <>[]frozen
=============================================================================
