---------------------------- MODULE QuoteRuntime ----------------------------
(* The archived trading runtime in PAPER mode: RuntimeEngine of              *)
(* legacy/scripts/run_system.py with its ExecutionFSM, policy gate, simulated *)
(* broker and the swap of markets at a rollover.                              *)
(*                                                                            *)
(* run_quote_cycle takes the tokens one after the other.  One pass over one   *)
(* token is the action Turn: the hedge timer, the emergency unwind, the       *)
(* verdict, the freeze or thaw of the token, then the two sides of the quote. *)
(* What the feeds and the broker answer are inputs of the turn:               *)
(*   sky     the policy reasons of the token, by what they lead to            *)
(*           "clear"   none                                                   *)
(*           "poor"    only such as skip a quote: C_BOOK_STALE, C_DEPTH_THIN, *)
(*                     C_SLIPPAGE_HIGH, E_SIGNAL_AGE_HIGH ...                 *)
(*           "invalid" A_PSTAR_INVALID, B_..., which freeze                   *)
(*           "halted"  liveness, order rates, daily loss, which force it      *)
(*           "down"    C_BOOK_DOWN, which forces it and leaves the quotes     *)
(*   yes     the submissions the simulated broker would take, of the unwind   *)
(*           and the sides without a quote: it refuses one whose book is      *)
(*           stale, thin, out of bounds, or was touched by the feed after the *)
(*           turn began (LEAKAGE_GUARD)                                       *)
(*   moved   the sides whose price is a tick or more from the open quote      *)
(* Quantities are counted in quotes (maker_quote_size); times are ages.       *)
EXTENDS Integers, FiniteSets

CONSTANTS Tokens,        \* every token a rollover can bring
          StartTokens,   \* the tokens the simulated broker was built with
          Timeout,       \* rebalance_timeout_ms, in ticks
          TakerAfter,    \* emergency_taker_after_ms, in ticks
          TakerEnabled,  \* emergency_taker_enabled
          NetCap         \* per-market net cap, in quotes

ASSUME TokensAssumption == StartTokens \subseteq Tokens /\ StartTokens # {}
ASSUME TimesAssumption == Timeout \in Nat /\ TakerAfter \in Nat
ASSUME TakerAssumption == TakerEnabled \in BOOLEAN
ASSUME CapAssumption == NetCap \in Nat \ {0}

VARIABLES desk,      \* per token: FSM, inventory, open quotes, unwind state
          listed,    \* the keys of RuntimeEngine.books
          guarded,   \* tokens under the rollover guard
          calm,      \* the world has settled: nothing refuses, nothing moves
          beat       \* changes with every turn, so that one without effect is a step

vars == <<desk, listed, guarded, calm, beat>>

Sides == {"buy", "sell"}
Skies == {"clear", "poor", "invalid", "halted", "down"}
States == {"FROZEN", "QUOTING_BOTH", "ONE_SIDE_FILLED", "REBALANCING", "UNWINDING"}
Legs == {"ONE_SIDE_FILLED", "REBALANCING", "UNWINDING"}

None == -1
Ages(n) == 0 .. n \cup {None}
Abs(n) == IF n < 0 THEN -n ELSE n
Sign(s) == IF s = "buy" THEN 1 ELSE -1
BugOlder(age, top) == IF age = None THEN age ELSE age + 1
Older(age, top) == IF age = None \/ age >= top THEN age ELSE age + 1

Desks == [state : States, net : Int, since : Ages(Timeout + 1), inv : Int,
          open : SUBSET Sides, maker : BOOLEAN, started : Ages(TakerAfter),
          taker : Ages(TakerAfter)]

Fresh(inv) == [state |-> "QUOTING_BOTH", net |-> 0, since |-> None, inv |-> inv,
               open |-> {}, maker |-> FALSE, started |-> None, taker |-> None]

-----------------------------------------------------------------------------
(* The execution state machine. *)

\* on_fill and reset_if_flat.
OnFill(d, qty) ==
  LET f == [d EXCEPT !.net = @ + qty]
  IN IF f.net = 0 THEN [f EXCEPT !.state = "QUOTING_BOTH", !.since = None]
     ELSE IF d.state \in {"UNWINDING", "FROZEN"} THEN f
     ELSE [f EXCEPT !.state = "ONE_SIDE_FILLED",
                    !.since = IF d.since = None THEN 0 ELSE d.since]

\* The fill of a broker event: the inventory, then the state machine.
Fill(d, s, qty) == OnFill([d EXCEPT !.inv = @ + Sign(s) * qty], Sign(s) * qty)

\* Left to the freeze, which a guard keeps off.
BugRebalanceTick(d) ==
  IF d.state = "REBALANCING" /\ d.since > Timeout
  THEN [d EXCEPT !.state = "UNWINDING"] ELSE d

\* on_rebalance_tick.
RebalanceTick(d) ==
  IF d.state \in {"ONE_SIDE_FILLED", "REBALANCING"} /\ d.since > Timeout
  THEN [d EXCEPT !.state = "UNWINDING"] ELSE d

Freeze(d) == [d EXCEPT !.state = "FROZEN"]

\* By the inventory, which a swap of markets keeps, instead of the leg.
BugUnfreeze(d) == IF d.state = "FROZEN" /\ d.inv = 0
                  THEN [d EXCEPT !.state = "QUOTING_BOTH", !.since = None] ELSE d

Unfreeze(d) == IF d.state = "FROZEN" /\ d.net = 0
               THEN [d EXCEPT !.state = "QUOTING_BOTH", !.since = None] ELSE d

-----------------------------------------------------------------------------
(* The simulated broker and the two users of it. *)

\* SimBroker.submit fills at once and in full, but only for a token whose book
\* it was given when the runtime was built (NO_BOOK otherwise).
Takes(t) == IF t \in StartTokens THEN {"unwind", "buy", "sell"} ELSE {}

\* _emergency_unwind: a maker order first; later cancel it and cross.
EmergencyUnwind(d, yes) ==
  LET out == IF d.net > 0 THEN "sell" ELSE "buy"
      u == IF d.started = None THEN [d EXCEPT !.started = 0] ELSE d
      sold(x) == IF "unwind" \in yes THEN Fill(x, out, Abs(d.net)) ELSE x
      taken == [u EXCEPT !.maker = FALSE, !.taker = 0]
  IN IF ~u.maker THEN sold([u EXCEPT !.maker = "unwind" \in yes])
     ELSE IF ~TakerEnabled
          THEN IF u.started >= TakerAfter THEN Freeze(u) ELSE u
     ELSE IF u.started < TakerAfter \/ (u.taker # None /\ u.taker < TakerAfter) THEN u
     ELSE sold(taken)

Rebalanced(d, yes) ==
  LET r == RebalanceTick(d)
  IN IF r.state = "UNWINDING" THEN EmergencyUnwind(r, yes) ELSE r

\* _apply_side.  A replace always fails in the simulator and drops the quote;
\* a filled quote stays in open_quotes.
ApplySide(d, s, allow, yes, moved) ==
  IF ~allow THEN [d EXCEPT !.open = @ \ {s}]
  ELSE IF s \in d.open THEN [d EXCEPT !.open = IF s \in moved THEN @ \ {s} ELSE @]
  ELSE IF s \in yes THEN Fill([d EXCEPT !.open = @ \cup {s}], s, 1)
  ELSE d

-----------------------------------------------------------------------------
(* The verdict of a turn: evaluate_policy, the forced freeze and the guard. *)

Leg(d) == d.state \in Legs
TimedOut(d) == Leg(d) /\ d.since > Timeout

\* Only long positions.
BugBreach(d) == d.inv >= NetCap
Breach(d) == Abs(d.inv) >= NetCap

\* A book that is down, liveness, the order rates and the daily loss.
Forcing == {"down", "halted"}
Forced(d, sky) == sky \in Forcing \/ Breach(d)
Freezes(t, d, sky) == \/ Forced(d, sky)
                      \/ t \notin guarded /\ (sky = "invalid" \/ TimedOut(d))

\* The state of the leg is not asked.
BugClean(t, d, sky) == sky = "clear" /\ ~Breach(d) /\ t \notin guarded
Clean(t, d, sky) == sky = "clear" /\ ~Leg(d) /\ ~Breach(d) /\ t \notin guarded

Judged(t, d, sky) == IF Freezes(t, d, sky) THEN Freeze(d)
                     ELSE IF Clean(t, d, sky) THEN Unfreeze(d) ELSE d

Quoted(d, allow, yes, moved) ==
  ApplySide(ApplySide(d, "buy", allow, yes, moved), "sell", allow, yes, moved)

AfterTurn(t, d, sky, yes, moved) ==
  LET r == Rebalanced(d, yes)
      j == Judged(t, r, sky)
  IN IF sky = "down" \/ t \in guarded THEN j
     ELSE Quoted(j, Clean(t, r, sky), yes, moved)

-----------------------------------------------------------------------------
Init == /\ listed = StartTokens
        /\ desk = [t \in Tokens |-> Fresh(0)]
        /\ guarded = {}
        /\ calm = FALSE /\ beat = FALSE

\* What a turn may submit and the broker take.
Asks(t) == Takes(t) \ desk[t].open

\* One token's share of run_quote_cycle.
Turn(t) ==
  /\ t \in listed
  /\ \E sky \in IF calm THEN {"clear"} ELSE Skies :
       \E yes \in IF calm THEN {Asks(t)} ELSE SUBSET Asks(t), moved \in SUBSET desk[t].open :
         desk' = [desk EXCEPT ![t] = AfterTurn(t, @, sky, yes, moved)]
  /\ beat' = ~beat
  /\ UNCHANGED <<listed, guarded, calm>>

Tick ==
  /\ desk' = [t \in Tokens |->
               [desk[t] EXCEPT !.since = Older(@, Timeout + 1),
                               !.started = Older(@, TakerAfter),
                               !.taker = Older(@, TakerAfter)]]
  /\ UNCHANGED <<listed, guarded, calm, beat>>

\* prepare_rollover and commit_rollover_swap.  A token that stays keeps its
\* inventory and loses its state machine and quotes.  The guard comes later: a
\* turn that waited for the lock quotes the new tokens first.
Commit(new) ==
  /\ ~calm
  /\ listed' = new
  /\ desk' = [t \in Tokens |-> Fresh(IF t \in new \cap listed THEN desk[t].inv ELSE 0)]
  /\ UNCHANGED <<guarded, calm, beat>>

\* activate_rollover_guard, after a commit or while discovery finds no market,
\* which also cancels every quote the first time.
Guard ==
  /\ ~calm
  /\ guarded' = listed
  /\ \/ UNCHANGED desk
     \/ desk' = [t \in Tokens |-> [desk[t] EXCEPT !.open = {}]]
  /\ UNCHANGED <<listed, calm, beat>>

\* quote_guard_reasons finds the quiet window over and the market ready, or
\* readiness not asked for.
LiftGuard == guarded # {} /\ guarded' = {} /\ UNCHANGED <<desk, listed, calm, beat>>

\* From here on the feeds are fresh, no order is refused, no market ends.
Settle == ~calm /\ calm' = TRUE /\ UNCHANGED <<desk, listed, guarded, beat>>

Next == \/ \E t \in Tokens : Turn(t)
        \/ \E new \in (SUBSET Tokens) \ {{}} : Commit(new)
        \/ Guard \/ LiftGuard \/ Tick \/ Settle

\* Both loops of the runtime keep running; a quiet window ends.
Fairness == /\ WF_vars(Tick) /\ WF_vars(calm /\ LiftGuard)
            /\ \A t \in Tokens : WF_vars(Turn(t))

Spec == Init /\ [][Next]_vars /\ Fairness

-----------------------------------------------------------------------------
TypeOK == /\ desk \in [Tokens -> Desks]
          /\ listed \in (SUBSET Tokens) \ {{}}
          /\ guarded \in SUBSET Tokens
          /\ calm \in BOOLEAN /\ beat \in BOOLEAN

\* Unless it is frozen, a token is never more than one quote away from flat by
\* its state machine, and it is flat exactly when it quotes both sides: the
\* second side of a quote, the hedge and a swap of markets all keep to it.
OneLegAtMost ==
  \A t \in Tokens : desk[t].state # "FROZEN" =>
    /\ Abs(desk[t].net) <= 1
    /\ desk[t].state = "QUOTING_BOTH" <=> desk[t].net = 0

\* The inventory of a token never passes the net cap, in either direction: not
\* by a frozen token that still quotes, nor by a swap of markets that forgets
\* its leg, nor by an unwind on top of them.
InventoryBounded == \A t \in Tokens : Abs(desk[t].inv) <= NetCap

\* An open leg is never added to while the state machine knows of it: the turn
\* after a one-sided fill leaves at most as much.  Not so when crossing is
\* disabled: the unwind then freezes the token, and a frozen one is quoted.
LegNeverGrows ==
  [][TakerEnabled => \A t \in Tokens : Leg(desk[t]) => Abs(desk'[t].net) <= Abs(desk[t].net)]_vars

\* A one-sided fill is not left past its timeout: the timer finds it, whatever
\* the broker refuses and however long the token is guarded.
Overdue(d) == d.state = "ONE_SIDE_FILLED" /\ d.since > Timeout
LegResolves == \A t \in Tokens : t \in listed /\ Overdue(desk[t]) ~> ~Overdue(desk[t])

\* Once the world has settled, a frozen token that is flat and below its cap
\* leaves the freeze.
FlatThaws ==
  \A t \in Tokens :
    calm /\ t \in listed /\ desk[t].state = "FROZEN" /\ desk[t].net = 0 /\ ~Breach(desk[t])
      ~> desk[t].state # "FROZEN"

\* The plan: exposure on one side past the rebalance timeout is unwound.  Once
\* the world has settled every token gets back to no inventory.
LegsAreUnwound == \A t \in Tokens : calm ~> desk[t].inv = 0

\* The plan: the emergency unwind tries a maker order before it crosses.
TakerSent(t) == desk[t].maker /\ ~desk'[t].maker /\ desk'[t].taker = 0
MakerFirst == [][\A t \in Tokens : TakerSent(t) => desk[t].state = "UNWINDING"]_vars
=============================================================================
