----------------------------- MODULE TokenGates -----------------------------
(***************************************************************************)
(* What lets a market quote: the gates TradingMainLoop._evaluate_token     *)
(* (core_mm/main_loop.py) puts before its quotes, with the flow filter     *)
(* (flow_filter.py) of each token and the risk manager (risk_manager.py)   *)
(* of the market.                                                          *)
(*                                                                         *)
(* A cycle evaluates the market's tokens in turn.  A token whose book      *)
(* cannot be used makes no quotes and touches nothing.  Otherwise its flow *)
(* filter is updated, a reversal of the flow keeps it quiet for some       *)
(* cycles, and only then the risk manager looks at its position: a loss    *)
(* puts the whole market to sleep.  A cycle never suspends, so fills and   *)
(* the clock come between cycles.                                          *)
(*                                                                         *)
(* Data.  Flow imbalances are whole units of the +-10000 bps scale; the    *)
(* part of the old average that remains is rounded down, so that a steady  *)
(* flow is reached.  A position is a number of lots, of which one cycle    *)
(* may trade one either way; the size of a quote is QuotingCycle's.        *)
(* three_hour_volatility is left out: no caller passes one.                *)
(***************************************************************************)
EXTENDS Integers, Sequences

CONSTANTS
  Tokens,       \* the market's tokens, in the order they are evaluated
  Full,         \* 10000 bps: one side of the book only
  Band,         \* imbalance that the volume ratio of 0.7 stands for
  Span,         \* ewma_span
  Swing,        \* threshold_bps of check_reversal
  Regime,       \* min_magnitude_bps of check_reversal
  QuietCycles,  \* cooldown_cycles of check_reversal
  SleepTime,    \* sleep_hours
  HardCap       \* hard_position_cap

ASSUME TokensAssumption ==
  /\ Tokens = [i \in 1..Len(Tokens) |-> Tokens[i]]
  /\ Len(Tokens) \in Nat \ {0}
  /\ \A i, j \in 1..Len(Tokens) : Tokens[i] = Tokens[j] => i = j
ASSUME FlowAssumption ==
  /\ Full \in Nat \ {0}
  /\ Band \in Nat
  /\ Span \in Nat \ {0}
  /\ Swing \in Nat
  /\ Regime \in Nat
  /\ QuietCycles \in Nat
ASSUME RiskAssumption == SleepTime \in Nat /\ HardCap \in Nat

Places == 1..Len(Tokens)
Token == {Tokens[i] : i \in Places}
Sides == {"buy", "sell"}

\* What a cycle reads of a position's value: past the stop loss with a spread
\* to sell at, past the take-profit price, or neither.
Values == {"losing", "fair", "winning"}

None == Full + 1    \* no average yet

VARIABLES
  turn,       \* place of the token being evaluated; 0 between cycles
  ewma,       \* each token's smoothed imbalance
  cooldown,   \* each token's cycles left to keep quiet
  asleep,     \* time the market has left to sleep
  position,   \* each token's holdings
  allowed,    \* the sides each token may have an order on, by its last evaluation
  \* History, read by properties only:
  since,      \* each token's flow updates since its last reversal, to QuietCycles
  sinceLoss,  \* time since the last stop loss, to SleepTime
  struckAt,   \* the place at which this cycle put an awake market to sleep, or 0
  calm        \* whether each token's last reading was balanced and fair

vars == <<turn, ewma, cooldown, asleep, position, allowed, since, sinceLoss, struckAt, calm>>

TypeOK ==
  /\ turn \in 0..Len(Tokens)
  /\ ewma \in [Token -> (-Full)..None]
  /\ cooldown \in [Token -> 0..QuietCycles]
  /\ asleep \in 0..SleepTime
  /\ position \in [Token -> Nat]
  /\ allowed \in [Token -> SUBSET Sides]
  /\ since \in [Token -> 0..QuietCycles]
  /\ sinceLoss \in 0..SleepTime
  /\ struckAt \in 0..Len(Tokens)
  /\ calm \in [Token -> BOOLEAN]

Init ==
  /\ turn = 0
  /\ ewma = [t \in Token |-> None]
  /\ cooldown = [t \in Token |-> 0]
  /\ asleep = 0
  /\ position = [t \in Token |-> 0]
  /\ allowed = [t \in Token |-> {}]
  /\ since = [t \in Token |-> QuietCycles]
  /\ sinceLoss = SleepTime
  /\ struckAt = 0
  /\ calm = [t \in Token |-> FALSE]

-----------------------------------------------------------------------------
(* The flow filter.                                                        *)

Magnitude(n) == IF n < 0 THEN -n ELSE n
Smaller(m, n) == IF m < n THEN m ELSE n

\* What remains of a distance once 2 / (Span + 1) of it is gone.
Remaining(distance) == ((Span - 1) * distance) \div (Span + 1)

\* Variant: the new imbalance is added whole.
BugSmoothed(old, raw) == IF old = None THEN raw ELSE raw + Remaining(old)

\* The average after an imbalance of raw; the first one is taken as it is.
Smoothed(old, raw) ==
  CASE old = None -> raw
    [] old # None /\ old >= raw -> raw + Remaining(old - raw)
    [] old # None /\ old < raw -> raw - Remaining(raw - old)

\* Whether the average has moved far, and to an extreme.
Reversed(t, new) ==
  /\ ewma[t] # None
  /\ Magnitude(new - ewma[t]) >= Swing
  /\ Magnitude(new) >= Regime

\* Variant: a reversal during the cooldown is not noticed.
BugCooling(t, new) ==
  IF cooldown[t] > 0 THEN cooldown[t] - 1 ELSE IF Reversed(t, new) THEN QuietCycles ELSE 0

\* Variant: the cooldown is not counted down.
BugCoolingKept(t, new) == IF Reversed(t, new) THEN QuietCycles ELSE cooldown[t]

\* The cycles left to keep quiet once the average is new.
Cooling(t, new) ==
  IF Reversed(t, new) THEN QuietCycles
  ELSE IF cooldown[t] > 0 THEN cooldown[t] - 1 ELSE 0

\* The sides the flow lets through; without depth near the mid, none.
FlowAllows(new, depth) ==
  {s \in Sides : /\ depth
                 /\ s = "buy" => new >= -Band
                 /\ s = "sell" => new <= Band}

-----------------------------------------------------------------------------
(* The risk manager.                                                       *)

StopLoss(t, value) == position[t] > 0 /\ value = "losing"

\* Variant: a loss does not put the market to sleep again.
BugAsleepAfter(t, value) ==
  IF StopLoss(t, value) /\ asleep = 0 THEN SleepTime ELSE asleep

\* A loss puts the market to sleep, from now.
AsleepAfter(t, value) == IF StopLoss(t, value) THEN SleepTime ELSE asleep

\* Selling is always allowed; buying not while asleep, at the cap, or when the
\* position makes its loss or its profit.
RiskAllows(t, value) ==
  {s \in Sides :
     s = "buy" => /\ asleep = 0
                  /\ position[t] < HardCap
                  /\ ~(position[t] > 0 /\ value # "fair")}

\* Only what is held can be sold.
Sellable(t) == IF position[t] > 0 THEN Sides ELSE {"buy"}

-----------------------------------------------------------------------------
(* One token's turn.                                                       *)

Pass == turn' = IF turn = Len(Tokens) THEN 0 ELSE turn + 1

\* The book is absent, empty, too thin or stale.
Blind ==
  /\ turn > 0
  /\ allowed' = [allowed EXCEPT ![Tokens[turn]] = {}]
  /\ calm' = [calm EXCEPT ![Tokens[turn]] = FALSE]
  /\ Pass
  /\ UNCHANGED <<ewma, cooldown, asleep, position, since, sinceLoss, struckAt>>

\* What every look at a usable book does.
Look(t, raw) ==
  LET new == Smoothed(ewma[t], raw)
  IN  /\ ewma' = [ewma EXCEPT ![t] = new]
      /\ cooldown' = [cooldown EXCEPT ![t] = Cooling(t, new)]
      /\ since' = [since EXCEPT ![t] =
                     IF Reversed(t, new) THEN 0 ELSE Smaller(@ + 1, QuietCycles)]

\* The flow has just reversed, or did lately: no quotes, no look at the risk.
KeepQuiet(raw) ==
  LET t == Tokens[turn]
  IN  /\ turn > 0
      /\ Cooling(t, Smoothed(ewma[t], raw)) > 0
      /\ Look(t, raw)
      /\ allowed' = [allowed EXCEPT ![t] = {}]
      /\ calm' = [calm EXCEPT ![t] = raw = 0]
      /\ Pass
      /\ UNCHANGED <<asleep, position, sinceLoss, struckAt>>

Quote(raw, depth, value) ==
  LET t == Tokens[turn]
      new == Smoothed(ewma[t], raw)
  IN  /\ turn > 0
      /\ depth \/ raw = 0
      /\ Cooling(t, new) = 0
      /\ Look(t, raw)
      /\ asleep' = AsleepAfter(t, value)
      /\ allowed' = [allowed EXCEPT ![t] =
                       FlowAllows(new, depth) \cap RiskAllows(t, value) \cap Sellable(t)]
      /\ sinceLoss' = IF StopLoss(t, value) THEN 0 ELSE sinceLoss
      /\ struckAt' = IF StopLoss(t, value) /\ sinceLoss = SleepTime THEN turn ELSE struckAt
      /\ calm' = [calm EXCEPT ![t] = raw = 0 /\ depth /\ value = "fair"]
      /\ Pass
      /\ UNCHANGED position

Evaluate ==
  \/ Blind
  \/ \E raw \in (-Full)..Full : KeepQuiet(raw)
  \/ \E raw \in (-Full)..Full, depth \in BOOLEAN, value \in Values : Quote(raw, depth, value)

-----------------------------------------------------------------------------
(* Between cycles.                                                         *)

StartCycle ==
  /\ turn = 0
  /\ turn' = 1
  /\ struckAt' = 0
  /\ UNCHANGED <<ewma, cooldown, asleep, position, allowed, since, sinceLoss, calm>>

\* An order of the last cycle is filled.
Buy(t) ==
  /\ turn = 0
  /\ "buy" \in allowed[t]
  /\ position' = [position EXCEPT ![t] = @ + 1]
  /\ allowed' = [allowed EXCEPT ![t] = @ \ {"buy"}]
  /\ UNCHANGED <<turn, ewma, cooldown, asleep, since, sinceLoss, struckAt, calm>>

Sell(t) ==
  /\ turn = 0
  /\ "sell" \in allowed[t]
  /\ position' = [position EXCEPT ![t] = @ - 1]
  /\ allowed' = [allowed EXCEPT ![t] = @ \ {"sell"}]
  /\ UNCHANGED <<turn, ewma, cooldown, asleep, since, sinceLoss, struckAt, calm>>

\* Time passes; a sleep that is over is forgotten.
Tick ==
  /\ turn = 0
  /\ asleep > 0 \/ sinceLoss < SleepTime
  /\ asleep' = IF asleep > 0 THEN asleep - 1 ELSE 0
  /\ sinceLoss' = Smaller(sinceLoss + 1, SleepTime)
  /\ UNCHANGED <<turn, ewma, cooldown, position, allowed, since, struckAt, calm>>

Next ==
  \/ StartCycle
  \/ Evaluate
  \/ \E t \in Token : Buy(t) \/ Sell(t)
  \/ Tick

Spec == Init /\ [][Next]_vars

\* The runner's loop keeps coming round.  The clock runs on whatever the loop
\* does; cycles, during which it is not looked at, do not hold it up.
FairSpec == Spec /\ WF_vars(StartCycle) /\ WF_vars(Evaluate) /\ SF_vars(Tick)

-----------------------------------------------------------------------------
(* Properties.                                                             *)

\* A token whose flow has reversed has no order for the cooldown's cycles, the
\* one that saw the reversal included, however often it reverses again and
\* however many cycles pass meanwhile without a usable book.
QuietAfterReversal == \A t \in Token : allowed[t] # {} => since[t] = QuietCycles

\* Once a loss has put the market to sleep, no holding of it grows until
\* sleep_hours have passed since the last loss, whichever token made it;
\* except that in the very cycle that struck, a token evaluated before the
\* losing one keeps the buy it was given.
AsleepBuysNothing ==
  [][\A i \in Places :
       position'[Tokens[i]] > position[Tokens[i]] => sinceLoss = SleepTime \/ i < struckAt]_vars

\* Nothing blocks for ever: once every look finds a balanced, fair book, each
\* token gets to buy again and again unless it is at the cap, and to sell
\* unless there is nothing to sell, whatever reversals, losses and
\* imbalances came before.
QuotingResumes ==
  <>[](\A t \in Token : calm[t]) =>
    \A t \in Token : /\ []<>("buy" \in allowed[t] \/ position[t] >= HardCap)
                     /\ []<>("sell" \in allowed[t] \/ position[t] = 0)
=============================================================================
