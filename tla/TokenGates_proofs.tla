-------------------------- MODULE TokenGates_proofs --------------------------
(***************************************************************************)
(* Proofs about TokenGates, for every market and every setting of the      *)
(* filters.                                                                *)
(*                                                                         *)
(* Types: the average stays on its scale because it moves towards a flow   *)
(* that is.  Quiet: the cooldown left and the updates made since the last  *)
(* reversal always add up to the whole cooldown.  Asleep: so do the sleep  *)
(* left and the time since the last loss, and a token that may buy while   *)
(* the market sleeps had its turn before the loss.  Last, under settings   *)
(* such as the program's defaults, no flow ever makes a token keep quiet.  *)
(***************************************************************************)
EXTENDS TokenGates, TLAPS

-----------------------------------------------------------------------------
(* The smoothed imbalance.                                                 *)

\* What remains of a distance is part of it.
LEMMA RemainingBounds ==
  ASSUME NEW d \in Nat
  PROVE  Remaining(d) \in 0..d
<1> DEFINE m == Span - 1
           n == Span + 1
           q == (m * d) \div n
<1> USE FlowAssumption
<1>1. m \in Nat /\ n \in Nat \ {0} /\ m < n
  OBVIOUS
<1>2. m * d \in Nat /\ m * d <= n * d
  <2>1. m * d \in Nat
    BY <1>1
  <2>2. n * d = m * d + 2 * d
    OBVIOUS
  <2> QED
    BY <2>1, <2>2
<1>3. q \in Nat /\ n * q <= m * d
  <2> HIDE DEF m, n
  <2> QED
    BY <1>1, <1>2, Z3
<1>4. q <= d
  <2>1. SUFFICES ASSUME q >= d + 1 PROVE FALSE
    BY <1>3
  <2>2. n * q >= n * (d + 1)
    <3> HIDE DEF m, n, q
    <3> QED
      BY <1>1, <1>3, <2>1
  <2>3. n * (d + 1) = n * d + n
    OBVIOUS
  <2> QED
    BY <1>1, <1>2, <1>3, <2>2, <2>3
<1> QED
  BY <1>3, <1>4 DEF Remaining

\* What goes of a distance of at most the whole scale is less than Swing, if
\* Swing is large for the span.
LEMMA MoveBound ==
  ASSUME NEW d \in 0..(2 * Full),
         4 * Full <= (Swing - 1) * (Span + 1)
  PROVE  d - Remaining(d) < Swing
<1> DEFINE m == Span - 1
           n == Span + 1
           q == (m * d) \div n
<1> USE FlowAssumption
<1>1. m \in Nat /\ n \in Nat \ {0} /\ d \in Nat
  OBVIOUS
<1>2. m * d \in Nat
  BY <1>1
<1>3. q \in Int /\ m * d < n * (q + 1)
  <2> HIDE DEF m, n
  <2> QED
    BY <1>1, <1>2, Z3
<1>4. SUFFICES ASSUME q <= d - Swing PROVE FALSE
  BY <1>1, <1>3 DEF Remaining
<1>5. n * (q + 1) <= n * (d - Swing + 1)
  <2> HIDE DEF m, n, q
  <2> QED
    BY <1>1, <1>3, <1>4
<1>6. n * (d - Swing + 1) = n * d - (Swing - 1) * n
  OBVIOUS
<1>7. m * d = n * d - 2 * d
  OBVIOUS
<1>8. 2 * d <= 4 * Full
  OBVIOUS
<1> QED
  BY <1>1, <1>2, <1>3, <1>5, <1>6, <1>7, <1>8

\* An average moves towards the flow, and not past it.
LEMMA SmoothedMoves ==
  ASSUME NEW old \in (-Full)..Full, NEW raw \in (-Full)..Full
  PROVE  /\ Smoothed(old, raw) \in (-Full)..Full
         /\ \E d \in 0..(2 * Full) : Magnitude(Smoothed(old, raw) - old) = d - Remaining(d)
<1> USE FlowAssumption
<1>1. CASE old >= raw
  <2> DEFINE d == old - raw
             r == Remaining(d)
  <2>1. d \in 0..(2 * Full)
    BY <1>1
  <2>2. r \in 0..d
    BY <2>1, RemainingBounds
  <2>3. Smoothed(old, raw) = raw + r
    BY <1>1 DEF Smoothed, None
  <2>4. raw + r \in (-Full)..Full
    <3> HIDE DEF r
    <3> QED
      BY <1>1, <2>2
  <2>5. Magnitude(raw + r - old) = d - r
    <3> HIDE DEF r
    <3> QED
      BY <1>1, <2>2 DEF Magnitude
  <2>6. Smoothed(old, raw) \in (-Full)..Full
    BY <2>3, <2>4
  <2>7. Magnitude(Smoothed(old, raw) - old) = d - r
    <3> HIDE DEF d, r
    <3> QED
      BY <2>1, <2>2, <2>3, <2>5
  <2> QED
    <3> HIDE DEF d
    <3> QED
      BY <2>1, <2>6, <2>7
<1>2. CASE old < raw
  <2> DEFINE d == raw - old
             r == Remaining(d)
  <2>1. d \in 0..(2 * Full)
    BY <1>2
  <2>2. r \in 0..d
    BY <2>1, RemainingBounds
  <2>3. Smoothed(old, raw) = raw - r
    <3>1. old # None /\ ~(old >= raw)
      BY <1>2 DEF None
    <3> QED
      BY <1>2, <3>1 DEF Smoothed
  <2>4. raw - r \in (-Full)..Full
    <3> HIDE DEF r
    <3> QED
      BY <1>2, <2>2
  <2>5. Magnitude(raw - r - old) = d - r
    <3> HIDE DEF r
    <3> QED
      BY <1>2, <2>2 DEF Magnitude
  <2>6. Smoothed(old, raw) \in (-Full)..Full
    BY <2>3, <2>4
  <2>7. Magnitude(Smoothed(old, raw) - old) = d - r
    <3> HIDE DEF d, r
    <3> QED
      BY <2>1, <2>2, <2>3, <2>5
  <2> QED
    <3> HIDE DEF d
    <3> QED
      BY <2>1, <2>6, <2>7
<1> QED
  BY <1>1, <1>2

\* The first average is the flow itself.
LEMMA SmoothedBounds ==
  ASSUME NEW old \in (-Full)..None, NEW raw \in (-Full)..Full
  PROVE  Smoothed(old, raw) \in (-Full)..Full
<1>1. CASE old = None
  <2>1. ~(old < raw)
    BY <1>1, FlowAssumption DEF None
  <2> QED
    BY <1>1, <2>1 DEF Smoothed
<1>2. CASE old # None
  <2>1. old \in (-Full)..Full
    BY <1>2, FlowAssumption DEF None
  <2> QED
    BY <2>1, SmoothedMoves
<1> QED
  BY <1>1, <1>2

\* With a Swing that is large for the span, no flow reverses the average.
LEMMA NoReversal ==
  ASSUME TypeOK,
         4 * Full <= (Swing - 1) * (Span + 1),
         NEW t \in Token, NEW raw \in (-Full)..Full
  PROVE  ~Reversed(t, Smoothed(ewma[t], raw))
<1>1. SUFFICES ASSUME ewma[t] # None
               PROVE  ~(Magnitude(Smoothed(ewma[t], raw) - ewma[t]) >= Swing)
  BY DEF Reversed
<1>2. ewma[t] \in (-Full)..Full
  BY <1>1, FlowAssumption DEF TypeOK, None
<1>3. PICK d \in 0..(2 * Full) : Magnitude(Smoothed(ewma[t], raw) - ewma[t]) = d - Remaining(d)
  BY <1>2, SmoothedMoves
<1>4. d - Remaining(d) < Swing
  BY MoveBound
<1>5. d - Remaining(d) \in Int
  BY RemainingBounds, FlowAssumption
<1> QED
  BY <1>3, <1>4, <1>5, FlowAssumption

-----------------------------------------------------------------------------
(* Types.                                                                  *)

\* A sell is allowed only of what is held, so that it leaves no less than nothing.
SellsHeld == \A t \in Token : "sell" \in allowed[t] => position[t] > 0

LEMMA PlaceHoldsToken ==
  ASSUME TypeOK, turn > 0
  PROVE  turn \in Places /\ Tokens[turn] \in Token
BY TokensAssumption DEF TypeOK, Places, Token

LEMMA PassTyped ==
  ASSUME TypeOK, Pass
  PROVE  turn' \in 0..Len(Tokens)
BY TokensAssumption DEF TypeOK, Pass

LEMMA LookTyped ==
  ASSUME TypeOK, NEW t \in Token, NEW raw \in (-Full)..Full, Look(t, raw)
  PROVE  /\ ewma' \in [Token -> (-Full)..None]
         /\ cooldown' \in [Token -> 0..QuietCycles]
         /\ since' \in [Token -> 0..QuietCycles]
<1> DEFINE new == Smoothed(ewma[t], raw)
<1>1. new \in (-Full)..None
  <2>1. ewma[t] \in (-Full)..None
    BY DEF TypeOK
  <2>2. new \in (-Full)..Full
    BY <2>1, SmoothedBounds
  <2> QED
    BY <2>2, FlowAssumption DEF None
<1>2. Cooling(t, new) \in 0..QuietCycles
  BY FlowAssumption DEF TypeOK, Cooling
<1>3. (IF Reversed(t, new) THEN 0 ELSE Smaller(since[t] + 1, QuietCycles)) \in 0..QuietCycles
  BY FlowAssumption DEF TypeOK, Smaller
<1> HIDE DEF new
<1> QED
  BY <1>1, <1>2, <1>3 DEF TypeOK, Look, new

LEMMA TypeInit == Init => TypeOK /\ SellsHeld
<1> SUFFICES ASSUME Init PROVE TypeOK /\ SellsHeld
  OBVIOUS
<1>1. Len(Tokens) \in Nat
  BY TokensAssumption
<1>2. None \in (-Full)..None
  BY FlowAssumption DEF None
<1> QED
  BY <1>1, <1>2, FlowAssumption, RiskAssumption DEF Init, TypeOK, SellsHeld

LEMMA TypeStep == TypeOK /\ SellsHeld /\ [Next]_vars => TypeOK' /\ SellsHeld'
<1> SUFFICES ASSUME TypeOK, SellsHeld, [Next]_vars PROVE TypeOK' /\ SellsHeld'
  OBVIOUS
<1>1. CASE StartCycle
  BY <1>1, TokensAssumption DEF TypeOK, SellsHeld, StartCycle
<1>2. CASE Blind
  <2>1. turn' \in 0..Len(Tokens)
    BY <1>2, PassTyped DEF Blind
  <2> QED
    BY <1>2, <2>1 DEF TypeOK, SellsHeld, Blind
<1>3. ASSUME NEW raw \in (-Full)..Full, KeepQuiet(raw) PROVE TypeOK' /\ SellsHeld'
  <2> DEFINE t == Tokens[turn]
  <2>1. t \in Token
    BY <1>3, PlaceHoldsToken DEF KeepQuiet
  <2>2. turn' \in 0..Len(Tokens)
    BY <1>3, PassTyped DEF KeepQuiet
  <2>3. /\ ewma' \in [Token -> (-Full)..None]
        /\ cooldown' \in [Token -> 0..QuietCycles]
        /\ since' \in [Token -> 0..QuietCycles]
    BY <1>3, <2>1, LookTyped DEF KeepQuiet
  <2> QED
    BY <1>3, <2>2, <2>3 DEF TypeOK, SellsHeld, KeepQuiet
<1>4. ASSUME NEW raw \in (-Full)..Full, NEW depth \in BOOLEAN, NEW value \in Values,
             Quote(raw, depth, value)
      PROVE TypeOK' /\ SellsHeld'
  <2> DEFINE t == Tokens[turn]
             new == Smoothed(ewma[t], raw)
  <2>1. t \in Token
    BY <1>4, PlaceHoldsToken DEF Quote
  <2>2. turn' \in 0..Len(Tokens)
    BY <1>4, PassTyped DEF Quote
  <2>3. /\ ewma' \in [Token -> (-Full)..None]
        /\ cooldown' \in [Token -> 0..QuietCycles]
        /\ since' \in [Token -> 0..QuietCycles]
    BY <1>4, <2>1, LookTyped DEF Quote
  <2>4. asleep' \in 0..SleepTime /\ sinceLoss' \in 0..SleepTime /\ struckAt' \in 0..Len(Tokens)
    BY <1>4, RiskAssumption DEF TypeOK, Quote, AsleepAfter
  <2>5. allowed' \in [Token -> SUBSET Sides]
    <3>1. FlowAllows(new, depth) \cap RiskAllows(t, value) \cap Sellable(t) \subseteq Sides
      BY DEF FlowAllows
    <3> QED
      BY <1>4, <3>1 DEF TypeOK, Quote
  <2>6. calm' \in [Token -> BOOLEAN] /\ position' = position
    BY <1>4 DEF TypeOK, Quote
  <2>7. SellsHeld'
    <3>1. "sell" \in allowed'[t] => position[t] > 0
      BY <1>4, <2>1 DEF TypeOK, Quote, Sellable
    <3> QED
      BY <1>4, <2>1, <2>6, <3>1 DEF TypeOK, SellsHeld, Quote
  <2> QED
    BY <2>2, <2>3, <2>4, <2>5, <2>6, <2>7 DEF TypeOK
<1>5. ASSUME NEW t \in Token, Buy(t) PROVE TypeOK' /\ SellsHeld'
  BY <1>5 DEF TypeOK, SellsHeld, Buy
<1>6. ASSUME NEW t \in Token, Sell(t) PROVE TypeOK' /\ SellsHeld'
  BY <1>6 DEF TypeOK, SellsHeld, Sell
<1>7. CASE Tick
  BY <1>7, RiskAssumption DEF TypeOK, SellsHeld, Tick, Smaller
<1>8. CASE UNCHANGED vars
  BY <1>8 DEF TypeOK, SellsHeld, vars
<1> QED
  BY <1>1, <1>2, <1>3, <1>4, <1>5, <1>6, <1>7, <1>8 DEF Next, Evaluate

\* Averages stay on their scale, every countdown within its length, and no
\* holding gets below nothing.
THEOREM TypeCorrect == Spec => []TypeOK
<1>1. Spec => [](TypeOK /\ SellsHeld)
  BY TypeInit, TypeStep, PTL DEF Spec
<1> QED
  BY <1>1, PTL

-----------------------------------------------------------------------------
(* Reversals.                                                              *)

\* The cooldown left and the updates since the last reversal cover the whole
\* cooldown, and a token with a cooldown left has no order.
QuietInv ==
  \A t \in Token : /\ since[t] + cooldown[t] >= QuietCycles
                   /\ allowed[t] # {} => cooldown[t] = 0

LEMMA LookQuiet ==
  ASSUME TypeOK, QuietInv, NEW t \in Token, NEW raw, Look(t, raw)
  PROVE  /\ \A u \in Token : since'[u] + cooldown'[u] >= QuietCycles
         /\ cooldown'[t] = Cooling(t, Smoothed(ewma[t], raw))
         /\ \A u \in Token \ {t} : cooldown'[u] = cooldown[u]
<1> DEFINE new == Smoothed(ewma[t], raw)
<1>1. /\ cooldown'[t] = Cooling(t, new)
      /\ since'[t] = IF Reversed(t, new) THEN 0 ELSE Smaller(since[t] + 1, QuietCycles)
      /\ \A u \in Token \ {t} : cooldown'[u] = cooldown[u] /\ since'[u] = since[u]
  BY DEF TypeOK, Look
<1>2. since'[t] + cooldown'[t] >= QuietCycles
  <2> HIDE DEF new
  <2> QED
    BY <1>1, FlowAssumption DEF TypeOK, QuietInv, Cooling, Smaller
<1> QED
  BY <1>1, <1>2 DEF QuietInv

LEMMA QuietStep == TypeOK /\ QuietInv /\ [Next]_vars => QuietInv'
<1> SUFFICES ASSUME TypeOK, QuietInv, [Next]_vars PROVE QuietInv'
  OBVIOUS
<1>1. CASE StartCycle
  BY <1>1 DEF QuietInv, StartCycle
<1>2. CASE Blind
  BY <1>2 DEF TypeOK, QuietInv, Blind
<1>3. ASSUME NEW raw \in (-Full)..Full, KeepQuiet(raw) PROVE QuietInv'
  <2> DEFINE t == Tokens[turn]
  <2>1. t \in Token /\ Look(t, raw) /\ allowed' = [allowed EXCEPT ![t] = {}]
    BY <1>3, PlaceHoldsToken DEF KeepQuiet
  <2>2. /\ \A u \in Token : since'[u] + cooldown'[u] >= QuietCycles
        /\ \A u \in Token \ {t} : cooldown'[u] = cooldown[u]
    BY <2>1, LookQuiet
  <2> QED
    BY <2>1, <2>2 DEF TypeOK, QuietInv
<1>4. ASSUME NEW raw \in (-Full)..Full, NEW depth \in BOOLEAN, NEW value \in Values,
             Quote(raw, depth, value)
      PROVE QuietInv'
  <2> DEFINE t == Tokens[turn]
  <2>1. t \in Token /\ Look(t, raw) /\ Cooling(t, Smoothed(ewma[t], raw)) = 0
    BY <1>4, PlaceHoldsToken DEF Quote
  <2>2. /\ \A u \in Token : since'[u] + cooldown'[u] >= QuietCycles
        /\ cooldown'[t] = 0
        /\ \A u \in Token \ {t} : cooldown'[u] = cooldown[u]
    BY <2>1, LookQuiet
  <2>3. \A u \in Token \ {t} : allowed'[u] = allowed[u]
    BY <1>4 DEF TypeOK, Quote
  <2> QED
    BY <2>1, <2>2, <2>3 DEF QuietInv
<1>5. ASSUME NEW t \in Token, Buy(t) PROVE QuietInv'
  BY <1>5 DEF TypeOK, QuietInv, Buy
<1>6. ASSUME NEW t \in Token, Sell(t) PROVE QuietInv'
  BY <1>6 DEF TypeOK, QuietInv, Sell
<1>7. CASE Tick
  BY <1>7 DEF QuietInv, Tick
<1>8. CASE UNCHANGED vars
  BY <1>8 DEF QuietInv, vars
<1> QED
  BY <1>1, <1>2, <1>3, <1>4, <1>5, <1>6, <1>7, <1>8 DEF Next, Evaluate

\* A token that has an order had no reversal for a whole cooldown.
THEOREM QuietCorrect == Spec => []QuietAfterReversal
<1>1. Init => QuietInv
  BY FlowAssumption DEF Init, QuietInv
<1>2. TypeOK /\ QuietInv => QuietAfterReversal
  <2> SUFFICES ASSUME TypeOK, QuietInv, NEW t \in Token, allowed[t] # {}
               PROVE  since[t] = QuietCycles
    BY DEF QuietAfterReversal
  <2>1. since[t] \in 0..QuietCycles /\ cooldown[t] = 0 /\ since[t] + cooldown[t] >= QuietCycles
    BY DEF TypeOK, QuietInv
  <2> QED
    BY <2>1, FlowAssumption
<1> QED
  BY <1>1, <1>2, QuietStep, TypeCorrect, PTL DEF Spec

\* The program's defaults: an average over 10 updates moves by at most 2/11 of
\* the scale of 20000 bps, less than the 5000 bps that count as a reversal.
THEOREM NeverReversed ==
  ASSUME 4 * Full <= (Swing - 1) * (Span + 1)
  PROVE  Spec => [](\A t \in Token : cooldown[t] = 0)
<1> DEFINE Never == \A t \in Token : cooldown[t] = 0
<1>1. Init => Never
  BY DEF Init
<1>2. TypeOK /\ Never /\ [Next]_vars => Never'
  <2> SUFFICES ASSUME TypeOK, Never, [Next]_vars PROVE Never'
    OBVIOUS
  <2>1. CASE StartCycle
    BY <2>1 DEF StartCycle
  <2>2. CASE Blind
    BY <2>2 DEF Blind
  <2>3. ASSUME TypeOK, turn > 0, NEW raw \in (-Full)..Full, Look(Tokens[turn], raw) PROVE Never'
    <3> DEFINE t == Tokens[turn]
    <3>1. t \in Token /\ ~Reversed(t, Smoothed(ewma[t], raw))
      BY <2>3, PlaceHoldsToken, NoReversal
    <3>2. Cooling(t, Smoothed(ewma[t], raw)) = 0
      BY <3>1 DEF Cooling
    <3> QED
      BY <2>3, <3>2 DEF TypeOK, Look
  <2>4. ASSUME NEW raw \in (-Full)..Full, KeepQuiet(raw) PROVE Never'
    BY <2>3, <2>4 DEF KeepQuiet
  <2>5. ASSUME NEW raw \in (-Full)..Full, NEW depth \in BOOLEAN, NEW value \in Values,
               Quote(raw, depth, value)
        PROVE Never'
    BY <2>3, <2>5 DEF Quote
  <2>6. ASSUME NEW t \in Token, Buy(t) \/ Sell(t) PROVE Never'
    BY <2>6 DEF Buy, Sell
  <2>7. CASE Tick
    BY <2>7 DEF Tick
  <2>8. CASE UNCHANGED vars
    BY <2>8 DEF vars
  <2> QED
    BY <2>1, <2>2, <2>4, <2>5, <2>6, <2>7, <2>8 DEF Next, Evaluate
<1> QED
  BY <1>1, <1>2, TypeCorrect, PTL DEF Spec

-----------------------------------------------------------------------------
(* Sleep.                                                                  *)

\* The sleep left and the time since the last loss cover the whole sleep; and
\* a token evaluated in the latest cycle that may buy although a loss is
\* recent had its turn before the loss.
SleepInv ==
  /\ asleep + sinceLoss = SleepTime
  /\ \A i \in Places :
       /\ turn = 0 \/ i < turn
       /\ "buy" \in allowed[Tokens[i]]
       => sinceLoss = SleepTime \/ i < struckAt

LEMMA QuoteSleep ==
  ASSUME TypeOK, SleepInv, NEW raw \in (-Full)..Full, NEW depth \in BOOLEAN,
         NEW value \in Values, Quote(raw, depth, value)
  PROVE  SleepInv'
<1> DEFINE t == Tokens[turn]
<1> USE RiskAssumption, TokensAssumption
<1>0. turn \in Places /\ t \in Token
  BY PlaceHoldsToken DEF Quote
<1>1. asleep' + sinceLoss' = SleepTime
  BY DEF TypeOK, SleepInv, Quote, AsleepAfter
<1>2. ASSUME NEW i \in Places, turn' = 0 \/ i < turn', "buy" \in allowed'[Tokens[i]]
      PROVE  sinceLoss' = SleepTime \/ i < struckAt'
  <2>1. i <= turn
    BY <1>0, <1>2 DEF Quote, Pass, Places
  <2>2. CASE i = turn
    <3>1. "buy" \in RiskAllows(t, value)
      BY <1>0, <1>2, <2>2 DEF TypeOK, Quote
    <3>2. asleep = 0 /\ ~StopLoss(t, value)
      BY <3>1 DEF RiskAllows, StopLoss
    <3> QED
      BY <3>2 DEF TypeOK, SleepInv, Quote
  <2>3. CASE i < turn
    <3>1. Tokens[i] \in Token /\ Tokens[i] # t
      BY <1>0, <2>3 DEF Token, Places
    <3>2. "buy" \in allowed[Tokens[i]]
      BY <1>0, <1>2, <3>1 DEF TypeOK, Quote
    <3>3. sinceLoss = SleepTime \/ i < struckAt
      BY <2>3, <3>2 DEF SleepInv
    <3> QED
      BY <2>3, <3>3 DEF Quote
  <2> QED
    BY <1>0, <2>1, <2>2, <2>3 DEF Places
<1> QED
  BY <1>1, <1>2 DEF SleepInv

LEMMA SleepStep == TypeOK /\ SleepInv /\ [Next]_vars => SleepInv'
<1> SUFFICES ASSUME TypeOK, SleepInv, [Next]_vars PROVE SleepInv'
  OBVIOUS
<1> USE RiskAssumption, TokensAssumption
<1>1. CASE StartCycle
  BY <1>1 DEF TypeOK, SleepInv, StartCycle, Places
<1>2. ASSUME turn > 0, Pass, UNCHANGED <<asleep, sinceLoss, struckAt>>,
             allowed' = [allowed EXCEPT ![Tokens[turn]] = {}]
      PROVE  SleepInv'
  <2>1. turn \in Places /\ Tokens[turn] \in Token
    BY <1>2, PlaceHoldsToken
  <2>2. ASSUME NEW i \in Places, turn' = 0 \/ i < turn', "buy" \in allowed'[Tokens[i]]
        PROVE  sinceLoss' = SleepTime \/ i < struckAt'
    <3>1. i <= turn
      BY <1>2, <2>1, <2>2 DEF Pass, Places
    <3>2. Tokens[i] \in Token
      BY DEF Token
    <3>3. i # turn /\ "buy" \in allowed[Tokens[i]]
      BY <1>2, <2>1, <2>2, <3>2 DEF TypeOK
    <3>4. i < turn
      BY <2>1, <3>1, <3>3 DEF Places
    <3> QED
      BY <1>2, <3>3, <3>4 DEF SleepInv
  <2> QED
    BY <1>2, <2>2 DEF SleepInv
<1>3. CASE Blind
  BY <1>2, <1>3 DEF Blind
<1>4. ASSUME NEW raw \in (-Full)..Full, KeepQuiet(raw) PROVE SleepInv'
  BY <1>2, <1>4 DEF KeepQuiet
<1>5. ASSUME NEW t \in Token, Buy(t) \/ Sell(t) PROVE SleepInv'
  <2>1. \A u \in Token : allowed'[u] \subseteq allowed[u]
    BY <1>5 DEF TypeOK, Buy, Sell
  <2>2. \A i \in Places : Tokens[i] \in Token
    BY DEF Token
  <2> QED
    BY <1>5, <2>1, <2>2 DEF SleepInv, Buy, Sell
<1>6. CASE Tick
  BY <1>6 DEF TypeOK, SleepInv, Tick, Smaller
<1>7. CASE UNCHANGED vars
  BY <1>7 DEF SleepInv, vars
<1> QED
  BY <1>1, <1>3, <1>4, <1>5, <1>6, <1>7, QuoteSleep DEF Next, Evaluate

\* A holding grows only by a fill between cycles, of a token that may buy.
LEMMA GrowthStep ==
  ASSUME TypeOK, SleepInv, [Next]_vars, NEW i \in Places,
         position'[Tokens[i]] > position[Tokens[i]]
  PROVE  sinceLoss = SleepTime \/ i < struckAt
<1> DEFINE t == Tokens[i]
<1>1. t \in Token /\ position[t] \in Nat
  BY DEF Token, TypeOK
<1>2. position' # position
  BY <1>1
<1>3. PICK u \in Token : Buy(u) \/ Sell(u)
  BY <1>2 DEF Next, Evaluate, StartCycle, Blind, KeepQuiet, Quote, Tick, vars
<1>4. Buy(t)
  BY <1>1, <1>3 DEF TypeOK, Buy, Sell
<1> QED
  BY <1>4 DEF SleepInv, Buy

\* While the market sleeps after a loss no holding grows, but for the buys that
\* were given out in the cycle of the loss before the loss was seen.
THEOREM AsleepCorrect == Spec => AsleepBuysNothing
<1>1. Init => SleepInv
  BY RiskAssumption, TokensAssumption DEF Init, SleepInv, Token
<1>2. TypeOK /\ SleepInv /\ [Next]_vars =>
        [\A i \in Places :
           position'[Tokens[i]] > position[Tokens[i]] => sinceLoss = SleepTime \/ i < struckAt]_vars
  BY GrowthStep
<1> QED
  BY <1>1, <1>2, SleepStep, TypeCorrect, PTL DEF Spec, AsleepBuysNothing
=============================================================================
