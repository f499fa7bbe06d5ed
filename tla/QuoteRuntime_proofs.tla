------------------------- MODULE QuoteRuntime_proofs -------------------------
(***************************************************************************)
(* The exposure of the archived runtime: for every set of tokens, every    *)
(* timeout and every cap, a token's inventory stays within the cap and its *)
(* state machine within one leg.                                           *)
(***************************************************************************)
EXTENDS QuoteRuntime, TLAPS

(***************************************************************************)
(* A desk in order.  The leg of a state machine may be unwound at any      *)
(* time, and the inventory must still be within the cap without it: this   *)
(* is what keeps the bound, for a swap of markets can leave an inventory   *)
(* that the new state machine knows nothing of.                            *)
(***************************************************************************)
Within(n) == -NetCap <= n /\ n <= NetCap

OneLeg(d) == d.state # "FROZEN" =>
               /\ -1 <= d.net /\ d.net <= 1
               /\ d.state = "QUOTING_BOTH" <=> d.net = 0
WithoutLeg(d) == d.state \in Legs => Within(d.inv - d.net)

InOrder(d) == d \in Desks /\ OneLeg(d) /\ Within(d.inv) /\ WithoutLeg(d)

\* May be quoted: no open leg, and a quote's room on either side.
Quotable(d) == /\ d \in Desks
               /\ d.state = "FROZEN" \/ (d.state = "QUOTING_BOTH" /\ d.net = 0)
               /\ -NetCap + 1 <= d.inv /\ d.inv <= NetCap - 1

\* Between its two sides.
HalfQuoted(d) == /\ d \in Desks
                 /\ -NetCap + 1 <= d.inv /\ d.inv <= NetCap
                 /\ \/ d.state = "FROZEN"
                    \/ d.state = "QUOTING_BOTH" /\ d.net = 0
                    \/ d.state = "ONE_SIDE_FILLED" /\ d.net = 1 /\ -NetCap + 2 <= d.inv

-----------------------------------------------------------------------------

(***************************************************************************)
(* f is desk d after its leg has changed by n.                             *)
(***************************************************************************)
LegMoved(d, f, n) ==
  /\ f \in Desks
  /\ f.net = d.net + n
  /\ f.net = 0 => f.state = "QUOTING_BOTH"
  /\ f.net # 0 => f.state = IF d.state \in {"UNWINDING", "FROZEN"} THEN d.state
                           ELSE "ONE_SIDE_FILLED"

LEMMA OnFillDoes ==
  ASSUME NEW d \in Desks, NEW qty \in Int
  PROVE  LegMoved(d, OnFill(d, qty), qty) /\ OnFill(d, qty).inv = d.inv
<1> DEFINE f == [d EXCEPT !.net = @ + qty]
<1>1. f \in Desks /\ f.net = d.net + qty /\ f.inv = d.inv /\ f.state = d.state
  BY DEF Desks
<1>2. 0 \in Ages(Timeout + 1) /\ None \in Ages(Timeout + 1)
  BY TimesAssumption DEF Ages, None
<1>3. CASE f.net = 0
  BY <1>1, <1>2, <1>3 DEF OnFill, Desks, States, LegMoved
<1>4. CASE f.net # 0 /\ d.state \in {"UNWINDING", "FROZEN"}
  BY <1>1, <1>4 DEF OnFill, LegMoved
<1>5. CASE f.net # 0 /\ d.state \notin {"UNWINDING", "FROZEN"}
  <2>1. OnFill(d, qty) = [f EXCEPT !.state = "ONE_SIDE_FILLED",
                                   !.since = IF d.since = None THEN 0 ELSE d.since]
    BY <1>5 DEF OnFill
  <2>2. (IF d.since = None THEN 0 ELSE d.since) \in Ages(Timeout + 1)
    BY <1>2 DEF Desks
  <2> QED BY <1>1, <1>5, <2>1, <2>2 DEF Desks, States, LegMoved
<1> QED BY <1>3, <1>4, <1>5

LEMMA FillDoes ==
  ASSUME NEW d \in Desks, NEW s \in Sides, NEW qty \in Int
  PROVE  /\ LegMoved(d, Fill(d, s, qty), Sign(s) * qty)
         /\ Fill(d, s, qty).inv = d.inv + Sign(s) * qty
<1> DEFINE n == Sign(s) * qty
           e == [d EXCEPT !.inv = @ + n]
<1>1. n \in Int
  BY DEF Sign
<1>2. Fill(d, s, qty) = OnFill(e, n)
  BY DEF Fill
<1> HIDE DEF n
<1>3. e \in Desks /\ e.net = d.net /\ e.inv = d.inv + n /\ e.state = d.state
  BY <1>1 DEF Desks
<1> HIDE DEF e
<1>4. LegMoved(e, OnFill(e, n), n) /\ OnFill(e, n).inv = e.inv
  BY <1>1, <1>3, OnFillDoes
<1>5. LegMoved(d, OnFill(e, n), n)
  BY <1>3, <1>4 DEF LegMoved
<1>6. LegMoved(d, Fill(d, s, qty), n) /\ Fill(d, s, qty).inv = d.inv + n
  BY <1>2, <1>3, <1>4, <1>5
<1> QED BY <1>6 DEF n

-----------------------------------------------------------------------------
(***************************************************************************)
(* The unwind.                                                             *)
(***************************************************************************)

LEMMA InOrderFields ==
  ASSUME NEW d, NEW e \in Desks, InOrder(d), e.state = d.state, e.net = d.net, e.inv = d.inv
  PROVE  InOrder(e)
BY DEF InOrder, OneLeg, WithoutLeg

LEMMA FrozenInOrder ==
  ASSUME NEW d, InOrder(d)
  PROVE  InOrder(Freeze(d))
<1>1. Freeze(d) \in Desks /\ Freeze(d).state = "FROZEN" /\ Freeze(d).inv = d.inv
  BY DEF Freeze, InOrder, Desks, States
<1> QED BY <1>1 DEF InOrder, OneLeg, WithoutLeg, Legs

\* The whole leg is sold, or bought back.
LEMMA SoldInOrder ==
  ASSUME NEW d, InOrder(d), d.state = "UNWINDING"
  PROVE  InOrder(Fill(d, IF d.net > 0 THEN "sell" ELSE "buy", Abs(d.net)))
<1> DEFINE out == IF d.net > 0 THEN "sell" ELSE "buy"
           f == Fill(d, out, Abs(d.net))
<1>1. d \in Desks /\ d.net \in Int /\ d.inv \in Int /\ out \in Sides
  BY DEF InOrder, Desks, Sides
<1>2. Abs(d.net) \in Int /\ Sign(out) * Abs(d.net) = -d.net
  BY <1>1 DEF Abs, Sign
<1>3. LegMoved(d, f, -d.net) /\ f.inv = d.inv - d.net
  <2>1. LegMoved(d, f, Sign(out) * Abs(d.net)) /\ f.inv = d.inv + Sign(out) * Abs(d.net)
    BY <1>1, <1>2, FillDoes
  <2>2. d.inv + (-d.net) = d.inv - d.net
    BY <1>1
  <2> QED BY <1>2, <2>1, <2>2
<1> HIDE DEF f
<1>4. f \in Desks /\ f.net = 0 /\ f.state = "QUOTING_BOTH"
  BY <1>1, <1>3 DEF LegMoved
<1>5. Within(f.inv)
  BY <1>3 DEF InOrder, WithoutLeg, Legs
<1>6. InOrder(f)
  BY <1>4, <1>5 DEF InOrder, OneLeg, WithoutLeg, Legs
<1> QED BY <1>6 DEF f

LEMMA UnwindInOrder ==
  ASSUME NEW d, NEW yes, InOrder(d), d.state = "UNWINDING"
  PROVE  InOrder(EmergencyUnwind(d, yes))
<1> DEFINE out == IF d.net > 0 THEN "sell" ELSE "buy"
           u == IF d.started = None THEN [d EXCEPT !.started = 0] ELSE d
           sold(x) == IF "unwind" \in yes THEN Fill(x, out, Abs(d.net)) ELSE x
           tried == [u EXCEPT !.maker = "unwind" \in yes]
           taken == [u EXCEPT !.maker = FALSE, !.taker = 0]
<1>1. d \in Desks /\ 0 \in Ages(TakerAfter)
  BY TimesAssumption DEF InOrder, Ages
<1>2. u \in Desks /\ u.state = d.state /\ u.net = d.net /\ u.inv = d.inv
  BY <1>1 DEF Desks
<1> HIDE DEF u
<1>3. tried \in Desks /\ tried.state = d.state /\ tried.net = d.net /\ tried.inv = d.inv
  <2>1. CASE "unwind" \in yes
    <3>1. tried = [u EXCEPT !.maker = TRUE]
      BY <2>1, Zenon
    <3> QED BY <1>2, <3>1 DEF Desks
  <2>2. CASE "unwind" \notin yes
    <3>0. ("unwind" \in yes) = FALSE
      BY <2>2
    <3>1. tried = [u EXCEPT !.maker = FALSE]
      BY <3>0
    <3> QED BY <1>2, <3>1 DEF Desks
  <2> QED BY <2>1, <2>2
<1>4. taken \in Desks /\ taken.state = d.state /\ taken.net = d.net /\ taken.inv = d.inv
  BY <1>1, <1>2 DEF Desks
<1> HIDE DEF tried, taken
<1>5. InOrder(u) /\ InOrder(tried) /\ InOrder(taken)
  BY <1>2, <1>3, <1>4, InOrderFields
<1>6. InOrder(sold(tried)) /\ InOrder(sold(taken))
  <2>1. InOrder(Fill(tried, out, Abs(d.net)))
    BY <1>3, <1>5, SoldInOrder
  <2>2. InOrder(Fill(taken, out, Abs(d.net)))
    BY <1>4, <1>5, SoldInOrder
  <2> QED BY <1>5, <2>1, <2>2
<1>7. EmergencyUnwind(d, yes) \in {u, Freeze(u), sold(tried), sold(taken)}
  BY DEF EmergencyUnwind, u, tried, taken
<1>8. InOrder(Freeze(u))
  BY <1>5, FrozenInOrder
<1> QED BY <1>5, <1>6, <1>7, <1>8

LEMMA RebalancedInOrder ==
  ASSUME NEW d, NEW yes, InOrder(d)
  PROVE  InOrder(Rebalanced(d, yes))
<1> DEFINE r == RebalanceTick(d)
<1>1. InOrder(r)
  BY DEF RebalanceTick, InOrder, OneLeg, WithoutLeg, Legs, Desks, States
<1> QED BY <1>1, UnwindInOrder DEF Rebalanced

-----------------------------------------------------------------------------
(***************************************************************************)
(* The verdict and the quote.                                              *)
(***************************************************************************)

LEMMA JudgedInOrder ==
  ASSUME NEW t, NEW d, NEW sky, InOrder(d)
  PROVE  InOrder(Judged(t, d, sky))
<1>1. InOrder(Unfreeze(d))
  <2>1. None \in Ages(Timeout + 1)
    BY DEF Ages
  <2>2. CASE d.state = "FROZEN" /\ d.net = 0
    <3>1. /\ Unfreeze(d) \in Desks /\ Unfreeze(d).state = "QUOTING_BOTH"
          /\ Unfreeze(d).net = 0 /\ Unfreeze(d).inv = d.inv
      BY <2>1, <2>2 DEF Unfreeze, InOrder, Desks, States
    <3> QED BY <3>1 DEF InOrder, OneLeg, WithoutLeg, Legs
  <2>3. CASE ~(d.state = "FROZEN" /\ d.net = 0)
    BY <2>3 DEF Unfreeze
  <2> QED BY <2>2, <2>3
<1> QED BY <1>1, FrozenInOrder DEF Judged

\* Only a desk without a known leg and below the cap is quoted.
LEMMA CleanIsQuotable ==
  ASSUME NEW t, NEW d, NEW sky, InOrder(d), Clean(t, d, sky)
  PROVE  Quotable(Judged(t, d, sky))
<1>1. d \in Desks /\ d.inv \in Int /\ d.state \in States /\ NetCap \in Int
  BY CapAssumption DEF InOrder, Desks
<1>2. ~(Abs(d.inv) >= NetCap) /\ d.state \notin Legs
  BY DEF Clean, Breach, Leg
<1>3. -NetCap + 1 <= d.inv /\ d.inv <= NetCap - 1
  BY <1>1, <1>2 DEF Abs
<1>4. d.state = "FROZEN" \/ (d.state = "QUOTING_BOTH" /\ d.net = 0)
  BY <1>1, <1>2 DEF States, Legs, InOrder, OneLeg
<1>5. Judged(t, d, sky) \in {Freeze(d), Unfreeze(d), d}
  BY DEF Judged
<1>6. InOrder(Judged(t, d, sky))
  BY JudgedInOrder
<1>7. Quotable(d)
  BY <1>1, <1>3, <1>4 DEF Quotable
<1>8. Quotable(Freeze(d))
  BY <1>1, <1>3 DEF Quotable, Freeze, Desks, States
<1>9. Quotable(Unfreeze(d))
  <2>1. None \in Ages(Timeout + 1)
    BY DEF Ages
  <2> QED BY <1>7, <2>1 DEF Quotable, Unfreeze, Desks, States
<1> QED BY <1>5, <1>7, <1>8, <1>9

\* A side that is not quoted, withdrawn, or already there changes no leg.
SameLeg(d, f) == f \in Desks /\ f.state = d.state /\ f.net = d.net /\ f.inv = d.inv
Filled(d, f, n) == LegMoved(d, f, n) /\ f.inv = d.inv + n

LEMMA ApplySideDoes ==
  ASSUME NEW d \in Desks, NEW s \in Sides, NEW allow, NEW yes, NEW moved
  PROVE  \/ SameLeg(d, ApplySide(d, s, allow, yes, moved))
         \/ allow /\ Filled(d, ApplySide(d, s, allow, yes, moved), Sign(s))
<1> DEFINE f == ApplySide(d, s, allow, yes, moved)
           without == [d EXCEPT !.open = @ \ {s}]
           with == [d EXCEPT !.open = @ \cup {s}]
<1>1. SameLeg(d, without)
  BY DEF Desks, SameLeg
<1>2. SameLeg(d, with)
  BY DEF Desks, SameLeg
<1>3. [d EXCEPT !.open = IF s \in moved THEN @ \ {s} ELSE @] \in {d, without}
  BY DEF Desks
<1>4. f \in {d, without} \/ (allow /\ f = Fill(with, s, 1))
  BY <1>3 DEF ApplySide
<1> HIDE DEF without, with, f
<1>5. CASE f \in {d, without}
  BY <1>1, <1>5 DEF SameLeg, f
<1>6. CASE allow /\ f = Fill(with, s, 1)
  <2>1. Sign(s) \in Int /\ Sign(s) * 1 = Sign(s)
    BY DEF Sign
  <2>2. LegMoved(with, Fill(with, s, 1), Sign(s) * 1) /\ Fill(with, s, 1).inv = with.inv + Sign(s) * 1
    BY <1>2, FillDoes DEF SameLeg
  <2>3. Filled(d, f, Sign(s))
    BY <1>2, <1>6, <2>1, <2>2 DEF LegMoved, SameLeg, Filled
  <2> QED BY <1>6, <2>3 DEF f
<1> QED BY <1>4, <1>5, <1>6

LEMMA QuotedInOrder ==
  ASSUME NEW d, NEW yes, NEW moved, Quotable(d)
  PROVE  InOrder(Quoted(d, TRUE, yes, moved))
<1> DEFINE h == ApplySide(d, "buy", TRUE, yes, moved)
           q == ApplySide(h, "sell", TRUE, yes, moved)
<1>1. "buy" \in Sides /\ "sell" \in Sides /\ Sign("buy") = 1 /\ Sign("sell") = -1
  BY DEF Sides, Sign
<1>2. d \in Desks /\ NetCap \in Int
  BY CapAssumption DEF Quotable
<1>3. SameLeg(d, h) \/ Filled(d, h, 1)
  BY <1>1, <1>2, ApplySideDoes
<1> HIDE DEF h
<1>4. HalfQuoted(h)
  <2>1. d.net \in Int /\ d.inv \in Int
    BY <1>2 DEF Desks
  <2>2. CASE SameLeg(d, h)
    BY <1>2, <2>1, <2>2 DEF Quotable, HalfQuoted, SameLeg
  <2>3. CASE Filled(d, h, 1)
    BY <1>2, <2>1, <2>3 DEF Quotable, HalfQuoted, Filled, LegMoved
  <2> QED BY <1>3, <2>2, <2>3
<1>5. h \in Desks /\ h.net \in Int /\ h.inv \in Int
  BY <1>4 DEF HalfQuoted, Desks
<1>6. SameLeg(h, q) \/ Filled(h, q, -1)
  BY <1>1, <1>5, ApplySideDoes
<1> HIDE DEF q
<1>7. ASSUME SameLeg(h, q) PROVE InOrder(q)
  BY <1>2, <1>4, <1>5, <1>7 DEF SameLeg, HalfQuoted, InOrder, OneLeg, WithoutLeg, Legs, Within
<1>8. ASSUME Filled(h, q, -1) PROVE InOrder(q)
  BY <1>2, <1>4, <1>5, <1>8 DEF Filled, HalfQuoted, InOrder, OneLeg, WithoutLeg, Legs, Within, LegMoved
<1>9. InOrder(q)
  BY <1>6, <1>7, <1>8
<1> QED BY <1>9 DEF Quoted, h, q

LEMMA WithdrawnInOrder ==
  ASSUME NEW d, NEW yes, NEW moved, InOrder(d)
  PROVE  InOrder(Quoted(d, FALSE, yes, moved))
<1> DEFINE h == ApplySide(d, "buy", FALSE, yes, moved)
           q == ApplySide(h, "sell", FALSE, yes, moved)
<1>1. d \in Desks /\ "buy" \in Sides /\ "sell" \in Sides
  BY DEF InOrder, Sides
<1>2. SameLeg(d, h)
  BY <1>1, ApplySideDoes
<1> HIDE DEF h
<1>3. SameLeg(h, q)
  <2>1. h \in Desks
    BY <1>2 DEF SameLeg
  <2> QED BY <1>1, <2>1, ApplySideDoes
<1> HIDE DEF q
<1>4. InOrder(q)
  BY <1>2, <1>3, InOrderFields DEF SameLeg
<1> QED BY <1>4 DEF Quoted, h, q

LEMMA AfterTurnInOrder ==
  ASSUME NEW t, NEW d, NEW sky, NEW yes, NEW moved, InOrder(d)
  PROVE  InOrder(AfterTurn(t, d, sky, yes, moved))
<1> DEFINE r == Rebalanced(d, yes)
           j == Judged(t, r, sky)
<1>1. InOrder(r)
  BY RebalancedInOrder
<1> HIDE DEF r
<1>2. InOrder(j)
  BY <1>1, JudgedInOrder
<1>3. CASE sky = "down" \/ t \in guarded
  BY <1>2, <1>3 DEF AfterTurn, r
<1>4. CASE ~(sky = "down" \/ t \in guarded)
  <2>1. AfterTurn(t, d, sky, yes, moved) = Quoted(j, Clean(t, r, sky), yes, moved)
    BY <1>4 DEF AfterTurn, r
  <2>2. CASE Clean(t, r, sky)
    <3>1. Quotable(j)
      BY <1>1, <2>2, CleanIsQuotable
    <3>2. Clean(t, r, sky) = TRUE
      BY <2>2 DEF Clean
    <3> QED BY <2>1, <3>1, <3>2, QuotedInOrder
  <2>3. CASE ~Clean(t, r, sky)
    <3>1. Clean(t, r, sky) = FALSE
      BY <2>3 DEF Clean
    <3> QED BY <1>2, <2>1, <3>1, WithdrawnInOrder
  <2> QED BY <2>2, <2>3
<1> QED BY <1>3, <1>4

-----------------------------------------------------------------------------
(***************************************************************************)
(* Every step.                                                             *)
(***************************************************************************)

DesksInOrder == /\ desk = [t \in Tokens |-> desk[t]]
                /\ \A t \in Tokens : InOrder(desk[t])

LEMMA FreshInOrder ==
  ASSUME NEW inv \in Int, Within(inv)
  PROVE  InOrder(Fresh(inv))
<1>1. None \in Ages(Timeout + 1) /\ None \in Ages(TakerAfter)
  BY DEF Ages
<1>2. Fresh(inv) \in Desks
  BY <1>1 DEF Fresh, Desks, States, Sides
<1>3. Fresh(inv).state = "QUOTING_BOTH" /\ Fresh(inv).net = 0 /\ Fresh(inv).inv = inv
  BY DEF Fresh
<1> QED BY <1>2, <1>3 DEF InOrder, OneLeg, WithoutLeg, Legs

LEMMA OlderAge ==
  ASSUME NEW top \in Nat, NEW age \in Ages(top)
  PROVE  Older(age, top) \in Ages(top)
BY DEF Older, Ages, None

LEMMA InOrderStep == DesksInOrder /\ [Next]_vars => DesksInOrder'
<1> SUFFICES ASSUME DesksInOrder, [Next]_vars PROVE DesksInOrder'
  OBVIOUS
<1> USE DEF DesksInOrder
<1>1. ASSUME NEW t \in Tokens, Turn(t) PROVE DesksInOrder'
  <2>1. PICK sky, yes, moved : desk' = [desk EXCEPT ![t] = AfterTurn(t, desk[t], sky, yes, moved)]
    BY <1>1 DEF Turn
  <2>2. InOrder(AfterTurn(t, desk[t], sky, yes, moved))
    BY AfterTurnInOrder
  <2> QED BY <2>1, <2>2
<1>2. CASE Tick
  <2> SUFFICES ASSUME NEW t \in Tokens PROVE InOrder(desk'[t])
    BY <1>2 DEF Tick
  <2> DEFINE d == desk[t]
             e == [d EXCEPT !.since = Older(@, Timeout + 1), !.started = Older(@, TakerAfter),
                            !.taker = Older(@, TakerAfter)]
  <2>1. desk'[t] = e
    BY <1>2 DEF Tick
  <2>2. InOrder(d) /\ d \in Desks
    BY DEF InOrder
  <2>3. /\ Older(d.since, Timeout + 1) \in Ages(Timeout + 1)
        /\ Older(d.started, TakerAfter) \in Ages(TakerAfter)
        /\ Older(d.taker, TakerAfter) \in Ages(TakerAfter)
    BY <2>2, OlderAge, TimesAssumption DEF Desks
  <2> HIDE DEF d
  <2>4. e \in Desks /\ e.state = d.state /\ e.net = d.net /\ e.inv = d.inv
    BY <2>2, <2>3 DEF Desks
  <2> HIDE DEF e
  <2> QED BY <2>1, <2>2, <2>4, InOrderFields
<1>3. ASSUME NEW new \in SUBSET Tokens, Commit(new) PROVE DesksInOrder'
  <2> SUFFICES ASSUME NEW t \in Tokens PROVE InOrder(desk'[t])
    BY <1>3 DEF Commit
  <2> DEFINE inv == IF t \in new \cap listed THEN desk[t].inv ELSE 0
  <2>1. desk'[t] = Fresh(inv)
    BY <1>3 DEF Commit
  <2>2. inv \in Int /\ Within(inv)
    BY CapAssumption DEF InOrder, Desks, Within
  <2> QED BY <2>1, <2>2, FreshInOrder
<1>4. CASE Guard
  <2> SUFFICES ASSUME NEW t \in Tokens PROVE InOrder(desk'[t])
    BY <1>4 DEF Guard
  <2>1. desk'[t] = desk[t] \/ desk'[t] = [desk[t] EXCEPT !.open = {}]
    BY <1>4 DEF Guard
  <2>2. InOrder(desk[t]) /\ desk[t] \in Desks
    BY DEF InOrder
  <2>3. [desk[t] EXCEPT !.open = {}] \in Desks
    BY <2>2 DEF Desks
  <2> QED BY <2>1, <2>2, <2>3, InOrderFields DEF Desks
<1>5. CASE LiftGuard \/ Settle \/ UNCHANGED vars
  BY <1>5 DEF LiftGuard, Settle, vars
<1> QED BY <1>1, <1>2, <1>3, <1>4, <1>5 DEF Next

LEMMA InOrderStart == Init => DesksInOrder
<1> SUFFICES ASSUME Init PROVE DesksInOrder
  OBVIOUS
<1>1. 0 \in Int /\ Within(0)
  BY CapAssumption DEF Within
<1>2. InOrder(Fresh(0))
  BY <1>1, FreshInOrder
<1> QED BY <1>2 DEF Init, DesksInOrder

LEMMA AlwaysInOrder == Spec => []DesksInOrder
BY InOrderStart, InOrderStep, PTL DEF Spec

\* A desk's part of the two invariants.
LEMMA InOrderImplies ==
  ASSUME NEW d, InOrder(d)
  PROVE  /\ Abs(d.inv) <= NetCap
         /\ d.state # "FROZEN" => Abs(d.net) <= 1 /\ (d.state = "QUOTING_BOTH" <=> d.net = 0)
<1>1. d.inv \in Int /\ d.net \in Int /\ NetCap \in Int
  BY CapAssumption DEF InOrder, Desks
<1> QED BY <1>1 DEF InOrder, OneLeg, Within, Abs

\* Whatever the broker takes or refuses, however late the hedge timer is and
\* whenever markets are swapped: a token's state machine holds one leg at most,
\* unless it is frozen, and knows whether it does.
THEOREM OneLegCorrect == Spec => []OneLegAtMost
<1>1. DesksInOrder => OneLegAtMost
  BY InOrderImplies DEF DesksInOrder, OneLegAtMost
<1> QED BY <1>1, AlwaysInOrder, PTL

\* And its inventory stays within the cap, long or short, though a swap makes
\* the state machine forget a leg and a frozen token goes on quoting.
THEOREM InventoryCorrect == Spec => []InventoryBounded
<1>1. DesksInOrder => InventoryBounded
  BY InOrderImplies DEF DesksInOrder, InventoryBounded
<1> QED BY <1>1, AlwaysInOrder, PTL

-----------------------------------------------------------------------------

RestType == /\ listed \in (SUBSET Tokens) \ {{}} /\ guarded \in SUBSET Tokens
            /\ calm \in BOOLEAN /\ beat \in BOOLEAN

LEMMA RestStep == RestType /\ [Next]_vars => RestType'
<1> SUFFICES ASSUME RestType, [Next]_vars PROVE RestType'
  OBVIOUS
<1> USE DEF RestType
<1>1. ASSUME NEW t \in Tokens, Turn(t) PROVE RestType'
  <2>1. UNCHANGED <<listed, guarded, calm>> /\ beat' = ~beat
    BY <1>1 DEF Turn
  <2>2. beat' \in BOOLEAN
    BY <2>1
  <2> QED BY <2>1, <2>2
<1>2. CASE Tick
  BY <1>2 DEF Tick
<1>3. ASSUME NEW new \in (SUBSET Tokens) \ {{}}, Commit(new) PROVE RestType'
  BY <1>3 DEF Commit
<1>4. CASE Guard
  BY <1>4 DEF Guard
<1>5. CASE LiftGuard \/ UNCHANGED vars
  BY <1>5 DEF LiftGuard, vars
<1>6. CASE Settle
  BY <1>6 DEF Settle
<1> QED BY <1>1, <1>2, <1>3, <1>4, <1>5, <1>6 DEF Next

\* Every turn, tick and swap keeps every desk a desk.
THEOREM TypeCorrect == Spec => []TypeOK
<1>1. Init => RestType
  <2> SUFFICES ASSUME Init PROVE RestType
    OBVIOUS
  <2>1. listed \in (SUBSET Tokens) \ {{}} /\ guarded \in SUBSET Tokens
    BY TokensAssumption DEF Init
  <2>2. calm = FALSE /\ beat = FALSE
    BY DEF Init
  <2> QED BY <2>1, <2>2 DEF RestType
<1>2. DesksInOrder /\ RestType => TypeOK
  BY DEF DesksInOrder, InOrder, RestType, TypeOK
<1> QED BY <1>1, <1>2, RestStep, AlwaysInOrder, PTL DEF Spec

-----------------------------------------------------------------------------
(***************************************************************************)
(* A known leg.                                                            *)
(***************************************************************************)

LEMMA RebalancedLeg ==
  ASSUME NEW d, NEW yes, InOrder(d), Leg(d), TakerEnabled
  PROVE  Rebalanced(d, yes).state # "FROZEN"
<1> DEFINE r == RebalanceTick(d)
           out == IF r.net > 0 THEN "sell" ELSE "buy"
           u == IF r.started = None THEN [r EXCEPT !.started = 0] ELSE r
           sold(x) == IF "unwind" \in yes THEN Fill(x, out, Abs(r.net)) ELSE x
           tried == [u EXCEPT !.maker = "unwind" \in yes]
           taken == [u EXCEPT !.maker = FALSE, !.taker = 0]
<1>1. r \in Desks /\ r.state \in Legs
  BY DEF RebalanceTick, InOrder, Desks, States, Leg, Legs
<1> HIDE DEF r
<1>2. CASE r.state # "UNWINDING"
  BY <1>1, <1>2 DEF Rebalanced, r, Legs
<1>3. CASE r.state = "UNWINDING"
  <2>1. Rebalanced(d, yes) = EmergencyUnwind(r, yes)
    BY <1>3 DEF Rebalanced, r
  <2>2. EmergencyUnwind(r, yes) \in {u, sold(tried), sold(taken)}
    BY DEF EmergencyUnwind
  <2>3. u \in Desks /\ u.state = "UNWINDING"
    BY <1>1, <1>3, TimesAssumption DEF Desks, Ages
  <2> HIDE DEF u
  <2>4. tried \in Desks /\ tried.state = "UNWINDING"
    <3>1. ("unwind" \in yes) \in BOOLEAN
      OBVIOUS
    <3> QED BY <2>3, <3>1 DEF Desks
  <2>5. taken \in Desks /\ taken.state = "UNWINDING"
    <3>1. 0 \in Ages(TakerAfter)
      BY TimesAssumption DEF Ages
    <3> QED BY <2>3, <3>1 DEF Desks
  <2> HIDE DEF tried, taken
  <2>6. out \in Sides /\ Abs(r.net) \in Int
    BY <1>1 DEF Sides, Abs, Desks
  <2> HIDE DEF out
  <2>7. ASSUME NEW x \in Desks, x.state = "UNWINDING" PROVE sold(x).state # "FROZEN"
    <3>1. LegMoved(x, Fill(x, out, Abs(r.net)), Sign(out) * Abs(r.net))
      BY <2>6, FillDoes
    <3> QED BY <2>7, <3>1 DEF LegMoved
  <2> QED BY <2>1, <2>2, <2>3, <2>4, <2>5, <2>7
<1> QED BY <1>2, <1>3

\* The net of a desk that is quoted, or not.
LEMMA QuotedNet ==
  ASSUME NEW d \in Desks, NEW allow, NEW yes, NEW moved
  PROVE  LET q == Quoted(d, allow, yes, moved)
         IN q.net = d.net \/ (allow /\ q.net \in {d.net - 1, d.net + 1})
<1> DEFINE h == ApplySide(d, "buy", allow, yes, moved)
           q == ApplySide(h, "sell", allow, yes, moved)
<1>1. "buy" \in Sides /\ "sell" \in Sides /\ Sign("buy") = 1 /\ Sign("sell") = -1
  BY DEF Sides, Sign
<1>2. SameLeg(d, h) \/ (allow /\ Filled(d, h, 1))
  BY <1>1, ApplySideDoes
<1> HIDE DEF h
<1>3. h \in Desks /\ (h.net = d.net \/ (allow /\ h.net = d.net + 1))
  BY <1>2 DEF SameLeg, Filled, LegMoved
<1>4. SameLeg(h, q) \/ (allow /\ Filled(h, q, -1))
  BY <1>1, <1>3, ApplySideDoes
<1> HIDE DEF q
<1>5. q.net = h.net \/ (allow /\ q.net = h.net + -1)
  BY <1>4 DEF SameLeg, Filled, LegMoved
<1>6. d.net \in Int /\ h.net \in Int
  BY <1>3 DEF Desks
<1>7. q.net = d.net \/ (allow /\ q.net \in {d.net - 1, d.net + 1})
  BY <1>3, <1>5, <1>6
<1> QED BY <1>7 DEF Quoted, h, q

LEMMA JudgedNet ==
  ASSUME NEW t, NEW d \in Desks, NEW sky
  PROVE  Judged(t, d, sky) \in Desks /\ Judged(t, d, sky).net = d.net
<1>1. None \in Ages(Timeout + 1)
  BY DEF Ages
<1> QED BY <1>1 DEF Judged, Freeze, Unfreeze, Desks, States

LEMMA AfterTurnLeg ==
  ASSUME NEW t, NEW d, NEW sky, NEW yes, NEW moved, InOrder(d), Leg(d), TakerEnabled
  PROVE  LET n == AfterTurn(t, d, sky, yes, moved).net IN -1 <= n /\ n <= 1
<1> DEFINE r == Rebalanced(d, yes)
           j == Judged(t, r, sky)
<1>1. InOrder(r) /\ r.state # "FROZEN"
  BY RebalancedInOrder, RebalancedLeg
<1> HIDE DEF r
<1>2. /\ r \in Desks /\ r.net \in Int /\ -1 <= r.net /\ r.net <= 1
      /\ r.state \in Legs \/ r.net = 0
  BY <1>1 DEF InOrder, OneLeg, Desks, States, Legs
<1>3. j \in Desks /\ j.net = r.net
  BY <1>2, JudgedNet
<1> HIDE DEF j
<1>4. CASE sky = "down" \/ t \in guarded
  BY <1>2, <1>3, <1>4 DEF AfterTurn, r, j
<1>5. CASE ~(sky = "down" \/ t \in guarded)
  <2> DEFINE q == Quoted(j, Clean(t, r, sky), yes, moved)
  <2>1. AfterTurn(t, d, sky, yes, moved) = q
    BY <1>5 DEF AfterTurn, r, j
  <2>2. q.net = j.net \/ (Clean(t, r, sky) /\ q.net \in {j.net - 1, j.net + 1})
    BY <1>3, QuotedNet
  <2> HIDE DEF q
  <2>3. Clean(t, r, sky) => r.net = 0
    BY <1>2 DEF Clean, Leg
  <2> QED BY <1>2, <1>3, <2>1, <2>2, <2>3
<1> QED BY <1>4, <1>5

LEMMA LegStep ==
  ASSUME DesksInOrder, [Next]_vars, TakerEnabled, NEW t \in Tokens, Leg(desk[t])
  PROVE  Abs(desk'[t].net) <= Abs(desk[t].net)
<1> DEFINE n == desk[t].net
<1>1. InOrder(desk[t]) /\ n \in Int /\ -1 <= n /\ n <= 1 /\ n # 0
  BY DEF DesksInOrder, InOrder, OneLeg, Desks, Leg, Legs
<1>2. desk'[t].net = n \/ (desk'[t].net \in Int /\ -1 <= desk'[t].net /\ desk'[t].net <= 1)
  <2>1. ASSUME NEW s \in Tokens, Turn(s)
        PROVE  desk'[t].net = n \/ (desk'[t].net \in Int /\ -1 <= desk'[t].net /\ desk'[t].net <= 1)
    <3>1. PICK sky, yes, moved : desk' = [desk EXCEPT ![s] = AfterTurn(s, desk[s], sky, yes, moved)]
      BY <2>1 DEF Turn
    <3>2. InOrder(AfterTurn(t, desk[t], sky, yes, moved))
      BY <1>1, AfterTurnInOrder
    <3>3. CASE s = t
      <4>1. desk'[t] = AfterTurn(t, desk[t], sky, yes, moved)
        BY <3>1, <3>3 DEF DesksInOrder
      <4>2. desk'[t].net \in Int
        BY <3>2, <4>1 DEF InOrder, Desks
      <4> QED BY <1>1, <4>1, <4>2, AfterTurnLeg
    <3>4. CASE s # t
      BY <3>1, <3>4 DEF DesksInOrder
    <3> QED BY <3>3, <3>4
  <2>2. CASE Tick
    <3>1. desk[t] \in Desks
      BY <1>1 DEF InOrder
    <3> QED BY <2>2, <3>1 DEF Tick, Desks
  <2>3. ASSUME NEW new \in SUBSET Tokens, Commit(new) PROVE desk'[t].net = 0
    BY <2>3 DEF Commit, Fresh
  <2>4. CASE Guard
    <3>1. desk[t] \in Desks
      BY <1>1 DEF InOrder
    <3> QED BY <2>4, <3>1 DEF Guard, Desks
  <2>5. CASE LiftGuard \/ Settle \/ UNCHANGED vars
    BY <2>5 DEF LiftGuard, Settle, vars
  <2> QED BY <2>1, <2>2, <2>3, <2>4, <2>5 DEF Next
<1> QED BY <1>1, <1>2 DEF Abs

\* As long as crossing is enabled, a leg the state machine knows of is never
\* added to: it is hedged, sold whole or left, or forgotten by a swap.
THEOREM LegCorrect == Spec => LegNeverGrows
<1>1. DesksInOrder /\ [Next]_vars =>
        (TakerEnabled => \A t \in Tokens : Leg(desk[t]) => Abs(desk'[t].net) <= Abs(desk[t].net))
  BY LegStep
<1> QED BY <1>1, AlwaysInOrder, PTL DEF Spec, LegNeverGrows
=============================================================================
