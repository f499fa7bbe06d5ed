-------------------------- MODULE MarketSelection --------------------------
(***************************************************************************)
(* Which markets are active: CoreMMRunner.refresh_market_selection         *)
(* (core_mm/runner.py).  A refresh takes the selector's candidates, best   *)
(* first, keeps the active markets that are still candidates and have not  *)
(* been active for market_dwell_ms, and fills the other slots from the     *)
(* top.                                                                    *)
(*                                                                         *)
(* Data.  The candidates are any ranking.  _market_dwell_at is kept as the *)
(* time each market has been active, which stops counting at DwellMs.      *)
(***************************************************************************)
EXTENDS Integers, Sequences, FiniteSets

CONSTANTS
  Markets,     \* markets the selector may find
  MaxActive,   \* max_active_markets
  DwellMs      \* market_dwell_ms

ASSUME SelectionAssumption ==
  /\ IsFiniteSet(Markets)
  /\ MaxActive \in Nat \ {0}
  /\ DwellMs \in Nat

VARIABLES
  candidates,  \* what the last refresh was given, best first
  active,      \* active markets, in the order they are quoted
  dwelt        \* how long each of them has been active

selection == <<candidates, active, dwelt>>

Members(s) == {s[i] : i \in DOMAIN s}
Distinct(s) == \A i, j \in DOMAIN s : s[i] = s[j] => i = j
Rankings == {s \in UNION {[1..n -> Markets] : n \in 0..Cardinality(Markets)} : Distinct(s)}

SelectionTypeOK ==
  /\ candidates \in Seq(Markets)
  /\ active \in Seq(Markets)
  /\ dwelt \in [Members(active) -> 0..DwellMs]

SelectionInit ==
  /\ candidates = <<>>
  /\ active = <<>>
  /\ dwelt = [m \in {} |-> 0]

\* Variant: a market that is no candidate any more is protected too.
BugProtected(ranking) == {m \in Members(active) : dwelt[m] < DwellMs}

\* Variant: protection ends one refresh early.
BugProtectedEarly(ranking) ==
  {m \in Members(active) \cap Members(ranking) : dwelt[m] + 1 < DwellMs}

\* Variant: protection never ends.
BugProtectedForever(ranking) == Members(active) \cap Members(ranking)

\* Active markets that are still candidates and may not be evicted yet.
Protected(ranking) ==
  {m \in Members(active) \cap Members(ranking) : dwelt[m] < DwellMs}

Rank(ranking, m) == CHOOSE i \in DOMAIN ranking : ranking[i] = m

\* Variant: the slots of the protected markets are given away as well.
BugSlots(kept) == MaxActive

\* The slots that are left for other candidates.
Slots(kept) == MaxActive - Cardinality(kept)

Smaller(m, n) == IF m < n THEN m ELSE n

\* The best of the others, as many as there are slots for.
Fillers(ranking, kept) ==
  LET others == Members(ranking) \ kept
  IN  {best \in SUBSET others :
         /\ Cardinality(best) = Smaller(Slots(kept), Cardinality(others))
         /\ \A m \in best, n \in others \ best : Rank(ranking, m) < Rank(ranking, n)}

\* The protected markets come first, in the order of a Python set; the
\* fillers keep their ranking.
Arrangements(ranking, kept, best) ==
  {s \in [1..Cardinality(kept \cup best) -> kept \cup best] :
     /\ Distinct(s)
     /\ Members(s) = kept \cup best
     /\ \A i, j \in DOMAIN s : i < j =>
          \/ s[i] \in kept
          \/ s[j] \in best /\ Rank(ranking, s[i]) < Rank(ranking, s[j])}

\* Variant: the entries of dropped markets are kept.
BugDweltKept(next) ==
  [m \in Members(next) \cup Members(active) |-> IF m \in Members(active) THEN dwelt[m] ELSE 0]

DweltAfter(next) ==
  [m \in Members(next) |-> IF m \in Members(active) THEN dwelt[m] ELSE 0]

Select(ranking) ==
  /\ candidates' = ranking
  /\ \E best \in Fillers(ranking, Protected(ranking)) :
       active' \in Arrangements(ranking, Protected(ranking), best)
  /\ dwelt' = DweltAfter(active')

Tick ==
  /\ \E m \in Members(active) : dwelt[m] < DwellMs
  /\ dwelt' = [m \in Members(active) |-> IF dwelt[m] < DwellMs THEN dwelt[m] + 1 ELSE DwellMs]
  /\ UNCHANGED <<candidates, active>>

\* Variant: only the number of active markets is compared.
BugChanged == Len(active') # Len(active)

\* What refresh_market_selection returns.
Changed == Members(active') # Members(active)

SelectionNext == (\E ranking \in Rankings : Select(ranking)) \/ Tick

SelectionSpec == SelectionInit /\ [][SelectionNext]_selection

-----------------------------------------------------------------------------
(* Properties.                                                             *)

\* Protected markets reserve their slots, and the rest is filled up: never
\* more than max_active_markets and none twice, whatever the rankings were.
SlotsRespected == Len(active) <= MaxActive /\ Distinct(active)

\* No slot stays empty while a candidate is left out, and nothing is active
\* that was not a candidate at the last refresh.
SlotsUsed ==
  /\ Members(active) \subseteq Members(candidates)
  /\ Len(active) < MaxActive => Members(active) = Members(candidates)

\* A market that is still a candidate is not dropped before its dwelling time
\* is over, across refreshes with other rankings and its moves between slots.
DwellRespected ==
  [][\A m \in Members(active) :
       m \notin Members(active') =>
         dwelt[m] >= DwellMs \/ m \notin Members(candidates')]_selection
=============================================================================
