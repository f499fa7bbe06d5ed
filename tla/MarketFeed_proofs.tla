-------------------------- MODULE MarketFeed_proofs --------------------------
(***************************************************************************)
(* The selection respects its slots and its dwelling times; the market     *)
(* feed never loses a change of the tokens it should follow, and is        *)
(* pointed at the active markets: for any number of markets and slots, any *)
(* dwelling time and any number of failures.                               *)
(***************************************************************************)
EXTENDS MarketFeed, FiniteSetTheorems, TLAPS

(***************************************************************************)
(* The order of the active markets is forgotten, but not that it is one:   *)
(* a bijection from as many places as there are active markets.            *)
(***************************************************************************)
Ordered ==
  /\ active \in [1..Cardinality(Members(active)) -> Members(active)]
  /\ Distinct(active)

Slotted ==
  /\ Members(candidates) \subseteq Markets
  /\ Members(active) \subseteq Members(candidates)
  /\ Cardinality(Members(active)) <= MaxActive
  /\ Cardinality(Members(active)) < MaxActive => Members(active) = Members(candidates)

DweltOK == dwelt \in [Members(active) -> 0..DwellMs]

SelectionInv ==
  /\ candidates \in Seq(Markets)
  /\ Ordered
  /\ Slotted
  /\ DweltOK

LEMMA RankingType ==
  ASSUME NEW ranking \in Rankings
  PROVE  ranking \in Seq(Markets) /\ Members(ranking) \subseteq Markets
<1>1. PICK n \in 0..Cardinality(Markets) : ranking \in [1..n -> Markets]
  BY DEF Rankings
<1>2. Cardinality(Markets) \in Nat
  BY SelectionAssumption, FS_CardinalityType
<1>3. n \in Nat
  BY <1>1, <1>2
<1>4. DOMAIN ranking = 1..n /\ \A i \in 1..n : ranking[i] \in Markets
  BY <1>1
<1> QED BY <1>1, <1>3, <1>4 DEF Members

(***************************************************************************)
(* The markets that are kept and those that fill the other slots are no    *)
(* more than the slots, and all candidates if they are fewer.              *)
(***************************************************************************)
LEMMA ChosenFit ==
  ASSUME NEW ranking \in Rankings, NEW kept \in SUBSET Members(ranking),
         NEW best \in Fillers(ranking, kept), Cardinality(kept) <= MaxActive
  PROVE  /\ kept \cup best \subseteq Members(ranking)
         /\ Cardinality(kept \cup best) \in Nat
         /\ Cardinality(kept \cup best) <= MaxActive
         /\ Cardinality(kept \cup best) < MaxActive => kept \cup best = Members(ranking)
<1> DEFINE others == Members(ranking) \ kept
<1>1. IsFiniteSet(Members(ranking))
  BY RankingType, SelectionAssumption, FS_Subset
<1>2. /\ best \in SUBSET others
      /\ Cardinality(best) = Smaller(Slots(kept), Cardinality(others))
  BY DEF Fillers
<1>3. IsFiniteSet(kept) /\ IsFiniteSet(others) /\ IsFiniteSet(best)
  <2>1. others \in SUBSET Members(ranking) /\ best \in SUBSET Members(ranking)
    BY <1>2
  <2> QED BY <1>1, <2>1, FS_Subset
<1>4. /\ Cardinality(kept) \in Nat
      /\ Cardinality(others) \in Nat
      /\ Cardinality(best) \in Nat
  BY <1>3, FS_CardinalityType
<1>5. Cardinality(kept \cup best) = Cardinality(kept) + Cardinality(best)
  <2>1. kept \cap best = {}
    BY <1>2
  <2>2. Cardinality(kept \cup best)
          = Cardinality(kept) + Cardinality(best) - Cardinality(kept \cap best)
    BY <1>3, FS_Union
  <2>3. Cardinality(kept \cap best) = 0
    BY <2>1, FS_EmptySet
  <2> QED BY <2>2, <2>3, <1>4
<1>6. /\ Cardinality(best) <= MaxActive - Cardinality(kept)
      /\ Cardinality(best) < MaxActive - Cardinality(kept)
           => Cardinality(best) = Cardinality(others)
  BY <1>2, <1>4, SelectionAssumption DEF Smaller, Slots
<1>7. Cardinality(best) = Cardinality(others) => best = others
  BY <1>2, <1>3, FS_Subset
<1>8. kept \cup others = Members(ranking)
  OBVIOUS
<1> HIDE DEF others
<1>9. Cardinality(kept \cup best) < MaxActive => kept \cup best = Members(ranking)
  BY <1>4, <1>5, <1>6, <1>7, <1>8, SelectionAssumption
<1> QED BY <1>2, <1>4, <1>5, <1>6, <1>9, SelectionAssumption DEF others

LEMMA SelectStep ==
  ASSUME SelectionInv, NEW ranking \in Rankings, Select(ranking)
  PROVE  SelectionInv' /\ Protected(ranking) \subseteq Members(active')
<1> DEFINE kept == Protected(ranking)
<1>1. PICK best \in Fillers(ranking, kept) : active' \in Arrangements(ranking, kept, best)
  BY DEF Select
<1>2. kept \subseteq Members(active) /\ kept \subseteq Members(ranking)
  BY DEF Protected
<1>3. Members(active) \subseteq Markets /\ IsFiniteSet(Members(active))
  BY SelectionAssumption, FS_Subset DEF SelectionInv, Slotted
<1>4. Cardinality(kept) <= MaxActive
  <2>1. Cardinality(kept) <= Cardinality(Members(active))
    BY <1>2, <1>3, FS_Subset
  <2>2. IsFiniteSet(kept)
    BY <1>2, <1>3, FS_Subset
  <2>3. Cardinality(kept) \in Nat /\ Cardinality(Members(active)) \in Nat
    BY <2>2, <1>3, FS_CardinalityType
  <2> HIDE DEF kept
  <2> QED BY <2>1, <2>3, SelectionAssumption DEF SelectionInv, Slotted
<1>5. /\ active' \in [1..Cardinality(kept \cup best) -> kept \cup best]
      /\ Distinct(active')
      /\ Members(active') = kept \cup best
  BY <1>1 DEF Arrangements
<1>6. candidates' = ranking /\ dwelt' = DweltAfter(active')
  BY DEF Select
<1> HIDE DEF kept
<1>7. /\ kept \cup best \subseteq Members(ranking)
      /\ Cardinality(kept \cup best) <= MaxActive
      /\ Cardinality(kept \cup best) < MaxActive => kept \cup best = Members(ranking)
  BY <1>1, <1>2, <1>4, ChosenFit
<1>8. candidates' \in Seq(Markets) /\ Members(candidates') \subseteq Markets
  BY <1>6, RankingType
<1>9. Ordered'
  BY <1>5 DEF Ordered
<1>10. Slotted'
  BY <1>5, <1>6, <1>7, <1>8 DEF Slotted
<1>11. DweltOK'
  <2>1. dwelt' = [m \in Members(active') |-> IF m \in Members(active) THEN dwelt[m] ELSE 0]
    BY <1>6 DEF DweltAfter
  <2>2. \A m \in Members(active) : dwelt[m] \in 0..DwellMs
    BY DEF SelectionInv, DweltOK
  <2>3. 0 \in 0..DwellMs
    BY SelectionAssumption
  <2> QED BY <2>1, <2>2, <2>3 DEF DweltOK
<1> QED BY <1>5, <1>8, <1>9, <1>10, <1>11 DEF SelectionInv, kept

LEMMA TickStep ==
  ASSUME SelectionInv, Tick
  PROVE  SelectionInv'
<1>1. candidates' = candidates /\ active' = active
  BY DEF Tick
<1>2. dwelt' = [m \in Members(active) |-> IF dwelt[m] < DwellMs THEN dwelt[m] + 1 ELSE DwellMs]
  BY DEF Tick
<1>3. \A m \in Members(active) : dwelt[m] \in 0..DwellMs
  BY DEF SelectionInv, DweltOK
<1>4. \A m \in Members(active) :
        (IF dwelt[m] < DwellMs THEN dwelt[m] + 1 ELSE DwellMs) \in 0..DwellMs
  BY <1>3, SelectionAssumption
<1>5. DweltOK'
  BY <1>1, <1>2, <1>4 DEF DweltOK
<1> QED BY <1>1, <1>5 DEF SelectionInv, Ordered, Slotted

LEMMA InitInv == SelectionInit => SelectionInv
<1> SUFFICES ASSUME SelectionInit PROVE SelectionInv
  OBVIOUS
<1>1. candidates = <<>> /\ active = <<>> /\ dwelt = [m \in {} |-> 0]
  BY DEF SelectionInit
<1>2. DOMAIN active = {} /\ DOMAIN candidates = {}
  BY <1>1
<1>3. Members(active) = {} /\ Members(candidates) = {}
  BY <1>2 DEF Members
<1>4. Cardinality(Members(active)) = 0
  BY <1>3, FS_EmptySet
<1>5. Ordered
  <2>1. active \in [1..0 -> {}]
    BY <1>1
  <2> QED BY <2>1, <1>2, <1>3, <1>4 DEF Ordered, Distinct
<1>6. Slotted
  BY <1>3, <1>4, SelectionAssumption DEF Slotted
<1>7. DweltOK
  BY <1>1, <1>3 DEF DweltOK
<1> QED BY <1>1, <1>5, <1>6, <1>7 DEF SelectionInv

LEMMA SelectionStep == SelectionInv /\ [SelectionNext]_selection => SelectionInv'
<1> SUFFICES ASSUME SelectionInv, [SelectionNext]_selection PROVE SelectionInv'
  OBVIOUS
<1>1. CASE \E ranking \in Rankings : Select(ranking)
  BY <1>1, SelectStep
<1>2. CASE Tick
  BY <1>2, TickStep
<1>3. CASE UNCHANGED selection
  BY <1>3 DEF selection, SelectionInv, Ordered, Slotted, DweltOK
<1> QED BY <1>1, <1>2, <1>3 DEF SelectionNext

LEMMA ActiveLength ==
  ASSUME SelectionInv
  PROVE  /\ active \in Seq(Markets)
         /\ Len(active) = Cardinality(Members(active))
<1> DEFINE n == Cardinality(Members(active))
<1>1. Members(active) \subseteq Markets
  BY DEF SelectionInv, Slotted
<1>2. n \in Nat
  <2>1. IsFiniteSet(Members(active))
    BY <1>1, SelectionAssumption, FS_Subset
  <2> QED BY <2>1, FS_CardinalityType
<1>3. active \in [1..n -> Members(active)]
  BY DEF SelectionInv, Ordered
<1> HIDE DEF n
<1>4. active \in Seq(Markets)
  BY <1>1, <1>2, <1>3
<1>5. Len(active) = n
  <2>1. DOMAIN active = 1..n /\ DOMAIN active = 1..Len(active) /\ Len(active) \in Nat
    BY <1>3, <1>4
  <2> QED BY <2>1, <1>2
<1> QED BY <1>4, <1>5 DEF n

\* Candidates, active markets and dwelling times keep their types; above all
\* a dwelling time is kept for exactly the active markets.
THEOREM SelectionTypeCorrect == SelectionSpec => []SelectionTypeOK
<1>1. SelectionInv => SelectionTypeOK
  BY ActiveLength DEF SelectionTypeOK, SelectionInv, DweltOK
<1> QED BY <1>1, InitInv, SelectionStep, PTL DEF SelectionSpec

\* However rankings and dwelling times fall, there are never more active
\* markets than slots, and none twice.
THEOREM SlotsRespectedCorrect == SelectionSpec => []SlotsRespected
<1>1. SelectionInv => SlotsRespected
  BY ActiveLength DEF SlotsRespected, SelectionInv, Ordered, Slotted
<1> QED BY <1>1, InitInv, SelectionStep, PTL DEF SelectionSpec

\* No slot stays empty while a candidate is left out.
THEOREM SlotsUsedCorrect == SelectionSpec => []SlotsUsed
<1>1. SelectionInv => SlotsUsed
  BY ActiveLength DEF SlotsUsed, SelectionInv, Slotted
<1> QED BY <1>1, InitInv, SelectionStep, PTL DEF SelectionSpec

\* A market that is still a candidate outlives its dwelling time.
THEOREM DwellRespectedCorrect == SelectionSpec => DwellRespected
<1> DEFINE Kept ==
      \A m \in Members(active) :
        m \notin Members(active') => dwelt[m] >= DwellMs \/ m \notin Members(candidates')
<1>1. SelectionInv /\ [SelectionNext]_selection => [Kept]_selection
  <2> SUFFICES ASSUME SelectionInv, [SelectionNext]_selection PROVE [Kept]_selection
    OBVIOUS
  <2>1. ASSUME NEW ranking \in Rankings, Select(ranking) PROVE Kept
    <3>1. Protected(ranking) \subseteq Members(active') /\ candidates' = ranking
      BY <2>1, SelectStep DEF Select
    <3>2. \A m \in Members(active) : dwelt[m] \in 0..DwellMs
      BY DEF SelectionInv, DweltOK
    <3> QED BY <3>1, <3>2, SelectionAssumption DEF Protected
  <2>2. CASE Tick
    BY <2>2 DEF Tick
  <2> QED BY <2>1, <2>2 DEF SelectionNext
<1> QED BY <1>1, InitInv, SelectionStep, PTL DEF SelectionSpec, DwellRespected

-----------------------------------------------------------------------------
(***************************************************************************)
(* The feed.                                                               *)
(***************************************************************************)

(***************************************************************************)
(* While a payload is being sent it is what is desired, unless a reconnect *)
(* is due: the change came after the payload was made.                     *)
(***************************************************************************)
SendsDesired == pc = "sending" /\ ~reconnect => sending = desired

FollowInv == SendsDesired /\ NoLostChange

\* The tokens change only together with the reconnect event.
LEMMA SetTokenIdsTells ==
  ASSUME NEW tokens, SetTokenIds(tokens), ~reconnect'
  PROVE  ~reconnect /\ desired' = desired
BY DEF SetTokenIds

LEMMA FollowStep == FollowInv /\ [Next]_vars => FollowInv'
<1> SUFFICES ASSUME FollowInv, [Next]_vars PROVE FollowInv'
  OBVIOUS
<1> USE DEF FollowInv, SendsDesired, NoLostChange
<1>1. CASE \E ranking \in Rankings : Refresh(ranking)
  <2> PICK ranking \in Rankings : Refresh(ranking)
    BY <1>1
  <2>1. UNCHANGED <<pc, reported, sending, subscribed>>
    BY DEF Refresh
  <2>2. ~reconnect' => ~reconnect /\ desired' = desired
    BY SetTokenIdsTells DEF Refresh
  <2> QED BY <2>1, <2>2
<1>2. CASE PassTime
  BY <1>2 DEF PassTime, feed
<1>3. CASE Stop
  BY <1>3 DEF Stop
<1>4. CASE Connect
  BY <1>4 DEF Connect
<1>5. CASE Subscribe
  BY <1>5 DEF Subscribe
<1>6. CASE Subscribed
  BY <1>6 DEF Subscribed
<1>7. CASE Reconnect
  BY <1>7 DEF Reconnect
<1>8. CASE Fail
  BY <1>8 DEF Fail
<1>9. CASE Leave
  BY <1>9 DEF Leave
<1>10. CASE UNCHANGED vars
  BY <1>10 DEF vars, feed
<1> QED BY <1>1, <1>2, <1>3, <1>4, <1>5, <1>6, <1>7, <1>8, <1>9, <1>10 DEF Next

\* The feed waiting for messages with no reconnect due is subscribed to what
\* is desired and reports it: no change of the tokens is lost, at whichever
\* await of the feed it happens.
THEOREM NoLostChangeCorrect == Spec => []NoLostChange
<1>1. Init => FollowInv
  BY DEF Init, FollowInv, SendsDesired, NoLostChange
<1>2. FollowInv => NoLostChange
  BY DEF FollowInv
<1> QED BY <1>1, <1>2, FollowStep, PTL DEF Spec

-----------------------------------------------------------------------------

(***************************************************************************)
(* The selection steps as the script takes them.                           *)
(***************************************************************************)
LEMMA SelectionSteps == [Next]_vars => [SelectionNext]_selection
<1> SUFFICES ASSUME [Next]_vars PROVE [SelectionNext]_selection
  OBVIOUS
<1>1. CASE \E ranking \in Rankings : Refresh(ranking)
  BY <1>1 DEF Refresh, SelectionNext
<1>2. CASE PassTime
  BY <1>2 DEF PassTime, SelectionNext
<1>3. CASE Stop \/ Connect \/ Subscribe \/ Subscribed \/ Reconnect \/ Fail \/ Leave
  BY <1>3 DEF Stop, Connect, Subscribe, Subscribed, Reconnect, Fail, Leave
<1>4. CASE UNCHANGED vars
  BY <1>4 DEF vars
<1> QED BY <1>1, <1>2, <1>3, <1>4 DEF Next

LEMMA SelectionKept == SelectionInv /\ [Next]_vars => SelectionInv'
BY SelectionSteps, SelectionStep

\* Whether a market is active shows in the members.
ShownByMembers == active = <<>> <=> Members(active) = {}

LEMMA ActiveMembers == SelectionInv => ShownByMembers
<1> SUFFICES ASSUME SelectionInv PROVE ShownByMembers
  OBVIOUS
<1>1. active \in Seq(Markets)
  BY ActiveLength
<1>2. active = <<>> => Members(active) = {}
  BY DEF Members
<1>3. active # <<>> => 1 \in DOMAIN active
  BY <1>1
<1> QED BY <1>2, <1>3 DEF Members, ShownByMembers

LEMMA DesiredStep ==
  SelectionInv /\ SelectionDesired /\ [Next]_vars => SelectionDesired'
<1> SUFFICES ASSUME SelectionInv, SelectionDesired, [Next]_vars PROVE SelectionDesired'
  OBVIOUS
<1>1. CASE \E ranking \in Rankings : Refresh(ranking)
  <2> PICK ranking \in Rankings : Refresh(ranking)
    BY <1>1
  <2>1. CASE active' # <<>> /\ Changed
    BY <2>1 DEF Refresh, SetTokenIds, SelectionDesired
  <2>2. CASE active' # <<>> /\ ~Changed
    <3>1. Members(active') = Members(active) /\ desired' = desired
      BY <2>2 DEF Refresh, Changed
    <3>2. ShownByMembers /\ ShownByMembers'
      BY SelectionKept, ActiveMembers, PTL
    <3>3. active # <<>>
      BY <2>2, <3>1, <3>2 DEF ShownByMembers
    <3> QED BY <3>1, <3>3 DEF SelectionDesired
  <2>3. CASE active' = <<>>
    BY <2>3 DEF SelectionDesired
  <2> QED BY <2>1, <2>2, <2>3
<1>2. CASE PassTime
  BY <1>2 DEF PassTime, Tick, feed, SelectionDesired
<1>3. CASE Stop \/ Connect \/ Subscribe \/ Subscribed \/ Reconnect \/ Fail \/ Leave
  BY <1>3 DEF Stop, Connect, Subscribe, Subscribed, Reconnect, Fail, Leave, selection,
              SelectionDesired
<1>4. CASE UNCHANGED vars
  BY <1>4 DEF vars, selection, feed, SelectionDesired
<1> QED BY <1>1, <1>2, <1>3, <1>4 DEF Next

\* The feed is pointed at exactly the active markets, although the script
\* tells it of changes only, and not when the selection becomes empty.
THEOREM SelectionDesiredCorrect == Spec => []SelectionDesired
<1>1. Init => SelectionInv /\ SelectionDesired
  BY InitInv DEF Init, SelectionInit, SelectionDesired
<1> QED BY <1>1, SelectionKept, DesiredStep, PTL DEF Spec

-----------------------------------------------------------------------------

LEMMA FeedTypeStep == SelectionInv /\ FeedTypeOK /\ [Next]_vars => FeedTypeOK'
<1> SUFFICES ASSUME SelectionInv, FeedTypeOK, [Next]_vars PROVE FeedTypeOK'
  OBVIOUS
<1> USE DEF FeedTypeOK, Places
<1>1. CASE \E ranking \in Rankings : Refresh(ranking)
  <2> PICK ranking \in Rankings : Refresh(ranking)
    BY <1>1
  <2>1. Members(active') \subseteq Markets
    BY SelectionKept DEF SelectionInv, Slotted
  <2>2. desired' \subseteq Markets /\ reconnect' \in BOOLEAN
    <3>1. CASE active' # <<>> /\ Changed
      BY <2>1, <3>1 DEF Refresh, SetTokenIds
    <3>2. CASE ~(active' # <<>> /\ Changed)
      BY <3>2 DEF Refresh
    <3> QED BY <3>1, <3>2
  <2> QED BY <2>2 DEF Refresh
<1>2. CASE PassTime
  BY <1>2 DEF PassTime, feed
<1>3. CASE Stop
  BY <1>3 DEF Stop
<1>4. CASE Connect
  BY <1>4 DEF Connect
<1>5. CASE Subscribe
  BY <1>5 DEF Subscribe
<1>6. CASE Subscribed
  BY <1>6 DEF Subscribed
<1>7. CASE Reconnect
  BY <1>7 DEF Reconnect
<1>8. CASE Fail
  BY <1>8, FailuresAssumption DEF Fail
<1>9. CASE Leave
  BY <1>9 DEF Leave
<1>10. CASE UNCHANGED vars
  BY <1>10 DEF vars, feed
<1> QED BY <1>1, <1>2, <1>3, <1>4, <1>5, <1>6, <1>7, <1>8, <1>9, <1>10 DEF Next

\* The feed stays within its places and its tokens are those of markets the
\* selector may find.
THEOREM TypeCorrect == Spec => []TypeOK
<1>1. Init => SelectionInv /\ FeedTypeOK
  <2> SUFFICES ASSUME Init PROVE SelectionInv /\ FeedTypeOK
    OBVIOUS
  <2>1. SelectionInv
    BY InitInv DEF Init
  <2>2. FeedTypeOK
    <3>1. failures \in 0..MaxFailures
      BY FailuresAssumption DEF Init
    <3>2. /\ pc \in Places
          /\ {desired, reported, sending, subscribed} \subseteq SUBSET Markets
          /\ reconnect \in BOOLEAN
          /\ stopping \in BOOLEAN
      BY DEF Init, Places
    <3> QED BY <3>1, <3>2 DEF FeedTypeOK
  <2> QED BY <2>1, <2>2
<1>2. SelectionInv /\ FeedTypeOK => TypeOK
  BY ActiveLength DEF TypeOK, SelectionTypeOK, SelectionInv, DweltOK
<1> QED BY <1>1, <1>2, SelectionKept, FeedTypeStep, PTL DEF Spec
=============================================================================
