------------------------- MODULE RuntimeFeeds_proofs -------------------------
(***************************************************************************)
(* What holds of the runtime's feeds for all values of their constants.    *)
(* The rollover loop commits the runtime only to a market its stream still *)
(* takes messages of, and between attempts the stream waits for nothing;   *)
(* discovery forgets its troubles and selects from recent data only; the   *)
(* reference price is never old and returns after its troubles.            *)
(***************************************************************************)
EXTENDS RuntimeFeeds, TLAPS

(***************************************************************************)
(* What the stream waits for at each place of the attempt: its candidate,  *)
(* or the market of the runtime on the way back; and what was adopted is   *)
(* the candidate.  Only an attempt that has a connection of its own made   *)
(* for the pending tokens tells the connection so.                         *)
(***************************************************************************)
WaitsFor ==
  /\ phase \in {"switch", "reswitch"} => pending = cand /\ cand \in Markets
  /\ phase \in {"back", "reback"} => pending = market
  /\ onPending => phase \in {"reswitch", "reback"}
AdoptsCand == phase = "commit" => active = cand /\ applied = cand

StreamInv == WaitsFor /\ AdoptsCand /\ IdleListens

LEMMA StreamStep == StreamInv /\ [Next]_vars => StreamInv'
<1> SUFFICES ASSUME StreamInv, [Next]_vars PROVE StreamInv'
  OBVIOUS
<1> USE DEF StreamInv, WaitsFor, AdoptsCand, IdleListens
<1>1. CASE Attempt
  BY <1>1 DEF Attempt, stream
<1>2. CASE NothingToDo
  BY <1>2 DEF NothingToDo, Idle, stream
<1>3. CASE Unfit
  BY <1>3 DEF Unfit, Idle, stream
<1>4. ASSUME NEW c \in Markets, Switch(c) PROVE StreamInv'
  BY <1>4 DEF Switch, Point
<1>5. ASSUME NEW c \in Markets, SwitchRefused(c) PROVE StreamInv'
  BY <1>5 DEF SwitchRefused, Idle, stream
<1>6. ASSUME NEW c \in Markets, Grow(c) \/ Settle(c) PROVE StreamInv'
  BY <1>6 DEF Grow, Settle, loop, stream
<1>7. CASE Broken
  BY <1>7 DEF Broken
<1>8. CASE Hear
  BY <1>8 DEF Hear, loop
<1>9. CASE Confirmed
  <2>1. PICK ready \in BOOLEAN : Decide(ready)
    BY <1>9 DEF Confirmed
  <2>2. CASE Commits(ready)
    BY <1>9, <2>1, <2>2 DEF Confirmed, Decide, Adopt, Forget
  <2>3. CASE ~Commits(ready)
    BY <1>9, <2>1, <2>3 DEF Confirmed, Decide, PointBack
  <2> QED BY <2>2, <2>3
<1>10. CASE Commit
  BY <1>10 DEF Commit, stream
<1>11. CASE CommitFails
  BY <1>11 DEF CommitFails, PointBack, Idle, stream
<1>12. CASE Restored
  BY <1>12 DEF Restored, Adopt, Forget, Idle
<1>13. CASE Reconnects
  BY <1>13 DEF Reconnects
<1>14. CASE GiveUp
  BY <1>14 DEF GiveUp, Forget, Idle
<1>15. CASE Connect \/ Drop
  BY <1>15 DEF Connect, Drop, loop
<1>16. CASE Thaw \/ Prune
  BY <1>16 DEF Thaw, Prune, loop, stream
<1>17. CASE UNCHANGED vars
  BY <1>17 DEF vars, loop, stream
<1> QED BY <1>1, <1>2, <1>3, <1>4, <1>5, <1>6, <1>7, <1>8, <1>9, <1>10, <1>11, <1>12,
           <1>13, <1>14, <1>15, <1>16, <1>17 DEF Next

LEMMA StreamStart == Init => StreamInv
BY DEF Init, StreamInv, WaitsFor, AdoptsCand, IdleListens

LEMMA StreamAlways == Spec => []StreamInv
BY StreamStart, StreamStep, PTL DEF Spec

\* Between attempts, and while the runtime waits to be swapped, the stream has
\* nothing pending, tells no connection otherwise, and counts the messages of
\* the tokens a new connection would subscribe.
THEOREM IdleListensCorrect == Spec => []IdleListens
<1>1. StreamInv => IdleListens
  BY DEF StreamInv
<1> QED BY <1>1, StreamAlways, PTL

-----------------------------------------------------------------------------

\* Whatever is not the commit leaves the runtime's market alone.
LEMMA MarketKept == [Next]_vars => market' = market \/ Commit
<1> SUFFICES ASSUME [Next]_vars, ~Commit PROVE market' = market
  OBVIOUS
<1>1. CASE Attempt \/ NothingToDo \/ Unfit \/ Broken \/ Hear
  BY <1>1 DEF Attempt, NothingToDo, Unfit, Idle, Broken, Hear, loop
<1>2. ASSUME NEW c \in Markets, Switch(c) \/ SwitchRefused(c) \/ Grow(c) \/ Settle(c)
      PROVE market' = market
  BY <1>2 DEF Switch, SwitchRefused, Idle, Grow, Settle, loop
<1>3. CASE Confirmed \/ CommitFails \/ Restored \/ Reconnects \/ GiveUp
  BY <1>3 DEF Confirmed, CommitFails, Restored, Reconnects, GiveUp, Idle
<1>4. CASE Connect \/ Drop \/ Thaw \/ Prune \/ UNCHANGED vars
  BY <1>4 DEF Connect, Drop, Thaw, Prune, vars, loop
<1> QED BY <1>1, <1>2, <1>3, <1>4 DEF Next

\* The runtime is swapped only to a market the stream has confirmed and still
\* takes the messages of, however long the runtime's lock was waited for and
\* whatever its connection did meanwhile.
THEOREM CommittedIsStreamedCorrect == Spec => CommittedIsStreamed
<1>1. StreamInv /\ [Next]_vars => (market' # market => active = market' /\ applied = market')
  BY MarketKept DEF StreamInv, AdoptsCand, Commit
<1> QED BY <1>1, StreamAlways, PTL DEF Spec, CommittedIsStreamed

-----------------------------------------------------------------------------

\* TypeOK by parts: the loop's, the stream's, the gate's and the world's.
LoopType == /\ {market, books} \subseteq Markets /\ phase \in Phases
            /\ cand \in Markets \cup {None} /\ old \in Ages
StreamType == /\ active \in Markets /\ applied \in Markets \cup {None}
              /\ pending \in Markets \cup {None} /\ heard \in {"nothing", "some", "enough"}
              /\ onPending \in BOOLEAN /\ wire \in Markets \cup {Down}
GateType == aborts \in 0 .. Threshold /\ cooling \in BOOLEAN
WorldType == age \in [Markets -> Ages] /\ goal \in Markets \cup {None}

TypeInv == LoopType /\ StreamType /\ GateType /\ WorldType /\ StreamInv

LEMMA CountAbortType == ASSUME GateType, CountAbort PROVE GateType'
BY ThresholdAssumption DEF GateType, CountAbort, AbortsAfter

LEMMA TypeStep == TypeInv /\ [Next]_vars => TypeInv'
<1> SUFFICES ASSUME TypeInv, [Next]_vars
             PROVE  LoopType' /\ StreamType' /\ GateType' /\ WorldType'
  BY StreamStep DEF TypeInv
<1>0. StreamInv
  BY DEF TypeInv
<1> USE DEF TypeInv, LoopType, StreamType, WorldType, Phases
<1>1. CASE Attempt
  BY <1>1 DEF Attempt, stream, gate, GateType
<1>2. CASE NothingToDo
  BY <1>2 DEF NothingToDo, Idle, stream, gate, GateType
<1>3. CASE Unfit
  BY <1>3, CountAbortType DEF Unfit, Idle, stream
<1>4. ASSUME NEW c \in Markets, Switch(c)
      PROVE LoopType' /\ StreamType' /\ GateType' /\ WorldType'
  BY <1>4 DEF Switch, Point, gate, GateType
<1>5. ASSUME NEW c \in Markets, SwitchRefused(c)
      PROVE LoopType' /\ StreamType' /\ GateType' /\ WorldType'
  BY <1>5, CountAbortType DEF SwitchRefused, Idle, stream
<1>6. ASSUME NEW c \in Markets, Grow(c) \/ Settle(c)
      PROVE LoopType' /\ StreamType' /\ GateType' /\ WorldType'
  BY <1>6 DEF Grow, Settle, loop, stream, gate, GateType, Ages
<1>7. CASE Broken
  BY <1>7 DEF Broken, gate, GateType
<1>8. CASE Hear
  BY <1>8 DEF Hear, HeardAfter, loop, gate, GateType
<1>9. CASE Confirmed
  <2>1. PICK ready \in BOOLEAN : Decide(ready)
    BY <1>9 DEF Confirmed
  <2>2. pending \in Markets
    BY <1>0, <1>9 DEF Confirmed, StreamInv, WaitsFor
  <2>3. UNCHANGED <<market, books, cand, old, gate, age, goal>>
    BY <1>9 DEF Confirmed
  <2>4. GateType' /\ WorldType'
    BY <2>3 DEF gate, GateType
  <2>5. CASE Commits(ready)
    BY <2>1, <2>2, <2>3, <2>4, <2>5 DEF Decide, Adopt, Forget
  <2>6. CASE ~Commits(ready)
    BY <2>1, <2>2, <2>3, <2>4, <2>6 DEF Decide, PointBack
  <2> QED BY <2>5, <2>6
<1>10. CASE Commit
  BY <1>0, <1>10 DEF Commit, StreamInv, AdoptsCand, stream, gate, GateType
<1>11. CASE CommitFails
  <2>1. cand \in Markets
    BY <1>0, <1>11 DEF CommitFails, StreamInv, AdoptsCand
  <2>2. CASE PointBack /\ UNCHANGED <<market, cand, old, active, gate>>
    BY <1>11, <2>1, <2>2 DEF CommitFails, PointBack, gate, GateType
  <2>3. CASE Idle /\ CountAbort /\ UNCHANGED stream
    BY <1>11, <2>1, <2>3, CountAbortType DEF CommitFails, Idle, stream
  <2> QED BY <1>11, <2>2, <2>3 DEF CommitFails
<1>12. CASE Restored
  <2>1. pending \in Markets
    BY <1>0, <1>12 DEF Restored, StreamInv, WaitsFor
  <2> QED BY <1>12, <2>1, CountAbortType DEF Restored, Adopt, Forget, Idle
<1>13. CASE Reconnects
  BY <1>13 DEF Reconnects, gate, GateType
<1>14. CASE GiveUp
  BY <1>14, CountAbortType DEF GiveUp, Forget, Idle
<1>15. CASE Connect \/ Drop
  BY <1>15 DEF Connect, ConnectTo, Drop, loop, gate, GateType
<1>16. CASE Thaw \/ Prune
  <2>1. LoopType' /\ StreamType' /\ WorldType'
    BY <1>16 DEF Thaw, Prune, loop, stream
  <2>2. GateType'
    <3>1. CASE Thaw
      <4>1. aborts' = 0 /\ cooling' = FALSE
        BY <3>1 DEF Thaw
      <4>2. 0 \in 0 .. Threshold
        BY ThresholdAssumption
      <4> QED BY <4>1, <4>2 DEF GateType
    <3>2. CASE Prune
      BY <3>2, ThresholdAssumption DEF Prune, GateType
    <3> QED BY <1>16, <3>1, <3>2
  <2> QED BY <2>1, <2>2
<1>17. CASE UNCHANGED vars
  BY <1>17 DEF vars, loop, stream, gate, GateType
<1> QED BY <1>1, <1>2, <1>3, <1>4, <1>5, <1>6, <1>7, <1>8, <1>9, <1>10, <1>11, <1>12,
           <1>13, <1>14, <1>15, <1>16, <1>17 DEF Next

LEMMA TypeStart == Init => TypeInv
<1> SUFFICES ASSUME Init PROVE TypeInv
  OBVIOUS
<1>1. LoopType /\ StreamType
  BY DEF Init, LoopType, StreamType, Phases, Ages
<1>2. GateType
  <2>1. aborts = 0 /\ cooling = FALSE
    BY DEF Init
  <2>2. 0 \in 0 .. Threshold
    BY ThresholdAssumption
  <2> QED BY <2>1, <2>2 DEF GateType
<1>3. WorldType
  BY DEF Init, WorldType, Ages
<1> QED BY <1>1, <1>2, <1>3, StreamStart DEF TypeInv

\* Every step of the loop, the stream and the gate keeps its variables in
\* their types: no wait is for no market, and the gate counts no further than
\* its threshold.
THEOREM TypeCorrect == Spec => []TypeOK
<1>1. TypeInv => TypeOK
  BY DEF TypeInv, LoopType, StreamType, GateType, WorldType, TypeOK
<1> QED BY <1>1, TypeStart, TypeStep, PTL DEF Spec

-----------------------------------------------------------------------------
(* Discovery.                                                               *)

\* The window of a time, and that of one no earlier.
LEMMA WindowOf ==
  ASSUME NEW t \in Nat
  PROVE  /\ t \div Window \in Nat
         /\ (t \div Window) * Window <= t
         /\ t < (t \div Window + 1) * Window
BY DiscoveryConstants DEF D!DiscoveryAssumption

\* A later window begins where an earlier one ends, or after that.
LEMMA Ordered ==
  ASSUME NEW i \in Nat, NEW j \in Nat, i < j PROVE (i + 1) * Window <= j * Window
BY DiscoveryConstants DEF D!DiscoveryAssumption

LEMMA WindowsInOrder ==
  ASSUME NEW t \in Nat, NEW u \in Nat, t <= u PROVE t \div Window <= u \div Window
<1> SUFFICES ASSUME u \div Window < t \div Window PROVE FALSE
  BY WindowOf
<1>1. (u \div Window + 1) * Window <= (t \div Window) * Window
  BY Ordered, WindowOf
<1> QED BY <1>1, WindowOf, DiscoveryConstants DEF D!DiscoveryAssumption

\* One market is open at a time, and it is among those asked for.
LEMMA OpenNow ==
  ASSUME now \in 0..LastTime
  PROVE  /\ D!OpenAt(now) \in D!Slugs
         /\ D!OpenAt(now) \in D!Asked
         /\ D!Active(D!OpenAt(now))
         /\ \A s \in D!Slugs : D!Active(s) => s = D!OpenAt(now)
<1> USE DiscoveryConstants DEF D!DiscoveryAssumption
<1> DEFINE w == now \div Window
<1>1. now \in Nat /\ LastTime \in Nat /\ now <= LastTime /\ w \in Nat
  BY WindowOf
<1>2. w <= LastTime \div Window /\ LastTime \div Window \in Nat
  BY <1>1, WindowsInOrder, WindowOf
<1>3. D!OpenAt(now) \in D!Slugs
  BY <1>1, <1>2 DEF D!OpenAt, D!Slugs
<1>4. D!OpenAt(now) \in D!Asked
  BY <1>1, <1>3 DEF D!OpenAt, D!Asked
<1>5. D!Active(D!OpenAt(now))
  <2>1. w * Window <= now /\ now < (w + 1) * Window
    BY <1>1, WindowOf
  <2>2. D!OpenAt(now) = w + 1 /\ (w + 1) - 1 = w
    BY <1>1 DEF D!OpenAt
  <2> HIDE DEF w
  <2> QED BY <2>1, <2>2 DEF D!Active
<1>6. ASSUME NEW s \in D!Slugs, D!Active(s) PROVE s = D!OpenAt(now)
  <2>1. s \in Nat /\ (s - 1) * Window <= now /\ now < s * Window
    BY <1>2, <1>6 DEF D!Active, D!Slugs
  <2>2. w * Window <= now /\ now < (w + 1) * Window /\ D!OpenAt(now) = w + 1
    BY <1>1, WindowOf DEF D!OpenAt
  <2> HIDE DEF w
  <2>3. s # 0
    BY <1>1, <2>1
  <2>4. ~(w + 1 < s)
    <3> SUFFICES ASSUME w + 1 < s PROVE FALSE
      OBVIOUS
    <3>1. s - 1 \in Nat /\ w < s - 1
      BY <1>1, <2>1
    <3>2. (w + 1) * Window <= (s - 1) * Window
      BY <3>1, <1>1, Ordered
    <3> QED BY <3>2, <3>1, <2>1, <2>2, <1>1
  <2>5. ~(s < w + 1)
    <3> SUFFICES ASSUME s < w + 1 PROVE FALSE
      OBVIOUS
    <3>1. s * Window <= w * Window
      <4>1. CASE s = w  BY <4>1, <1>1
      <4>2. CASE s # w
        <5>1. (s - 1) + 1 = s /\ s - 1 \in Nat /\ s < w
          BY <2>1, <2>3, <4>2, <1>1
        <5>2. (s + 1) * Window <= w * Window
          BY <5>1, <2>1, <1>1, Ordered
        <5> QED BY <5>2, <2>1, <1>1
      <4> QED BY <4>1, <4>2
    <3> QED BY <3>1, <2>1, <2>2, <1>1
  <2> QED BY <2>1, <2>2, <2>4, <2>5, <1>1
<1> QED BY <1>3, <1>4, <1>5, <1>6

-----------------------------------------------------------------------------

(***************************************************************************)
(* What the two files hold.  The listing is as old as its file; what was   *)
(* asked by slug is of the file's own windows; and a file that lacks the   *)
(* market open when it was written was written in trouble, as is every     *)
(* moment at which the open market is not listed.                          *)
(***************************************************************************)
FilesRecent == eventFile.seen = eventFile.at /\ slugFile.at - slugFile.seen <= Ttl
FileAsked == \A s \in slugFile.asked : s <= (slugFile.at \div Window) + Forward
FileLacks ==
  slugFile.written /\ D!OpenAt(slugFile.at) \notin slugFile.found => trouble >= slugFile.at
Unlisted == D!OpenAt(now) \notin listed => trouble = now

DiscoveryInv ==
  /\ D!TypeOK /\ FilesRecent /\ FileAsked /\ FileLacks /\ Unlisted
  /\ AnswersAreRecent /\ TroubleIsForgotten

LEMMA DiscoveryStart == D!Init => DiscoveryInv
<1> SUFFICES ASSUME D!Init PROVE DiscoveryInv
  OBVIOUS
<1> USE DiscoveryConstants DEF D!DiscoveryAssumption, D!Init, D!Nothing, D!Failure
<1>1. D!Slugs \subseteq Nat /\ 0 \in D!Slugs /\ 1 \in D!Slugs
  BY WindowOf DEF D!Slugs
<1>2. D!OpenAt(0) = 1
  BY WindowOf DEF D!OpenAt
<1>3. D!TypeOK
  BY <1>1 DEF D!TypeOK, D!Files
<1>4. FilesRecent /\ FileAsked /\ FileLacks /\ Unlisted
  BY <1>2 DEF FilesRecent, FileAsked, FileLacks, Unlisted
<1>5. AnswersAreRecent /\ TroubleIsForgotten
  BY DEF AnswersAreRecent, D!AnswersAreRecent, TroubleIsForgotten, D!TroubleIsForgotten
<1> QED BY <1>3, <1>4, <1>5 DEF DiscoveryInv

\* A file that is still fresh and was asked for all that is asked for now is of
\* the same window.
LEMMA SameWindow ==
  ASSUME D!TypeOK, FileAsked, D!UsesSlugFile
  PROVE  D!OpenAt(slugFile.at) = D!OpenAt(now) /\ now - slugFile.at <= Ttl /\ slugFile.written
<1> USE DiscoveryConstants DEF D!DiscoveryAssumption
<1>1. now \in Nat /\ now <= LastTime /\ slugFile.at \in Nat /\ slugFile.at <= now
  BY DEF D!TypeOK, D!Files
<1>2. /\ now \div Window \in Nat /\ slugFile.at \div Window \in Nat /\ LastTime \div Window \in Nat
      /\ slugFile.at \div Window <= now \div Window /\ now \div Window <= LastTime \div Window
  BY <1>1, WindowOf, WindowsInOrder
<1>3. (now \div Window) + Forward \in D!Asked
  BY <1>2 DEF D!Asked, D!Slugs
<1>4. (now \div Window) + Forward <= (slugFile.at \div Window) + Forward
  BY <1>3 DEF FileAsked, D!UsesSlugFile
<1> QED BY <1>1, <1>2, <1>4 DEF D!OpenAt, D!UsesSlugFile, D!Fresh

\* What is written now.
LEMMA WrittenNow ==
  ASSUME D!TypeOK, NEW found \in SUBSET D!Slugs, NEW seen \in 0..now
  PROVE  /\ D!Written(found, seen) \in D!Files
         /\ D!Written(found, seen).at = now /\ D!Written(found, seen).seen = seen
         /\ D!Written(found, seen).found = found /\ D!Written(found, seen).asked = D!Asked
         /\ D!Written(found, seen).written
BY DiscoveryConstants DEF D!TypeOK, D!Files, D!Written, D!Asked, D!DiscoveryAssumption

\* The listing that is used: of now, or of a file that is fresh.
LEMMA EventsOfNow ==
  ASSUME D!TypeOK, FilesRecent
  PROVE  /\ D!EventsNow \in D!Files /\ D!EventsNow.written
         /\ D!EventsNow.seen = D!EventsNow.at /\ now - D!EventsNow.at <= Ttl
<1>1. now \in 0..now /\ now \in Nat /\ listed \in SUBSET D!Slugs /\ eventFile \in D!Files
  BY DiscoveryConstants DEF D!TypeOK, D!DiscoveryAssumption
<1>2. CASE D!Fresh(eventFile)
  BY <1>1, <1>2 DEF D!EventsNow, D!Fresh, FilesRecent
<1>3. CASE ~D!Fresh(eventFile)
  BY <1>1, <1>3, WrittenNow, DiscoveryConstants DEF D!EventsNow, D!DiscoveryAssumption
<1> QED BY <1>2, <1>3

\* The answer by slug: the file, or what is written now.
LEMMA AnswerNow ==
  ASSUME D!TypeOK, FilesRecent, FileAsked, NEW bySlug \in SUBSET listed, NEW again \in SUBSET listed
  PROVE  LET answer == D!AnswerOf(bySlug, again)
         IN  /\ answer \in D!Files /\ answer.at - answer.seen <= Ttl /\ now - answer.at <= Ttl
             /\ answer.written /\ \A s \in answer.asked : s <= (answer.at \div Window) + Forward
             /\ D!UsesSlugFile => answer = slugFile
             /\ ~D!UsesSlugFile => answer.at = now
<1> DEFINE answer == D!AnswerOf(bySlug, again)
<1>0. now \in 0..now /\ now \in Nat /\ Ttl \in Nat /\ listed \in SUBSET D!Slugs
  BY DiscoveryConstants DEF D!TypeOK, D!DiscoveryAssumption
<1>1. CASE D!UsesSlugFile
  <2>1. answer = slugFile /\ slugFile \in D!Files
    BY <1>1 DEF D!AnswerOf, D!TypeOK
  <2> QED BY <1>1, <2>1, SameWindow DEF FilesRecent, FileAsked
<1>2. CASE ~D!UsesSlugFile
  <2>1. PICK found \in SUBSET D!Slugs, seen \in 0..now :
           answer = D!Written(found, seen) /\ now - seen <= Ttl
    <3>1. CASE bySlug # {}
      BY <1>0, <1>2, <3>1 DEF D!AnswerOf
    <3>2. CASE bySlug = {} /\ again # {}
      BY <1>0, <1>2, <3>2 DEF D!AnswerOf
    <3>3. CASE bySlug = {} /\ again = {}
      <4>1. answer = D!Written(D!EventsNow.found, D!EventsNow.seen)
        BY <1>2, <3>3 DEF D!AnswerOf
      <4> QED BY <4>1, EventsOfNow DEF D!Files
    <3> QED BY <3>1, <3>2, <3>3
  <2>2. answer \in D!Files /\ answer.at = now /\ answer.seen = seen /\ answer.written
        /\ answer.asked = D!Asked
    BY <2>1, WrittenNow
  <2>3. \A s \in D!Asked : s <= (now \div Window) + Forward
    BY DEF D!Asked
  <2> QED BY <1>0, <1>2, <2>1, <2>2, <2>3
<1> QED BY <1>1, <1>2

\* A selection from data that holds the open market finds it; from any data, it
\* is of now and as old as the data.
LEMMA Selects ==
  ASSUME D!TypeOK, NEW data \in D!Files
  PROVE  /\ D!Outcome(data) \in [kind : {"market", "none"}, slug : D!Slugs, at : 0..now, seen : 0..now]
         /\ D!Outcome(data).at = now /\ D!Outcome(data).seen = data.seen
         /\ D!OpenAt(now) \in data.found => D!Outcome(data).kind = "market"
<1> DEFINE open == {s \in data.found : D!Active(s)}
<1>0. now \in 0..LastTime /\ now \in Nat /\ now \in 0..now /\ data.seen \in 0..now /\ data.found \subseteq D!Slugs
      /\ 0 \in D!Slugs /\ D!Slugs \subseteq Nat
  BY DiscoveryConstants, WindowOf DEF D!TypeOK, D!DiscoveryAssumption, D!Files, D!Slugs
<1>1. CASE open = {}
  BY <1>0, <1>1, OpenNow DEF D!Outcome
<1>2. CASE open # {}
  <2>1. open = {D!OpenAt(now)}
    BY <1>0, <1>2, OpenNow
  <2>2. \E s \in open : \A t \in open : t <= s
    <3>1. D!OpenAt(now) \in Nat
      BY <1>0, OpenNow
    <3>2. D!OpenAt(now) <= D!OpenAt(now)
      BY <3>1
    <3> QED BY <2>1, <3>2
  <2>3. (CHOOSE s \in open : \A t \in open : t <= s) \in open
    BY <2>2
  <2> QED BY <1>0, <1>2, <2>3 DEF D!Outcome
<1> QED BY <1>1, <1>2

\* An attempt: what it writes and how it ends.
LEMMA AttemptStep ==
  ASSUME DiscoveryInv, D!Attempt PROVE DiscoveryInv'
<1> USE DEF DiscoveryInv
<1>0. /\ now \in Nat /\ now \in 0..LastTime /\ now \in 0..now /\ Ttl \in Nat /\ trouble \in 0..now
      /\ listed \in SUBSET D!Slugs
  BY DiscoveryConstants DEF D!TypeOK, D!DiscoveryAssumption
<1>1. PICK bySlug \in SUBSET (listed \cap D!Asked), again \in SUBSET (listed \cap D!Asked),
           clobAnswers \in BOOLEAN, eventsAnswer \in BOOLEAN :
        LET lists == ~D!UsesSlugFile /\ bySlug = {} /\ again = {}
            answer == D!AnswerOf(bySlug, again)
        IN /\ \/ /\ result' = D!Failure /\ trouble' = now
                 /\ UNCHANGED <<slugFile, eventFile>>
              \/ /\ slugFile' = answer
                 /\ D!Resolve(answer, clobAnswers, eventsAnswer,
                              IF lists THEN D!EventsNow ELSE eventFile)
           /\ UNCHANGED <<now, listed>>
  BY DEF D!Attempt
<1> DEFINE lists == ~D!UsesSlugFile /\ bySlug = {} /\ again = {}
           answer == D!AnswerOf(bySlug, again)
           events == IF lists THEN D!EventsNow ELSE eventFile
<1>2. /\ answer \in D!Files /\ answer.at - answer.seen <= Ttl /\ now - answer.at <= Ttl
      /\ answer.written /\ \A s \in answer.asked : s <= (answer.at \div Window) + Forward
      /\ D!UsesSlugFile => answer = slugFile
      /\ ~D!UsesSlugFile => answer.at = now
  BY AnswerNow
<1>3. events \in D!Files /\ events.seen = events.at
  BY EventsOfNow DEF D!TypeOK, FilesRecent
<1>4. CASE result' = D!Failure /\ trouble' = now /\ UNCHANGED <<slugFile, eventFile, now, listed>>
  <2>1. result' \in [kind : {"error"}, slug : D!Slugs, at : 0..now, seen : 0..now]
    BY <1>0, <1>4, DiscoveryConstants, WindowOf DEF D!Failure, D!Slugs, D!DiscoveryAssumption
  <2>2. D!TypeOK'
    BY <1>0, <1>4, <2>1 DEF D!TypeOK, D!Files, D!Slugs
  <2>3. FilesRecent' /\ FileAsked' /\ FileLacks' /\ Unlisted'
    BY <1>0, <1>4 DEF FilesRecent, FileAsked, FileLacks, Unlisted, D!TypeOK, D!Files, D!OpenAt
  <2>4. AnswersAreRecent' /\ TroubleIsForgotten'
    BY <1>0, <1>4 DEF AnswersAreRecent, D!AnswersAreRecent, TroubleIsForgotten,
                      D!TroubleIsForgotten, D!Failure
  <2> QED BY <2>2, <2>3, <2>4
<1>5. CASE slugFile' = answer /\ D!Resolve(answer, clobAnswers, eventsAnswer, events)
  <2> DEFINE lacking == answer.found \cap D!Asked = {}
             fails == ~clobAnswers \/ (lacking /\ ~D!Fresh(events) /\ ~eventsAnswer)
             full == IF D!Fresh(events) THEN events ELSE D!Written(listed, now)
             data == IF lacking THEN full ELSE answer
             missed == ~D!UsesSlugFile /\ D!OpenAt(now) \in listed \ answer.found
  <2>1. /\ result' = IF fails THEN D!Failure ELSE D!Outcome(data)
        /\ eventFile' = IF clobAnswers /\ lacking /\ ~fails THEN full ELSE events
        /\ trouble' = IF fails \/ missed THEN now ELSE trouble
        /\ now' = now /\ listed' = listed
    BY <1>1, <1>5 DEF D!Resolve
  <2>2. full \in D!Files /\ full.seen = full.at /\ now - full.at <= Ttl
    BY <1>0, <1>3, WrittenNow DEF D!Fresh
  <2>3. data \in D!Files /\ now - data.seen <= 2 * Ttl
    BY <1>0, <1>2, <2>2 DEF D!Files
  <2>4. /\ D!Outcome(data) \in [kind : {"market", "none"}, slug : D!Slugs, at : 0..now, seen : 0..now]
        /\ D!Outcome(data).at = now /\ D!Outcome(data).seen = data.seen
        /\ D!OpenAt(now) \in data.found => D!Outcome(data).kind = "market"
    BY <2>3, Selects
  <2>5. /\ D!Failure \in [kind : {"error"}, slug : D!Slugs, at : 0..now, seen : 0..now]
        /\ D!Failure.at = now
    BY <1>0, DiscoveryConstants, WindowOf DEF D!Failure, D!Slugs, D!DiscoveryAssumption
  <2>6. trouble' \in 0..now /\ trouble' >= trouble
    BY <1>0, <2>1
  <2>7. D!OpenAt(now) \notin answer.found => trouble' >= answer.at
    <3> SUFFICES ASSUME D!OpenAt(now) \notin answer.found PROVE trouble' >= answer.at
      OBVIOUS
    <3>1. CASE D!UsesSlugFile
      BY <1>0, <1>2, <2>6, <3>1, SameWindow DEF FileLacks, D!TypeOK, D!Files
    <3>2. CASE ~D!UsesSlugFile
      BY <1>0, <1>2, <2>1, <3>2 DEF Unlisted
    <3> QED BY <3>1, <3>2
  <2>8. D!TypeOK'
    <3>1. eventFile' \in D!Files /\ slugFile' \in D!Files
      BY <1>2, <1>3, <1>5, <2>1, <2>2
    <3>2. result' \in [kind : {"market", "none", "error"}, slug : D!Slugs, at : 0..now, seen : 0..now]
      BY <2>1, <2>4, <2>5
    <3> QED BY <2>1, <2>6, <3>1, <3>2, <1>0 DEF D!TypeOK, D!Files, D!Slugs
  <2>9. FilesRecent' /\ FileAsked'
    BY <1>2, <1>3, <1>5, <2>1, <2>2 DEF FilesRecent, FileAsked
  <2>10. FileLacks' /\ Unlisted'
    <3>1. D!OpenAt(answer.at) = D!OpenAt(now)
      BY <1>2, SameWindow
    <3> QED BY <1>0, <1>2, <1>5, <2>1, <2>6, <2>7, <3>1 DEF FileLacks, Unlisted, D!OpenAt
  <2>11. AnswersAreRecent'
    BY <1>0, <2>1, <2>3, <2>4 DEF AnswersAreRecent, D!AnswersAreRecent, D!Failure, D!Files
  <2>12. TroubleIsForgotten'
    <3> SUFFICES ASSUME result'.kind # "market" PROVE result'.at - trouble' <= Ttl
      BY DEF TroubleIsForgotten, D!TroubleIsForgotten
    <3>1. result'.at = now
      BY <2>1, <2>4, <2>5
    <3>2. CASE fails
      BY <1>0, <2>1, <3>1, <3>2
    <3>3. CASE ~fails
      <4>1. D!OpenAt(now) \notin answer.found
        BY <1>0, <2>1, <2>4, <3>3, OpenNow
      <4>2. trouble' >= answer.at /\ now - answer.at <= Ttl /\ answer.at \in 0..now
        BY <1>2, <2>7, <4>1 DEF D!Files
      <4>3. \A at, since \in 0..now : since >= at /\ now - at <= Ttl => now - since <= Ttl
        BY <1>0
      <4> QED BY <2>6, <3>1, <4>2, <4>3
    <3> QED BY <3>2, <3>3
  <2> QED BY <2>8, <2>9, <2>10, <2>11, <2>12
<1> QED BY <1>1, <1>4, <1>5

LEMMA DiscoveryStep == DiscoveryInv /\ [D!Next]_(D!vars) => DiscoveryInv'
<1> SUFFICES ASSUME DiscoveryInv, [D!Next]_(D!vars) PROVE DiscoveryInv'
  OBVIOUS
<1>0. now \in Nat /\ LastTime \in Nat /\ listed \in SUBSET D!Slugs /\ trouble \in 0..now
  BY DiscoveryConstants DEF DiscoveryInv, D!TypeOK, D!DiscoveryAssumption
<1> USE DEF DiscoveryInv
<1>1. CASE D!List
  <2>1. /\ listed' \in SUBSET D!Slugs /\ listed \subseteq listed'
        /\ UNCHANGED <<now, slugFile, eventFile, result, trouble>>
    BY <1>0, <1>1 DEF D!List, D!Slugs
  <2>2. D!TypeOK'
    BY <2>1 DEF D!TypeOK, D!Files, D!Slugs
  <2>3. FilesRecent' /\ FileAsked' /\ FileLacks' /\ Unlisted'
    BY <2>1 DEF FilesRecent, FileAsked, FileLacks, Unlisted, D!OpenAt
  <2>4. AnswersAreRecent' /\ TroubleIsForgotten'
    BY <2>1 DEF AnswersAreRecent, D!AnswersAreRecent, TroubleIsForgotten, D!TroubleIsForgotten
  <2> QED BY <2>2, <2>3, <2>4
<1>2. CASE D!Tick
  <2>1. /\ now' = now + 1 /\ now < LastTime /\ UNCHANGED <<listed, slugFile, eventFile, result>>
        /\ trouble' = IF D!OpenAt(now + 1) \in listed THEN trouble ELSE now + 1
    BY <1>2 DEF D!Tick
  <2>2. D!TypeOK'
    <3>1. 0..now \subseteq 0..now'
      BY <1>0, <2>1
    <3>2. slugFile' \in D!Files' /\ eventFile' \in D!Files'
      BY <2>1, <3>1 DEF D!TypeOK, D!Files, D!Slugs
    <3>3. result' \in [kind : {"market", "none", "error"}, slug : D!Slugs, at : 0..now', seen : 0..now']
      BY <2>1, <3>1 DEF D!TypeOK
    <3> QED BY <1>0, <2>1, <3>2, <3>3 DEF D!TypeOK, D!Slugs
  <2>3. FilesRecent' /\ FileAsked' /\ FileLacks' /\ Unlisted'
    BY <1>0, <2>1 DEF FilesRecent, FileAsked, FileLacks, Unlisted, D!OpenAt, D!TypeOK, D!Files
  <2>4. AnswersAreRecent' /\ TroubleIsForgotten'
    BY <1>0, <2>1, DiscoveryConstants
       DEF AnswersAreRecent, D!AnswersAreRecent, TroubleIsForgotten, D!TroubleIsForgotten,
           D!TypeOK, D!DiscoveryAssumption
  <2> QED BY <2>2, <2>3, <2>4
<1>3. CASE D!Attempt
  BY <1>3, AttemptStep
<1>4. CASE UNCHANGED D!vars
  BY <1>4 DEF D!vars, D!TypeOK, D!Files, D!Slugs, FilesRecent, FileAsked, FileLacks, Unlisted,
     D!OpenAt, AnswersAreRecent, D!AnswersAreRecent, TroubleIsForgotten, D!TroubleIsForgotten
<1> QED BY <1>1, <1>2, <1>3, <1>4 DEF D!Next

LEMMA DiscoveryAlways == D!Spec => []DiscoveryInv
BY DiscoveryStart, DiscoveryStep, PTL DEF D!Spec

\* However the two files of remembered answers feed each other, and whichever
\* requests of resolve_markets fail, no market is selected by data more than
\* twice their age limit old.
THEOREM AnswersAreRecentCorrect == D!Spec => []AnswersAreRecent
<1>1. DiscoveryInv => AnswersAreRecent
  BY DEF DiscoveryInv
<1> QED BY <1>1, DiscoveryAlways, PTL

\* A market that is open and listed is found, unless it was missing or a request
\* for it failed within the last Ttl ticks: the answers of bad requests, which
\* resolve_markets remembers like good ones, are used no longer than that, and
\* never for the next window.
THEOREM TroubleIsForgottenCorrect == D!Spec => []TroubleIsForgotten
<1>1. DiscoveryInv => TroubleIsForgotten
  BY DEF DiscoveryInv
<1> QED BY <1>1, DiscoveryAlways, PTL

-----------------------------------------------------------------------------
(* The reference price.                                                     *)

(***************************************************************************)
(* A quote was received no longer ago than its venue says, by Ahead at     *)
(* most; only a session ends, and it is never the perpetual's.             *)
(***************************************************************************)
Lag == \A v \in R!Known : latest[v].received <= latest[v].age + Ahead
NoneEnded == kind["perp"] # "session" /\ \A v \in R!Venues : link[v] = "ended" => kind[v] = "session"

(***************************************************************************)
(* Calm: nothing is in trouble once a tick has counted; a quote given      *)
(* while the prices were apart is from before the first tick of the calm,  *)
(* by its venue's time at most Ahead younger; from the first such tick on, *)
(* a venue heard since the last one has a quote that is not late, and from *)
(* the second on both have one, a tick older at most.                      *)
(***************************************************************************)
Undisturbed == calm > 0 => ~apart /\ mute = {} /\ \A v \in R!Venues : link[v] = "up"
OldOnes ==
  \A v \in R!Known : latest[v].off => calm <= R!Settling /\ latest[v].age >= calm - Ahead
HeardAreNew ==
  calm > 0 => \A v \in answered : /\ v \in R!Known /\ latest[v].age <= Behind
                                  /\ latest[v].off => latest[v].age < Behind
BothNew ==
  calm > 1 => R!Known = R!Venues /\ \A v \in R!Venues : latest[v].age <= Behind + 1

CalmInv == kind["spot"] = "poll" => Undisturbed /\ OldOnes /\ HeardAreNew /\ BothNew

PriceInv == R!TypeOK /\ Lag /\ NoneEnded /\ CalmInv

\* The bounds are numbers, and a tick of calm is not the last.
LEMMA Bounds ==
  /\ MaxAge \in Nat /\ Behind \in Nat /\ Ahead \in Nat /\ Behind <= MaxAge
  /\ R!Settling \in Nat /\ R!Settling >= 1 /\ R!Settling >= Ahead + Behind
BY ReferenceConstants DEF R!ReferenceAssumption, R!Settling

\* The quotes of TypeOK.
Quotes == [age : -Ahead..(MaxAge + 1), off : BOOLEAN, known : BOOLEAN,
           received : 0..(MaxAge + Ahead + 1)]

LEMMA PriceStart == R!Init => PriceInv
<1> SUFFICES ASSUME R!Init PROVE PriceInv
  OBVIOUS
<1> USE Bounds DEF R!Init, R!NoQuote, R!Venues, R!Known
<1>1. R!TypeOK
  <2>1. kind \in [R!Venues -> {"poll", "session", "futures"}]
    OBVIOUS
  <2>2. R!NoQuote \in Quotes
    BY DEF Quotes
  <2>3. latest \in [R!Venues -> Quotes]
    BY <2>2
  <2>4. calm \in 0..(R!Settling + 1)
    OBVIOUS
  <2>5. link \in [R!Venues -> {"up", "down", "ended"}]
    OBVIOUS
  <2>6. apart \in BOOLEAN /\ mute \subseteq R!Venues /\ answered \subseteq R!Venues
    OBVIOUS
  <2> HIDE DEF R!Init
  <2> QED BY <2>1, <2>3, <2>4, <2>5, <2>6 DEF R!TypeOK, Quotes
<1>2. Lag /\ NoneEnded
  BY DEF Lag, NoneEnded
<1>3. CalmInv
  BY DEF CalmInv, Undisturbed, OldOnes, HeardAreNew, BothNew
<1> QED BY <1>1, <1>2, <1>3 DEF PriceInv

\* A quote that comes in: the one kept is not late, and if it was given while the
\* prices were apart, either they still are or it is from before.
LEMMA IngestEffect ==
  ASSUME NEW v \in R!Venues, R!TypeOK, R!Ingest(v)
  PROVE  /\ latest' \in [R!Venues -> Quotes]
         /\ \A w \in R!Venues \ {v} : latest'[w] = latest[w]
         /\ latest'[v].known /\ latest'[v].age <= Behind
         /\ \/ latest'[v] = latest[v] /\ latest[v].age < Behind /\ latest[v].known
            \/ latest'[v].received = 0 /\ (latest'[v].off => apart)
<1>1. PICK t \in R!Times :
        latest' = IF R!Kept(v, t) THEN latest
                  ELSE [latest EXCEPT ![v] = [age |-> t, received |-> 0, known |-> TRUE,
                                              off |-> apart /\ v = "perp"]]
  BY DEF R!Ingest
<1>2. t \in Int /\ -Ahead <= t /\ t <= Behind
  BY Bounds DEF R!Times
<1>3. latest \in [R!Venues -> Quotes] /\ apart \in BOOLEAN
  BY DEF R!TypeOK, Quotes
<1>4. CASE R!Kept(v, t)
  <2>1. latest' = latest /\ latest[v].known /\ t > latest[v].age /\ latest[v].age \in Int
    BY <1>1, <1>3, <1>4, Bounds DEF R!Kept, Quotes
  <2> QED BY <1>2, <1>3, <2>1, Bounds
<1>5. CASE ~R!Kept(v, t)
  <2>1. [age |-> t, received |-> 0, known |-> TRUE, off |-> apart /\ v = "perp"] \in Quotes
    BY <1>2, <1>3, Bounds DEF Quotes
  <2> QED BY <1>1, <1>2, <1>3, <1>5, <2>1
<1> QED BY <1>4, <1>5

\* A venue is heard: nothing else changes but a link that was down.
LEMMA HearStep ==
  ASSUME PriceInv, NEW v \in R!Venues, v \notin mute, R!Ingest(v), answered' = answered \cup {v},
         UNCHANGED <<kind, mute, apart, calm>>,
         link' = link \/ (kind[v] = "poll" /\ link' = [link EXCEPT ![v] = "up"])
  PROVE  PriceInv'
<1> USE Bounds DEF PriceInv
<1>1. /\ latest \in [R!Venues -> Quotes] /\ latest' \in [R!Venues -> Quotes]
      /\ \A w \in R!Venues \ {v} : latest'[w] = latest[w]
      /\ latest'[v].known /\ latest'[v].age <= Behind
      /\ \/ latest'[v] = latest[v] /\ latest[v].age < Behind /\ latest[v].known
         \/ latest'[v].received = 0 /\ (latest'[v].off => apart)
  BY IngestEffect DEF R!TypeOK, Quotes
<1>2. \A w \in R!Venues : /\ latest[w].age \in Int /\ latest[w].age >= -Ahead
                          /\ latest'[w].age \in Int /\ latest'[w].age >= -Ahead
  BY <1>1 DEF Quotes
<1>3. R!TypeOK'
  BY <1>1 DEF R!TypeOK, Quotes
<1>4. Lag'
  BY <1>1, <1>2 DEF Lag, R!Known
<1>5. NoneEnded'
  BY DEF NoneEnded, R!TypeOK
<1>6. ASSUME kind["spot"] = "poll", Undisturbed, OldOnes, HeardAreNew, BothNew
      PROVE  Undisturbed' /\ OldOnes' /\ HeardAreNew' /\ BothNew'
  <2>1. Undisturbed'
    BY <1>6 DEF Undisturbed, R!TypeOK
  <2>2. R!Known' = R!Known \cup {v} /\ calm \in Nat
    BY <1>1 DEF R!Known, R!TypeOK
  <2>3. OldOnes'
    <3> SUFFICES ASSUME NEW w \in R!Venues, w \in R!Known', latest'[w].off
                 PROVE  calm <= R!Settling /\ latest'[w].age >= calm - Ahead
      BY DEF OldOnes, R!Known
    <3>1. CASE latest'[w] = latest[w]
      BY <1>1, <1>6, <2>2, <3>1 DEF OldOnes, R!Known
    <3>2. CASE latest'[w] # latest[w]
      BY <1>1, <1>2, <1>6, <2>2, <3>2 DEF Undisturbed
    <3> QED BY <3>1, <3>2
  <2>4. HeardAreNew'
    <3> SUFFICES ASSUME calm > 0, NEW w \in R!Venues, w \in answered \cup {v}
                 PROVE  /\ w \in R!Known \cup {v} /\ latest'[w].age <= Behind
                        /\ latest'[w].off => latest'[w].age < Behind
      BY <2>2 DEF HeardAreNew, R!TypeOK
    <3>1. ~apart
      BY <1>6 DEF Undisturbed
    <3>2. CASE w = v
      BY <1>1, <3>1, <3>2
    <3>3. CASE w # v
      BY <1>1, <1>6, <3>3 DEF HeardAreNew
    <3> QED BY <3>2, <3>3
  <2>5. BothNew'
    BY <1>1, <1>2, <1>6, <2>2 DEF BothNew, R!Known
  <2> QED BY <2>1, <2>3, <2>4, <2>5
<1> QED BY <1>3, <1>4, <1>5, <1>6 DEF CalmInv

\* A step that begins no calm and touches no quote, or all of them.
LEMMA TroubleStep ==
  ASSUME PriceInv, R!TypeOK', NoneEnded', calm' = 0, kind' = kind,
         latest' = latest \/ latest' = [v \in R!Venues |-> R!NoQuote]
  PROVE  PriceInv'
<1> USE Bounds DEF PriceInv, R!Known
<1>1. Lag'
  BY DEF Lag, R!NoQuote
<1>2. Undisturbed' /\ HeardAreNew' /\ BothNew'
  BY DEF Undisturbed, HeardAreNew, BothNew
<1>3. \A v \in R!Venues : latest[v].age \in Int /\ latest[v].age >= -Ahead
  BY DEF R!TypeOK
<1>4. OldOnes'
  BY <1>3 DEF OldOnes, R!NoQuote
<1> QED BY <1>1, <1>2, <1>4 DEF CalmInv

\* A tick makes every quote a tick older.
LEMMA OlderEffect ==
  ASSUME NEW q \in Quotes
  PROVE  /\ R!Older(q) \in Quotes /\ R!Older(q).known = q.known /\ R!Older(q).off = q.off
         /\ q.known => /\ R!Older(q).age = R!Cap(q.age + 1, MaxAge + 1)
                       /\ R!Older(q).received = R!Cap(q.received + 1, MaxAge + Ahead + 1)
<1>1. CASE q.known
  <2>1. R!Older(q) = [age |-> R!Cap(q.age + 1, MaxAge + 1),
                      received |-> R!Cap(q.received + 1, MaxAge + Ahead + 1),
                      off |-> q.off, known |-> q.known]
    BY <1>1 DEF R!Older
  <2>2. /\ R!Cap(q.age + 1, MaxAge + 1) \in -Ahead..(MaxAge + 1)
        /\ R!Cap(q.received + 1, MaxAge + Ahead + 1) \in 0..(MaxAge + Ahead + 1)
    BY Bounds DEF R!Cap, Quotes
  <2>3. q.off \in BOOLEAN /\ q.known \in BOOLEAN
    BY <1>1 DEF Quotes
  <2>4. R!Older(q) \in Quotes
    BY <2>1, <2>2, <2>3 DEF Quotes
  <2>5. /\ R!Older(q).known = q.known /\ R!Older(q).off = q.off
        /\ R!Older(q).age = R!Cap(q.age + 1, MaxAge + 1)
        /\ R!Older(q).received = R!Cap(q.received + 1, MaxAge + Ahead + 1)
    BY <2>1, <2>3
  <2> QED BY <2>4, <2>5
<1>2. CASE ~q.known
  BY <1>2 DEF R!Older
<1> QED BY <1>1, <1>2

\* A tick preserves it: at the second tick of a calm every venue was heard in it.
LEMMA TickStep ==
  ASSUME PriceInv, R!Tick PROVE PriceInv'
<1> USE Bounds DEF PriceInv
<1>1. /\ latest \in [R!Venues -> Quotes] /\ calm \in Nat /\ calm <= R!Settling + 1
      /\ latest' = [v \in R!Venues |-> R!Older(latest[v])] /\ answered' = {}
      /\ UNCHANGED <<kind, link, mute, apart>>
      /\ calm' = IF R!Healthy THEN R!Cap(calm + 1, R!Settling + 1) ELSE 0
  BY DEF R!Tick, R!TypeOK, Quotes
<1>2. /\ latest' \in [R!Venues -> Quotes] /\ R!Known' = R!Known
      /\ \A v \in R!Venues : /\ latest'[v].off = latest[v].off
                             /\ latest[v].age \in Int /\ latest[v].age >= -Ahead
                             /\ latest[v].received \in Nat
      /\ \A v \in R!Known : /\ latest'[v].age = R!Cap(latest[v].age + 1, MaxAge + 1)
                            /\ latest'[v].received = R!Cap(latest[v].received + 1, MaxAge + Ahead + 1)
  <2>1. \A v \in R!Venues : latest[v] \in Quotes /\ latest'[v] = R!Older(latest[v])
    BY <1>1
  <2> QED BY <1>1, <2>1, OlderEffect DEF R!Known, Quotes
<1>3. R!TypeOK'
  BY <1>1, <1>2 DEF R!TypeOK, Quotes, R!Cap, R!Settling
<1>4. Lag'
  BY <1>2 DEF Lag, R!Cap, R!Known
<1>5. NoneEnded'
  BY <1>1 DEF NoneEnded
<1>6. ASSUME kind["spot"] = "poll", Undisturbed, OldOnes, HeardAreNew, BothNew
      PROVE  Undisturbed' /\ OldOnes' /\ HeardAreNew' /\ BothNew'
  <2>1. Undisturbed'
    <3>1. \A v \in R!Venues : link[v] # "ended" /\ link[v] \in {"up", "down", "ended"}
      BY <1>6 DEF NoneEnded, R!Venues, R!TypeOK
    <3> QED BY <1>1, <3>1 DEF Undisturbed, R!Healthy
  <2>2. calm > 0 => \A v \in R!Venues : /\ v \in R!Known /\ latest[v].age <= Behind
                                        /\ latest[v].off => latest[v].age < Behind
    BY <1>6 DEF R!Tick, Undisturbed, HeardAreNew
  <2>3. calm' = 0 \/ (calm = 0 /\ calm' = 1)
        \/ (calm > 0 /\ calm' = (IF calm <= R!Settling THEN calm + 1 ELSE R!Settling + 1))
    BY <1>1 DEF R!Cap
  <2>4. OldOnes'
    <3> SUFFICES ASSUME NEW v \in R!Known, latest[v].off
                 PROVE  calm' <= R!Settling /\ latest'[v].age >= calm' - Ahead
      BY <1>2 DEF OldOnes, R!Known
    <3>1. calm <= R!Settling /\ latest[v].age >= calm - Ahead /\ v \in R!Venues
      BY <1>6 DEF OldOnes, R!Known
    <3>2. latest'[v].age = R!Cap(latest[v].age + 1, MaxAge + 1)
      BY <1>2
    <3>3. CASE calm' <= 1 /\ calm' \in Nat
      BY <1>2, <3>1, <3>2, <3>3 DEF R!Cap
    <3>4. CASE calm > 0 /\ calm' = calm + 1
      <4>1. latest[v].age < Behind
        BY <2>2, <3>1, <3>4
      <4>2. R!Settling = Ahead + Behind
        BY <1>2, <3>1, <3>4, <4>1 DEF R!Settling
      <4> QED BY <1>1, <1>2, <3>1, <3>2, <3>4, <4>1, <4>2 DEF R!Cap
    <3> QED BY <1>1, <2>3, <3>1, <3>3, <3>4
  <2>5. HeardAreNew'
    BY <1>1 DEF HeardAreNew
  <2>6. BothNew'
    <3> SUFFICES ASSUME calm' > 1 PROVE R!Known' = R!Venues /\ \A v \in R!Venues : latest'[v].age <= Behind + 1
      BY DEF BothNew, R!Venues
    <3>1. calm > 0
      BY <1>1, <2>3
    <3> QED BY <1>2, <2>2, <3>1 DEF R!Cap, R!Known
  <2> QED BY <2>1, <2>4, <2>5, <2>6
<1> QED BY <1>1, <1>3, <1>4, <1>5, <1>6 DEF CalmInv

LEMMA PriceStep == PriceInv /\ [R!Next]_(R!vars) => PriceInv'
<1> SUFFICES ASSUME PriceInv, [R!Next]_(R!vars) PROVE PriceInv'
  OBVIOUS
<1> USE Bounds DEF PriceInv
<1>1. ASSUME NEW v \in R!Venues, R!Poll(v) PROVE PriceInv'
  BY <1>1, HearStep DEF R!Poll
<1>2. ASSUME NEW v \in R!Venues, R!Receive(v) PROVE PriceInv'
  BY <1>2, HearStep DEF R!Receive
<1>3. ASSUME NEW v \in R!Venues, R!PollFails(v) \/ R!Disconnect(v) \/ R!FallSilent(v)
      PROVE  PriceInv'
  <2>1. calm' = 0 /\ kind' = kind /\ latest' = latest
    BY <1>3 DEF R!PollFails, R!Disconnect, R!FallSilent
  <2>2. R!TypeOK'
    BY <1>3 DEF R!PollFails, R!Disconnect, R!FallSilent, R!AfterFailure, R!TypeOK, R!Settling
  <2>3. NoneEnded'
    BY <1>3 DEF R!PollFails, R!Disconnect, R!FallSilent, R!AfterFailure, NoneEnded, R!TypeOK
  <2> QED BY <2>1, <2>2, <2>3, TroubleStep
<1>4. ASSUME NEW v \in R!Venues, R!Reconnect(v) PROVE PriceInv'
  <2>1. R!TypeOK' /\ NoneEnded'
    BY <1>4 DEF R!Reconnect, R!TypeOK, NoneEnded, R!Settling
  <2>2. Lag'
    BY <1>4 DEF R!Reconnect, Lag, R!Known
  <2>3. CalmInv'
    BY <1>4 DEF R!Reconnect, CalmInv, Undisturbed, OldOnes, HeardAreNew, BothNew, R!Known, R!TypeOK, R!Settling
  <2> QED BY <2>1, <2>2, <2>3
<1>5. CASE R!Move \/ R!Reset
  <2>1. R!NoQuote \in Quotes
    BY DEF R!NoQuote, Quotes
  <2>2. latest' \in [R!Venues -> Quotes]
    BY <1>5, <2>1 DEF R!Move, R!Reset, R!TypeOK, Quotes
  <2>3. R!TypeOK'
    <3>1. apart' \in BOOLEAN
      BY <1>5 DEF R!Move, R!Reset, R!TypeOK
    <3>2. calm' \in 0..(R!Settling + 1) /\ R!Settling' = R!Settling
      BY <1>5 DEF R!Move, R!Reset, R!Settling
    <3> QED BY <1>5, <2>2, <3>1, <3>2 DEF R!Move, R!Reset, R!TypeOK, Quotes
  <2>4. NoneEnded'
    BY <1>5 DEF R!Move, R!Reset, NoneEnded
  <2> QED BY <1>5, <2>3, <2>4, TroubleStep DEF R!Move, R!Reset
<1>6. CASE R!Tick
  BY <1>6, TickStep
<1>7. CASE UNCHANGED R!vars
  BY <1>7 DEF R!vars, R!TypeOK, Lag, NoneEnded, CalmInv, Undisturbed, OldOnes, HeardAreNew,
              BothNew, R!Known, R!Settling
<1> QED BY <1>1, <1>2, <1>3, <1>4, <1>5, <1>6, <1>7 DEF R!Next

LEMMA PriceAlways == R!Spec => []PriceInv
BY PriceStart, PriceStep, PTL DEF R!Spec

\* A price is given of fresh quotes only.
LEMMA PricedQuotes ==
  ASSUME PriceInv, R!Priced, NEW v \in R!Known PROVE latest[v].age <= MaxAge
<1>1. R!Stale = {}
  BY DEF R!Priced, R!State
<1>2. latest[v].age \in Int
  BY Bounds DEF PriceInv, R!TypeOK, R!Known
<1> QED BY <1>1, <1>2, Bounds DEF R!Stale

\* PStarBuilder gives no price from a quote that arrived more than MaxAge + Ahead
\* ago, whatever the venues' clocks say and however their feeds fail.
THEOREM PriceIsRecentCorrect == R!Spec => []PriceIsRecent
<1>1. PriceInv => PriceIsRecent
  <2> SUFFICES ASSUME PriceInv, R!Priced, NEW v \in R!Known
               PROVE  latest[v].received <= MaxAge + Ahead
    BY DEF PriceIsRecent, R!PriceIsRecent
  <2>1. latest[v].age \in Int /\ latest[v].received \in Int
    BY Bounds DEF PriceInv, R!TypeOK, R!Known
  <2> QED BY <2>1, PricedQuotes, Bounds DEF PriceInv, Lag
<1> QED BY <1>1, PriceAlways, PTL

\* With a spot venue that is polled, the price is back Settling + 1 ticks after
\* the last failure, silence, reset or divergence.
THEOREM PriceReturnsCorrect == R!Spec => []PriceReturns
<1>1. PriceInv => PriceReturns
  <2> SUFFICES ASSUME PriceInv, kind["spot"] = "poll", Behind < MaxAge, calm > R!Settling
               PROVE  R!Priced
    BY DEF PriceReturns, R!PriceReturns
  <2>1. calm > 1 /\ calm \in Nat
    BY Bounds DEF PriceInv, R!TypeOK
  <2>2. R!Known = R!Venues /\ \A v \in R!Venues : latest[v].age \in Int /\ latest[v].age <= MaxAge
    BY <2>1, Bounds DEF PriceInv, CalmInv, BothNew, R!TypeOK
  <2>3. R!Stale = {}
    BY <2>2, Bounds DEF R!Stale
  <2>4. ~R!Diverged
    BY <2>1, <2>2, Bounds DEF PriceInv, CalmInv, OldOnes, R!Diverged, R!Venues
  <2> QED BY <2>2, <2>3, <2>4 DEF R!Priced, R!State, R!Venues
<1> QED BY <1>1, PriceAlways, PTL

=============================================================================
