-------------------------- MODULE MarketDiscovery --------------------------
(***************************************************************************)
(* Finding the 15-minute market that is open now (core/market_discovery).  *)
(* The number in a market's slug is taken for the end of its window: the   *)
(* market numbered s is open from tick (s - 1) * Window until s * Window.  *)
(* An attempt asks for the slugs around now, falls back to the listing of  *)
(* all events, and keeps the answers of both in files, each good for Ttl   *)
(* ticks.  Any request may fail.  A failed batch of slugs is only missing  *)
(* from the answer, which is remembered like a whole one; any other        *)
(* failure ends the attempt.                                               *)
(***************************************************************************)
EXTENDS Naturals

CONSTANTS
  Window,        \* ticks of one window
  Ttl,           \* ticks for which a remembered answer is used
  Back, Forward, \* windows asked for before and after the current one
  LastTime       \* bound: the last tick

DiscoveryAssumption ==
  /\ Window \in Nat \ {0} /\ Forward \in Nat \ {0}
  /\ Ttl \in Nat /\ Back \in Nat /\ LastTime \in Nat

VARIABLES
  now,
  listed,     \* the markets that Gamma lists
  slugFile,   \* the last answer by slug: what was found and asked, when it was
              \* written and when it was true
  eventFile,  \* the last listing of all events, likewise
  result,     \* the outcome of the last attempt
  trouble     \* the last tick at which the open market was not listed, or a
              \* request of an attempt failed to bring it

vars == <<now, listed, slugFile, eventFile, result, trouble>>

Nothing == [found |-> {}, asked |-> {}, at |-> 0, seen |-> 0, written |-> FALSE]
Slugs == 0..((LastTime \div Window) + Forward)

OpenAt(t) == (t \div Window) + 1
Active(s) == (s - 1) * Window <= now /\ now < s * Window

\* _generate_15m_slugs
Asked ==
  {s \in Slugs : s + Back >= now \div Window /\ s <= (now \div Window) + Forward}

Fresh(file) == file.written /\ now - file.at <= Ttl

Written(found, seen) ==
  [found |-> found, asked |-> Asked, at |-> now, seen |-> seen, written |-> TRUE]

\* The list of slugs is not compared.
BugUsesSlugFile == Fresh(slugFile)

UsesSlugFile == Fresh(slugFile) /\ Asked \subseteq slugFile.asked

\* The age of the file is not looked at.
BugEventsNow == IF eventFile.written THEN eventFile ELSE Written(listed, now)

\* load_gamma_markets: the file while it is fresh, the listing otherwise.
EventsNow == IF Fresh(eventFile) THEN eventFile ELSE Written(listed, now)

\* The answer of discover_15m_crypto_by_slug: the file, or the first of its
\* three requests that names a slug asked for.
AnswerOf(bySlug, again) ==
  IF UsesSlugFile THEN slugFile
  ELSE IF bySlug # {} THEN Written(bySlug, now)
  ELSE IF again # {} THEN Written(again, now)
  ELSE Written(EventsNow.found, EventsNow.seen)

\* select_latest_active_btc_15m
Outcome(data) ==
  LET open == {s \in data.found : Active(s)} IN
  IF open = {} THEN [kind |-> "none", slug |-> 0, at |-> now, seen |-> data.seen]
  ELSE [kind |-> "market", at |-> now, seen |-> data.seen,
        slug |-> CHOOSE s \in open : \A t \in open : t <= s]

Failure == [kind |-> "error", slug |-> 0, at |-> now, seen |-> now]

-----------------------------------------------------------------------------

Init ==
  /\ now = 0
  /\ listed \in {{}, {1}}
  /\ slugFile = Nothing /\ eventFile = Nothing
  /\ result = Failure
  /\ trouble = 0

\* Gamma lists a market, before its window or during it.
List ==
  \E s \in Slugs \ listed :
    /\ s * Window > now
    /\ listed' = listed \cup {s}
    /\ UNCHANGED <<now, slugFile, eventFile, result, trouble>>

Tick ==
  /\ now < LastTime
  /\ now' = now + 1
  /\ trouble' = IF OpenAt(now + 1) \in listed THEN trouble ELSE now + 1
  /\ UNCHANGED <<listed, slugFile, eventFile, result>>

\* The requests an attempt still has to make, after the slugs are known: the
\* exchange's own list; and all events if none of the slugs was found.  The
\* slugs' answer is written before the one, the events' before the selection.
Resolve(answer, clobAnswers, eventsAnswer, events) ==
  LET lacking == answer.found \cap Asked = {}
      fails == ~clobAnswers \/ (lacking /\ ~Fresh(events) /\ ~eventsAnswer)
      full == IF Fresh(events) THEN events ELSE Written(listed, now)
      outcome == IF fails THEN Failure ELSE Outcome(IF lacking THEN full ELSE answer)
  IN /\ result' = outcome
     /\ eventFile' = IF clobAnswers /\ lacking /\ ~fails THEN full ELSE events
     /\ trouble' =
          IF fails \/ (~UsesSlugFile /\ OpenAt(now) \in listed \ answer.found)
          THEN now ELSE trouble

\* resolve_markets
Attempt ==
  \E bySlug, again \in SUBSET (listed \cap Asked), clobAnswers, eventsAnswer \in BOOLEAN :
    LET lists == ~UsesSlugFile /\ bySlug = {} /\ again = {}
        answer == AnswerOf(bySlug, again)
    IN /\ UsesSlugFile => bySlug = {}
       /\ bySlug # {} \/ UsesSlugFile => again = {}
       /\ \/ /\ lists /\ ~Fresh(eventFile) /\ ~eventsAnswer
             /\ result' = Failure /\ trouble' = now
             /\ UNCHANGED <<slugFile, eventFile>>
          \/ /\ lists => Fresh(eventFile) \/ eventsAnswer
             /\ slugFile' = answer
             /\ Resolve(answer, clobAnswers, eventsAnswer, IF lists THEN EventsNow ELSE eventFile)
       /\ UNCHANGED <<now, listed>>

Next == List \/ Tick \/ Attempt

Spec == Init /\ [][Next]_vars

-----------------------------------------------------------------------------

Files == [found : SUBSET Slugs, asked : SUBSET Slugs, at : 0..now, seen : 0..now,
          written : BOOLEAN]

(* The clock stays within its bound; files and results are of the past and *)
(* name known slugs.                                                       *)
TypeOK ==
  /\ now \in 0..LastTime /\ trouble \in 0..now
  /\ listed \in SUBSET Slugs
  /\ slugFile \in Files /\ eventFile \in Files
  /\ result \in [kind : {"market", "none", "error"}, slug : Slugs, at : 0..now, seen : 0..now]

(* However the two files feed each other (a listing of events that is      *)
(* itself remembered is written down again as the answer by slug), no      *)
(* market is selected by data more than twice their age limit old.         *)
AnswersAreRecent ==
  result.kind = "market" => result.at - result.seen <= 2 * Ttl

(* A market that is open and listed is found unless it was missing, or a   *)
(* request for it failed, within the last Ttl ticks: bad answers are       *)
(* remembered no longer than good ones, across the change of windows too.  *)
TroubleIsForgotten ==
  result.kind # "market" => result.at - trouble <= Ttl

=============================================================================
