------------------------- MODULE RuntimeWatch_proofs -------------------------
(***************************************************************************)
(* What holds of what the runtime watches and writes down, for all values  *)
(* of the constants.  No quote outlives its book by more than a tick as    *)
(* long as the quote loop lives; the reconciliation leaves the orders of   *)
(* other markets alone; a fill counts once; and no reader of the contract  *)
(* events records again what the deduper remembers.                        *)
(***************************************************************************)
EXTENDS RuntimeWatch, SequenceTheorems, TLAPS

(***************************************************************************)
(* A quote loop that has got through its round in this tick has withdrawn  *)
(* what is too old, so that the next tick finds the rest old by one tick   *)
(* at most; and it withdraws that before it counts as down.                *)
(***************************************************************************)
Young(top) == \A t \in quotes : age[t] <= top

QuoteInv == /\ age \in [Tokens -> Int] /\ quotes \subseteq Tokens
            /\ quoter = "up" => Young(MaxAge + 1)
            /\ quoter = "up" /\ "quoter" \in rounds => Young(MaxAge)

\* A turn leaves no quote that is older than the policy allows.
LEMMA TurnsLeaveYoung ==
  ASSUME NEW s, NEW accepted, QuoteInv, quoter = "up", NEW t \in AfterTurns(s, accepted)
  PROVE  /\ t \in quotes \/ t \in accepted
         /\ (t \in quotes /\ t \notin s) \/ age[t] <= MaxAge
<1>1. CASE t \in quotes /\ (t \notin s \/ IsDown(t) \/ Allowed(t))
  <2>1. age[t] \in Int /\ age[t] <= MaxAge + 1 /\ ~IsDown(t)
    BY <1>1, AgesAssumption DEF QuoteInv, Young, IsDown
  <2> QED BY <1>1, <2>1 DEF Allowed
<1>2. CASE t \in accepted \cap s /\ Allowed(t)
  BY <1>2 DEF Allowed
<1> QED BY <1>1, <1>2 DEF AfterTurns


LEMMA QuoteStep == QuoteInv /\ [Next]_vars => QuoteInv'
<1> SUFFICES ASSUME QuoteInv, [Next]_vars PROVE QuoteInv'
  OBVIOUS
<1>1. CASE QuotePass
  <2>1. PICK accepted \in SUBSET Tokens : quotes' = AfterTurns(Tokens, accepted)
    BY <1>1 DEF QuotePass
  <2>2. age' = age /\ quoter = "up" /\ quoter' = quoter
    BY <1>1 DEF QuotePass
  <2>3. \A t \in quotes' : t \in Tokens /\ age[t] \in Int /\ age[t] <= MaxAge
    BY <2>1, <2>2, TurnsLeaveYoung DEF QuoteInv
  <2> QED BY <2>2, <2>3, AgesAssumption DEF QuoteInv, Young
<1>2. CASE QuoteError
  <2>1. PICK n \in DOMAIN Order, accepted \in SUBSET Tokens :
          quotes' = AfterTurns(First(n - 1), accepted)
    BY <1>2 DEF QuoteError
  <2>2. age' = age /\ quoter = "up" /\ quoter' = quoter /\ rounds' = rounds
    BY <1>2 DEF QuoteError
  <2>3. \A t \in quotes' : t \in Tokens /\ (t \in quotes \/ age[t] <= MaxAge)
    BY <2>1, <2>2, TurnsLeaveYoung DEF QuoteInv
  <2>4. \A t \in quotes' : age[t] \in Int
    BY <2>3 DEF QuoteInv
  <2> QED BY <2>2, <2>3, <2>4, AgesAssumption DEF QuoteInv, Young
<1>3. CASE QuoterDies
  BY <1>3 DEF QuoterDies, QuoteInv
<1>4. CASE StatsCycle
  BY <1>4 DEF StatsCycle, QuoteInv, Young
<1>5. CASE StatsError \/ KeeperDies
  BY <1>5 DEF StatsError, KeeperDies, QuoteInv, Young
<1>6. ASSUME NEW m \in Tokens, Message(m) PROVE QuoteInv'
  <2>1. age' = [age EXCEPT ![m] = 0] /\ UNCHANGED <<quotes, quoter, rounds>>
    BY <1>6 DEF Message
  <2>2. \A t \in Tokens : age'[t] \in Int /\ (age'[t] = age[t] \/ age'[t] = 0)
    BY <2>1 DEF QuoteInv
  <2>3. age' \in [Tokens -> Int]
    BY <2>1 DEF QuoteInv
  <2> QED BY <2>1, <2>2, <2>3, AgesAssumption DEF QuoteInv, Young
<1>7. CASE Tick
  <2>1. /\ age' = [t \in Tokens |-> UpTo(age[t], Down + 1)]
        /\ UNCHANGED <<quotes, quoter>> /\ rounds' = {}
        /\ quoter = "up" => "quoter" \in rounds
    BY <1>7 DEF Tick
  <2>2. \A t \in Tokens : age'[t] \in Int /\ (age'[t] <= age[t] \/ age'[t] = age[t] + 1)
    BY <2>1, AgesAssumption DEF QuoteInv, UpTo
  <2>3. age' \in [Tokens -> Int]
    BY <2>1, <2>2
  <2>4. quoter' = "up" => \A t \in quotes' : age'[t] <= MaxAge + 1
    BY <2>1, <2>2, AgesAssumption DEF QuoteInv, Young
  <2> QED BY <2>1, <2>3, <2>4 DEF QuoteInv, Young
<1>8. CASE World
  BY <1>8 DEF World, QuoteInv, Young
<1>9. CASE UNCHANGED vars
  BY <1>9 DEF vars, QuoteInv, Young
<1> QED BY <1>1, <1>2, <1>3, <1>4, <1>5, <1>6, <1>7, <1>8, <1>9 DEF Next

LEMMA QuoteStart == Init => QuoteInv
<1> SUFFICES ASSUME Init PROVE QuoteInv
  OBVIOUS
<1>1. age \in [Tokens -> 0 .. Down + 1] /\ quotes = {}
  BY DEF Init
<1> QED BY <1>1, AgesAssumption DEF QuoteInv, Young

\* While the quote loop lives, a quote is withdrawn before its book counts as
\* down: whichever turns raise, and whenever the clock is looked at.
THEOREM SilentCorrect == Spec => []SilentUnquoted
<1>1. QuoteInv => SilentUnquoted
  BY DEF QuoteInv, Young, SilentUnquoted
<1> QED BY <1>1, QuoteStart, QuoteStep, PTL DEF Spec

-----------------------------------------------------------------------------

(***************************************************************************)
(* The runtime has filed no order of another market: it adopts what it     *)
(* finds in its slots only, and the exchange gives an id that is filed to  *)
(* nobody else.                                                            *)
(***************************************************************************)
FiledInv == /\ rest \in [Ids -> Slots \cup {Elsewhere, Gone}]
            /\ quote \in [Slots -> Ids \cup {Own, NoQuote}]
            /\ \A s \in Slots : quote[s] \in Ids => rest[quote[s]] # Elsewhere

LEMMA TradeNames ==
  /\ Own \notin Ids /\ NoQuote \notin Ids /\ Own # NoQuote
  /\ Gone \notin Slots /\ Elsewhere \notin Slots /\ Gone # Elsewhere
BY TradeConstants DEF T!SlotsAssumption

LEMMA FiledStart == T!Init => FiledInv
BY TradeNames DEF T!Init, FiledInv

\* Cancelling takes orders away, those of the given ids only.
LEMMA CancelEffect ==
  ASSUME FiledInv, NEW ids, NEW r \in T!AfterCancel(ids)
  PROVE  /\ r \in [Ids -> Slots \cup {Elsewhere, Gone}]
         /\ \A i \in Ids : r[i] = rest[i] \/ (r[i] = Gone /\ i \in ids)
BY DEF T!AfterCancel, FiledInv

\* What a step of the reconciliation does to the orders of other markets.
LEMMA StrangersStep ==
  ASSUME FiledInv, [T!Next]_(T!vars)
  PROVE  /\ FiledInv'
         /\ \A i \in Ids : rest[i] = Elsewhere /\ rest'[i] # Elsewhere => UNCHANGED T!local
<1> USE TradeNames DEF FiledInv
<1>1. ASSUME NEW s \in Slots, T!Quote(s)
      PROVE  FiledInv' /\ \A i \in Ids : rest[i] = Elsewhere => rest'[i] = Elsewhere
  <2>1. PICK r \in T!AfterCancel({quote[s]}) :
          /\ \/ \E i \in T!Unused : rest' = [r EXCEPT ![i] = s]
             \/ rest' = r
          /\ quote' = [quote EXCEPT ![s] = Own] \/ quote' = [quote EXCEPT ![s] = NoQuote]
    BY <1>1 DEF T!Quote
  <2>2. /\ r \in [Ids -> Slots \cup {Elsewhere, Gone}]
        /\ \A i \in Ids : rest[i] # Elsewhere => r[i] # Elsewhere
        /\ \A i \in Ids : rest[i] = Elsewhere => r[i] = Elsewhere
    BY <2>1, CancelEffect
  <2>3. /\ rest' \in [Ids -> Slots \cup {Elsewhere, Gone}]
        /\ \A i \in Ids : rest[i] # Elsewhere => rest'[i] # Elsewhere
        /\ \A i \in Ids : rest[i] = Elsewhere => rest'[i] = Elsewhere
    BY <2>1, <2>2 DEF T!Unused, T!Resting
  <2>4. quote' \in [Slots -> Ids \cup {Own, NoQuote}]
        /\ \A x \in Slots : quote'[x] \in Ids => quote'[x] = quote[x]
    BY <2>1
  <2> QED BY <2>3, <2>4
<1>2. ASSUME NEW s \in Slots, T!Withdraw(s)
      PROVE  FiledInv' /\ \A i \in Ids : rest[i] = Elsewhere => rest'[i] = Elsewhere
  BY <1>2, CancelEffect DEF T!Withdraw
<1>3. CASE T!Reconcile
  <2>1. CASE UNCHANGED <<rest, quote>>
    BY <2>1
  <2>2. CASE T!CancelAll
    <3>1. /\ rest' \in [Ids -> Slots \cup {Elsewhere, Gone}]
          /\ \A i \in Ids : rest[i] = Elsewhere => rest'[i] = Elsewhere
      BY <2>2, CancelEffect DEF T!CancelAll, T!Filed
    <3> QED BY <2>2, <3>1 DEF T!CancelAll
  <2> QED BY <1>3, <2>1, <2>2 DEF T!Reconcile
<1>4. CASE T!Stop
  BY <1>4 DEF T!Stop
<1>5. CASE T!Start
  <2>1. PICK shot \in T!Snapshots : quote' = [s \in Slots |-> T!Adopted(s, shot)]
    BY <1>5 DEF T!Start
  <2>2. ASSUME NEW s \in Slots
        PROVE  T!Adopted(s, shot) = NoQuote
               \/ (T!Adopted(s, shot) \in Ids /\ rest[T!Adopted(s, shot)] = s)
    <3>1. CASE T!Found(s, shot) = {}
      BY <3>1 DEF T!Adopted
    <3>2. CASE T!Found(s, shot) # {}
      <4>1. T!Adopted(s, shot) \in T!Found(s, shot)
        BY <3>2 DEF T!Adopted
      <4> QED BY <4>1 DEF T!Found, T!At
    <3> QED BY <3>1, <3>2
  <2> QED BY <1>5, <2>1, <2>2 DEF T!Start
<1>6. ASSUME NEW i \in Ids, T!Leave(i) \/ T!Stranger(i)
      PROVE  FiledInv' /\ UNCHANGED T!local
  BY <1>6 DEF T!Leave, T!Stranger, T!local, T!Unused, T!Filed
<1>7. CASE T!Settle \/ UNCHANGED T!vars
  BY <1>7 DEF T!Settle, T!vars, T!local
<1> QED BY <1>1, <1>2, <1>3, <1>4, <1>5, <1>6, <1>7 DEF T!Next, T!Stop, T!Start

\* The reconciliation: an order of another market stays at the exchange
\* through every cancel, cleanup and restart of the runtime.
THEOREM StrangersUntouchedCorrect == T!Spec => StrangersUntouched
<1>1. FiledInv /\ [T!Next]_(T!vars) => FiledInv'
  BY StrangersStep
<1>2. FiledInv /\ [T!Next]_(T!vars)
      => [\A i \in Ids : rest[i] = Elsewhere /\ rest'[i] # Elsewhere => UNCHANGED T!local]_(T!vars)
  BY StrangersStep
<1> QED BY <1>1, <1>2, FiledStart, PTL DEF T!Spec, StrangersUntouched, T!StrangersUntouched

-----------------------------------------------------------------------------

Steps == {"row", "latency", "apply", "transition", "recovery", "know"}

\* A step that is still to do for the fill being dealt with.
Left(step) == \E i \in 1..Len(job.todo) : job.todo[i] = step

(***************************************************************************)
(* The steps of one fill are each done once; a key that was not marked has *)
(* no row and has changed nothing; the row and the inventory of the fill   *)
(* being dealt with are untouched while their steps are left; and what is  *)
(* queued to be measured has its row, has not been measured, and is queued *)
(* once.                                                                   *)
(***************************************************************************)
JobType == /\ job.todo \in Seq(Steps)
           /\ job = [key |-> job.key, at |-> job.at, todo |-> job.todo]
OnceEach == \A i, j \in 1..Len(job.todo) : job.todo[i] = job.todo[j] => i = j
JobInv == /\ JobType /\ OnceEach
          /\ job.todo # <<>> => job.key \in F!Keys /\ job.key \in marked
          /\ Left("row") => rows[job.key] = 0
          /\ Left("apply") => applied[job.key] = 0
CountInv == /\ rows \in [F!Keys -> 0..1] /\ applied \in [F!Keys -> 0..1]
            /\ measured \in [F!Keys -> 0..1]
            /\ \A k \in F!Keys : /\ measured[k] <= rows[k]
                                 /\ k \notin marked => rows[k] = 0 /\ applied[k] = 0
WaitInv == /\ \A w \in waiting : w.key \in F!Keys /\ rows[w.key] = 1 /\ measured[w.key] = 0
           /\ \A w, x \in waiting : w.key = x.key => w = x
FillsInv == /\ fills \subseteq F!Fills /\ now \in F!Times /\ known \subseteq marked
            /\ JobInv /\ CountInv /\ WaitInv

LEMMA KeyType ==
  ASSUME NEW way \in {"event", "snapshot"}, NEW f \in F!Fills
  PROVE  F!KeyOf(way, f) \in F!Keys /\ F!KeyOf(way, f).way = way
<1>1. f.at \in Nat /\ f.at <= MaxTime /\ f.order \in Orders
  BY FillConstants DEF F!Fills, F!Times, F!FillsAssumption
<1>2. f.at \div Bucket \in Nat /\ f.at \div Bucket <= f.at
  BY <1>1, FillConstants DEF F!FillsAssumption
<1> QED BY <1>1, <1>2, FillConstants DEF F!KeyOf, F!Keys, F!Times, F!FillsAssumption

\* What follows the mark is each step once.
LEMMA BeginType ==
  ASSUME NEW k \in F!Keys, NEW f
  PROVE  /\ F!Begin(k, f) = [key |-> k, at |-> f.at, todo |-> F!Todo(k.way)]
         /\ F!Todo(k.way) \in Seq(Steps)
         /\ \A i, j \in 1..Len(F!Todo(k.way)) : F!Todo(k.way)[i] = F!Todo(k.way)[j] => i = j
<1>1. F!Begin(k, f) = [key |-> k, at |-> f.at, todo |-> F!Todo(k.way)]
  BY DEF F!Begin
<1>2. CASE k.way = "event"
  <2>1. F!Todo(k.way) = <<"row", "latency", "apply", "transition">>
    BY <1>2 DEF F!Todo
  <2> QED BY <1>1, <2>1 DEF Steps
<1>3. CASE k.way # "event"
  <2>1. F!Todo(k.way) = <<"apply", "transition", "row", "recovery", "know">>
    BY <1>3 DEF F!Todo
  <2> QED BY <1>1, <2>1 DEF Steps
<1> QED BY <1>2, <1>3

\* A step done is no longer left, the others are as before.
LEMMA RestEffect ==
  ASSUME JobType, OnceEach, NEW step, job.todo # <<>>, Head(job.todo) = step, job' = F!Rest
  PROVE  /\ JobType' /\ OnceEach' /\ job'.key = job.key
         /\ Left(step) /\ ~Left(step)'
         /\ \A other : Left(other)' => Left(other)
<1> DEFINE todo == Tail(job.todo)
<1>1. job' = [key |-> job.key, at |-> job.at, todo |-> todo]
  BY DEF F!Rest, JobType
<1>2. job'.key = job.key /\ job'.at = job.at /\ job'.todo = todo
  BY <1>1
<1>3. /\ todo \in Seq(Steps) /\ Len(todo) = Len(job.todo) - 1
      /\ Len(job.todo) \in Nat \ {0} /\ job.todo[1] = step
      /\ \A i \in 1..Len(todo) : todo[i] = job.todo[i + 1] /\ i + 1 \in 1..Len(job.todo)
  BY DEF JobType
<1> HIDE DEF todo
<1>4. JobType'
  BY <1>1, <1>2, <1>3 DEF JobType
<1>5. OnceEach'
  <2> SUFFICES ASSUME NEW i \in 1..Len(todo), NEW j \in 1..Len(todo), todo[i] = todo[j]
               PROVE  i = j
    BY <1>2 DEF OnceEach
  <2>1. i + 1 = j + 1
    BY <1>3 DEF OnceEach
  <2> QED BY <1>3, <2>1
<1>6. Left(step) /\ ~Left(step)'
  <2>1. Left(step)
    BY <1>3 DEF Left
  <2>2. ASSUME NEW i \in 1..Len(todo), todo[i] = step PROVE FALSE
    <3>1. i + 1 = 1
      BY <1>3, <2>2 DEF OnceEach
    <3> QED BY <1>3, <3>1
  <2> QED BY <1>2, <2>1, <2>2 DEF Left
<1>7. ASSUME NEW other, Left(other)' PROVE Left(other)
  BY <1>2, <1>3, <1>7 DEF Left
<1> QED BY <1>2, <1>4, <1>5, <1>6, <1>7

LEMMA MoreOnce ==
  ASSUME NEW count \in [F!Keys -> 0..1], NEW k \in F!Keys, count[k] = 0
  PROVE  /\ F!More(count, k) \in [F!Keys -> 0..1] /\ F!More(count, k)[k] = 1
         /\ \A x \in F!Keys \ {k} : F!More(count, k)[x] = count[x]
BY DEF F!More

LEMMA IdleType ==
  ASSUME job' = F!Idle
  PROVE  /\ JobType' /\ OnceEach' /\ job'.todo = <<>> /\ \A step : ~Left(step)'
<1>1. job'.todo = <<>> /\ job' = [key |-> job'.key, at |-> job'.at, todo |-> job'.todo]
  BY DEF F!Idle
<1>2. <<>> \in Seq(Steps) /\ Len(<<>>) = 0
  OBVIOUS
<1> QED BY <1>1, <1>2 DEF JobType, OnceEach, Left

LEMMA FillsStart == F!Init => FillsInv
<1> SUFFICES ASSUME F!Init PROVE FillsInv
  OBVIOUS
<1>1. job.todo = <<>> /\ job = [key |-> job.key, at |-> job.at, todo |-> job.todo]
  BY DEF F!Idle, F!Init
<1>2. <<>> \in Seq(Steps) /\ Len(<<>>) = 0
  OBVIOUS
<1>3. JobInv
  BY <1>1, <1>2 DEF JobInv, JobType, OnceEach, Left
<1>4. CountInv /\ WaitInv
  BY DEF CountInv, WaitInv, F!Init, F!None
<1> QED BY <1>3, <1>4, FillConstants DEF FillsInv, F!Init, F!Times, F!FillsAssumption

\* A fill is dealt with from the beginning if its key is new, else not at all.
LEMMA BeginStep ==
  ASSUME FillsInv, NEW f \in F!Fills, NEW k \in F!Keys, job.todo = <<>>,
         marked' = marked \cup {k}, known \subseteq known', known' \subseteq known \cup {k},
         job' = job \/ (k \notin marked /\ job' = F!Begin(k, f)),
         UNCHANGED <<now, fills, rows, measured, applied, waiting>>
  PROVE  FillsInv'
<1> USE DEF FillsInv
<1>1. CountInv' /\ WaitInv'
  BY DEF CountInv, WaitInv
<1>2. JobInv'
  <2>1. CASE job' = job
    BY <2>1 DEF JobInv, JobType, OnceEach, Left
  <2>2. CASE k \notin marked /\ job' = F!Begin(k, f)
    <3>1. /\ job' = [key |-> k, at |-> f.at, todo |-> F!Todo(k.way)]
          /\ F!Todo(k.way) \in Seq(Steps)
          /\ \A i, j \in 1..Len(F!Todo(k.way)) : F!Todo(k.way)[i] = F!Todo(k.way)[j] => i = j
      BY <2>2, BeginType
    <3>2. job'.key = k /\ job'.at = f.at /\ job'.todo = F!Todo(k.way)
      BY <3>1
    <3>3. JobType' /\ OnceEach'
      BY <3>1, <3>2 DEF JobType, OnceEach
    <3>4. rows'[k] = 0 /\ applied'[k] = 0
      BY <2>2 DEF CountInv
    <3> QED BY <3>2, <3>3, <3>4 DEF JobInv
  <2> QED BY <2>1, <2>2
<1> QED BY <1>1, <1>2 DEF FillsInv

\* One of the steps that come after the mark.
LEMMA WorkStep ==
  ASSUME FillsInv, F!Row \/ F!Apply \/ F!Note PROVE FillsInv'
<1> USE DEF FillsInv, JobInv
<1>0. /\ job.todo # <<>> /\ job' = F!Rest /\ job.key \in F!Keys /\ job.key \in marked
      /\ UNCHANGED <<now, fills, marked, measured>>
  BY DEF F!Row, F!Apply, F!Note, F!disk
<1>1. /\ JobType' /\ OnceEach' /\ job'.key = job.key
      /\ Left(Head(job.todo)) /\ \A other : Left(other)' => Left(other)
  BY <1>0, RestEffect
<1>2. CASE F!Row
  <2>1. /\ rows' = F!More(rows, job.key) /\ waiting' = waiting \cup {F!Queued}
        /\ UNCHANGED <<applied, known>> /\ Head(job.todo) = "row"
    BY <1>2 DEF F!Row
  <2>2. rows[job.key] = 0 /\ ~Left("row")'
    BY <1>0, <1>1, <2>1, RestEffect
  <2>3. /\ rows' \in [F!Keys -> 0..1] /\ rows'[job.key] = 1
        /\ \A x \in F!Keys \ {job.key} : rows'[x] = rows[x]
    BY <1>0, <2>1, <2>2, MoreOnce DEF CountInv
  <2>4. measured[job.key] = 0 /\ F!Queued.key = job.key
    BY <1>0, <2>2 DEF CountInv, F!Queued
  <2>5. \A w \in waiting : w.key # job.key
    BY <2>2 DEF WaitInv
  <2>6. CountInv'
    BY <1>0, <2>1, <2>3 DEF CountInv
  <2>7. WaitInv'
    BY <1>0, <2>1, <2>3, <2>4, <2>5 DEF WaitInv
  <2>8. JobInv'
    BY <1>0, <1>1, <2>1, <2>2 DEF JobInv
  <2> QED BY <1>0, <2>1, <2>6, <2>7, <2>8
<1>3. CASE F!Apply
  <2>1. /\ applied' = F!More(applied, job.key) /\ UNCHANGED <<rows, waiting, known>>
        /\ Head(job.todo) = "apply"
    BY <1>3 DEF F!Apply, F!disk
  <2>2. applied[job.key] = 0 /\ ~Left("apply")'
    BY <1>0, <1>1, <2>1, RestEffect
  <2>3. /\ applied' \in [F!Keys -> 0..1]
        /\ \A x \in F!Keys \ {job.key} : applied'[x] = applied[x]
    BY <1>0, <2>1, <2>2, MoreOnce DEF CountInv
  <2>4. CountInv' /\ WaitInv'
    BY <1>0, <2>1, <2>3 DEF CountInv, WaitInv
  <2>5. JobInv'
    BY <1>0, <1>1, <2>1, <2>2 DEF JobInv
  <2> QED BY <1>0, <2>1, <2>4, <2>5
<1>4. CASE F!Note
  <2>1. UNCHANGED <<rows, applied, waiting>> /\ known' \subseteq known \cup {job.key}
    BY <1>4 DEF F!Note, F!disk
  <2>2. CountInv' /\ WaitInv'
    BY <1>0, <2>1 DEF CountInv, WaitInv
  <2>3. JobInv'
    BY <1>0, <1>1, <2>1 DEF JobInv
  <2> QED BY <1>0, <2>1, <2>2, <2>3
<1> QED BY <1>2, <1>3, <1>4

LEMMA RaiseStep == ASSUME FillsInv, F!Raise PROVE FillsInv'
<1> USE DEF FillsInv, JobInv
<1>1. /\ job.todo # <<>> /\ job' = F!Idle /\ job.key \in F!Keys /\ job.key \in marked
      /\ UNCHANGED <<now, fills, marked, measured, known, applied, waiting>>
      /\ rows' = rows \/ (Head(job.todo) = "row" /\ rows' = F!More(rows, job.key))
  BY DEF F!Raise, F!memory
<1>2. JobInv'
  BY <1>1, IdleType DEF JobInv
<1>3. CASE rows' = rows
  BY <1>1, <1>2, <1>3 DEF CountInv, WaitInv
<1>4. CASE Head(job.todo) = "row" /\ rows' = F!More(rows, job.key)
  <2>1. rows[job.key] = 0
    <3>1. 1 \in 1..Len(job.todo) /\ job.todo[1] = "row"
      BY <1>1, <1>4 DEF JobType
    <3> QED BY <3>1 DEF Left
  <2>2. /\ rows' \in [F!Keys -> 0..1] /\ rows'[job.key] = 1
        /\ \A x \in F!Keys \ {job.key} : rows'[x] = rows[x]
    BY <1>1, <1>4, <2>1, MoreOnce DEF CountInv
  <2>3. CountInv'
    BY <1>1, <2>1, <2>2 DEF CountInv
  <2>4. WaitInv'
    BY <1>1, <2>1, <2>2 DEF WaitInv
  <2> QED BY <1>1, <1>2, <2>3, <2>4
<1> QED BY <1>1, <1>3, <1>4

LEMMA FillsStep == FillsInv /\ [F!Next]_(F!vars) => FillsInv'
<1> SUFFICES ASSUME FillsInv, [F!Next]_(F!vars) PROVE FillsInv'
  OBVIOUS
<1> USE DEF FillsInv
<1>1. ASSUME NEW o \in Orders, F!Fill(o) PROVE FillsInv'
  <2>1. /\ fills' \subseteq F!Fills
        /\ UNCHANGED <<now, known, marked, job, rows, applied, measured, waiting>>
    BY <1>1 DEF F!Fill, F!Fills, F!disk, F!memory
  <2> QED BY <2>1 DEF JobInv, JobType, OnceEach, Left, CountInv, WaitInv
<1>2. ASSUME NEW f \in fills, F!Event(f) PROVE FillsInv'
  <2>1. F!KeyOf("event", f) \in F!Keys /\ f \in F!Fills
    BY KeyType
  <2> QED BY <1>2, <2>1, BeginStep DEF F!Event, F!Duplicate
<1>3. ASSUME NEW f \in fills, F!Missed(f) PROVE FillsInv'
  <2>1. F!KeyOf("snapshot", f) \in F!Keys /\ f \in F!Fills
    BY KeyType
  <2> QED BY <1>3, <2>1, BeginStep DEF F!Missed, F!Duplicate
<1>4. CASE F!Row \/ F!Apply \/ F!Note
  BY <1>4, WorkStep
<1>5. CASE F!Raise
  BY <1>5, RaiseStep
<1>6. ASSUME NEW w \in waiting, F!Measure(w) PROVE FillsInv'
  <2>1. /\ waiting' = waiting \ {w} /\ measured' \in {F!More(measured, w.key), measured}
        /\ UNCHANGED <<now, fills, marked, rows, known, applied, job>>
    BY <1>6 DEF F!Measure
  <2>2. w.key \in F!Keys /\ measured[w.key] = 0 /\ rows[w.key] = 1
    BY DEF WaitInv
  <2>3. /\ measured' \in [F!Keys -> 0..1]
        /\ \A x \in F!Keys \ {w.key} : measured'[x] = measured[x]
    BY <2>1, <2>2, MoreOnce DEF CountInv
  <2>4. CountInv' /\ WaitInv'
    BY <2>1, <2>2, <2>3 DEF CountInv, WaitInv
  <2> QED BY <2>1, <2>4 DEF JobInv, JobType, OnceEach, Left
<1>7. CASE F!CheckBudget \/ F!Restart \/ F!Tick \/ UNCHANGED F!vars
  <2>1. /\ now' \in F!Times
        /\ UNCHANGED <<fills, known, marked, job, rows, applied, measured, waiting>>
    BY <1>7, FillConstants DEF F!CheckBudget, F!Restart, F!Tick, F!disk, F!memory, F!vars, F!Times,
                               F!FillsAssumption
  <2> QED BY <2>1 DEF JobInv, JobType, OnceEach, Left, CountInv, WaitInv
<1>8. CASE F!Crash
  <2>1. /\ job' = F!Idle /\ known' = {} /\ applied' = F!None /\ waiting' = {}
        /\ UNCHANGED <<now, fills, marked, rows, measured>>
    BY <1>8 DEF F!Crash, F!disk
  <2>2. JobInv'
    BY <2>1, IdleType DEF JobInv
  <2>3. CountInv' /\ WaitInv'
    BY <2>1 DEF CountInv, WaitInv, F!None
  <2> QED BY <2>1, <2>2, <2>3
<1> QED BY <1>1, <1>2, <1>3, <1>4, <1>5, <1>6, <1>7, <1>8 DEF F!Next

\* The fills: reported again, by any channel and in any session, a fill has at
\* most one row, one effect on the inventory and one measurement.
THEOREM FillsCountOnceCorrect == F!Spec => []FillsCountOnce
<1>1. FillsInv => FillsCountOnce
  BY DEF FillsInv, CountInv, FillsCountOnce, F!FillsCountOnce
<1> QED BY <1>1, FillsStart, FillsStep, PTL DEF F!Spec

-----------------------------------------------------------------------------

(***************************************************************************)
(* The deduper holds a log's one key; what a reader has recorded and the   *)
(* deduper has not dropped since, it still holds; an entry that has passed *)
(* the check was not recorded by its reader; and a reader that is in the   *)
(* middle of an entry has it still before it, and so gets no others.       *)
(***************************************************************************)
KeyOfLog(l) == <<l, 0>>
Elements(s) == {s[i] : i \in 1..Len(s)}
ToEnd(s, at) == Append(O!RemoveAt(s, at), s[at])
Remembered == Elements(keys)
KeysInv == /\ \E S : keys \in Seq(S)
           /\ \A k \in Remembered : \E l : k = KeyOfLog(l)
TapeInv == /\ tape \in [O!Readers -> [Logs -> 0..2]]
           /\ \A r \in O!Readers, l \in Logs \ forgotten :
                /\ tape[r][l] <= 1
                /\ tape[r][l] # 0 => KeyOfLog(l) \in Remembered
PassedInv == /\ pending = [r \in O!Readers |-> pending[r]]
             /\ passed \in [O!Readers -> BOOLEAN]
             /\ \A r \in O!Readers : passed[r] =>
                  /\ pending[r] # <<>>
                  /\ \A l \in Logs \ forgotten : Head(pending[r]).log = l => tape[r][l] = 0
             /\ turn # "drain" => pending["thread"] = <<>>
OnchainInv == KeysInv /\ TapeInv /\ PassedInv

LEMMA RememberedKeys ==
  ASSUME KeysInv PROVE O!ToSet(keys) = Remembered /\ Len(keys) \in Nat
BY DEF KeysInv, Remembered, Elements, O!ToSet

\* A log's keys are those of it in the deduper.
LEMMA LogsOfKeys ==
  ASSUME NEW S, NEW ks \in Seq(S), \A i \in 1..Len(ks) : \E l : ks[i] = KeyOfLog(l)
  PROVE  \A l : l \in O!LogsOf(ks) <=> \E i \in 1..Len(ks) : ks[i] = KeyOfLog(l)
BY DEF O!LogsOf, O!ToSet, KeyOfLog

LEMMA AddedKeys ==
  ASSUME KeysInv, NEW l
  PROVE  /\ \E S : O!Added(KeyOfLog(l)) \in Seq(S)
         /\ LET ks == O!Added(KeyOfLog(l)) IN
            {ks[i] : i \in 1..Len(ks)} = Remembered \cup {KeyOfLog(l)}
<1>1. PICK S : keys \in Seq(S)
  BY DEF KeysInv
<1>2. CASE KeyOfLog(l) \in O!ToSet(keys)
  BY <1>1, <1>2, RememberedKeys DEF O!Added, Remembered, Elements
<1>3. CASE KeyOfLog(l) \notin O!ToSet(keys)
  <2> DEFINE ks == Append(keys, KeyOfLog(l))
  <2>1. O!Added(KeyOfLog(l)) = ks
    BY <1>3 DEF O!Added
  <2>2. keys \in Seq(S \cup {KeyOfLog(l)})
    BY <1>1
  <2>3. /\ ks \in Seq(S \cup {KeyOfLog(l)}) /\ Len(ks) = Len(keys) + 1 /\ Len(keys) \in Nat
        /\ ks[Len(keys) + 1] = KeyOfLog(l)
        /\ \A i \in 1..Len(keys) : ks[i] = keys[i]
    BY <2>2
  <2> HIDE DEF ks
  <2>4. {ks[i] : i \in 1..Len(ks)} = Remembered \cup {KeyOfLog(l)}
    <3>1. ASSUME NEW i \in 1..Len(ks) PROVE ks[i] \in Remembered \cup {KeyOfLog(l)}
      <4>1. i = Len(keys) + 1 \/ i \in 1..Len(keys)
        BY <2>3
      <4> QED BY <2>3, <4>1 DEF Remembered, Elements
    <3>2. ASSUME NEW i \in 1..Len(keys) PROVE keys[i] \in {ks[j] : j \in 1..Len(ks)}
      BY <2>3
    <3>3. KeyOfLog(l) \in {ks[j] : j \in 1..Len(ks)}
      BY <2>3
    <3> QED BY <3>1, <3>2, <3>3 DEF Remembered, Elements
  <2> QED BY <2>1, <2>3, <2>4
<1> QED BY <1>2, <1>3

\* What stays of them: the log whose key is dropped is forgotten.
LEMMA KeptKeys ==
  ASSUME KeysInv, NEW l, keys' = O!Kept(O!Added(KeyOfLog(l)))
  PROVE  /\ KeysInv'
         /\ \A k \in Remembered \cup {KeyOfLog(l)} :
              \A x : k = KeyOfLog(x) =>
                k \in Remembered' \/ x \in O!LogsOf(O!Added(KeyOfLog(l))) \ O!LogsOf(keys')
<1> DEFINE ks == O!Added(KeyOfLog(l))
<1>1. PICK S : ks \in Seq(S)
  BY AddedKeys
<1>2. {ks[i] : i \in 1..Len(ks)} = Remembered \cup {KeyOfLog(l)} /\ keys' = O!Kept(ks)
  BY AddedKeys
<1> HIDE DEF ks
<1>3. /\ keys' \in Seq(S) /\ \A i \in 1..Len(keys') : \E j \in 1..Len(ks) : keys'[i] = ks[j]
  <2>1. CASE Len(ks) > LruSize
    <3>0. ks # <<>>
      BY <1>1, <2>1, OnchainConstants DEF O!OnchainAssumption
    <3>1. keys' = Tail(ks)
      BY <1>2, <2>1 DEF O!Kept
    <3>2. /\ Tail(ks) \in Seq(S) /\ Len(Tail(ks)) = Len(ks) - 1
          /\ \A i \in 1..Len(ks) - 1 : Tail(ks)[i] = ks[i + 1]
      BY <1>1, <3>0
    <3> QED BY <3>1, <3>2
  <2>2. CASE ~(Len(ks) > LruSize)
    BY <1>1, <1>2, <2>2 DEF O!Kept
  <2> QED BY <2>1, <2>2
<1>4. \A i \in 1..Len(ks) : \E x : ks[i] = KeyOfLog(x)
  BY <1>2 DEF KeysInv
<1>5. \A i \in 1..Len(keys') : \E x : keys'[i] = KeyOfLog(x)
  BY <1>3, <1>4
<1>6. KeysInv'
  BY <1>3, <1>5 DEF KeysInv, Remembered, Elements
<1>7. \A x : x \in O!LogsOf(ks) <=> \E i \in 1..Len(ks) : ks[i] = KeyOfLog(x)
  BY <1>1, <1>4, LogsOfKeys
<1>8. \A x : x \in O!LogsOf(keys') <=> \E i \in 1..Len(keys') : keys'[i] = KeyOfLog(x)
  BY <1>3, <1>5, LogsOfKeys
<1> QED BY <1>2, <1>6, <1>7, <1>8 DEF ks, Remembered, Elements

LEMMA MinOfTwo ==
  ASSUME NEW n \in 0..2
  PROVE  O!Min({n + 1, 2}) = IF n = 0 THEN 1 ELSE 2
<1>1. ASSUME NEW m \in {n + 1, 2}, \A x \in {n + 1, 2} : m <= x
      PROVE  m = IF n = 0 THEN 1 ELSE 2
  BY <1>1
<1>2. /\ (IF n = 0 THEN 1 ELSE 2) \in {n + 1, 2}
      /\ \A x \in {n + 1, 2} : (IF n = 0 THEN 1 ELSE 2) <= x
  OBVIOUS
<1> QED BY <1>1, <1>2 DEF O!Min

LEMMA OnchainStart == O!Init => OnchainInv
<1> SUFFICES ASSUME O!Init PROVE OnchainInv
  OBVIOUS
<1>1. KeysInv
  <2>1. <<>> \in Seq({}) /\ Len(<<>>) = 0
    OBVIOUS
  <2> QED BY <2>1 DEF KeysInv, Remembered, Elements, O!Init
<1>2. TapeInv /\ PassedInv
  BY DEF TapeInv, PassedInv, O!Init, O!Readers
<1> QED BY <1>1, <1>2 DEF OnchainInv

\* An element that is moved to the end: the same elements.
LEMMA MovedToEnd ==
  ASSUME NEW S, NEW s \in Seq(S), NEW at \in 1..Len(s)
  PROVE  ToEnd(s, at) \in Seq(S) /\ Elements(ToEnd(s, at)) = Elements(s)
<1> DEFINE t == ToEnd(s, at)
           front == SubSeq(s, 1, at - 1)
           back == SubSeq(s, at + 1, Len(s))
<1>1. Len(s) \in Nat /\ at \in Nat /\ \A i \in 1..Len(s) : s[i] \in S
  OBVIOUS
<1>2. /\ front \in Seq(S) /\ Len(front) = at - 1
      /\ \A i \in 1..(at - 1) - 1 + 1 : front[i] = s[1 + i - 1]
  BY <1>1, SubSeqProperties
<1>3. /\ back \in Seq(S) /\ Len(back) = Len(s) - at
      /\ \A i \in 1..Len(s) - (at + 1) + 1 : back[i] = s[at + 1 + i - 1]
  BY <1>1, SubSeqProperties
<1>4. t = Append(front \o back, s[at])
  BY DEF O!RemoveAt, ToEnd
<1> HIDE DEF front, back, t
<1>5. /\ front \o back \in Seq(S) /\ Len(front \o back) = Len(front) + Len(back)
      /\ \A i \in 1 .. Len(front) + Len(back) :
           (front \o back)[i] = IF i <= Len(front) THEN front[i] ELSE back[i - Len(front)]
  BY <1>2, <1>3, ConcatProperties, Zenon
<1>6. /\ t \in Seq(S) /\ Len(t) = Len(front \o back) + 1 /\ t[Len(front \o back) + 1] = s[at]
      /\ \A i \in 1..Len(front \o back) : t[i] = (front \o back)[i]
  BY <1>1, <1>4, <1>5, AppendProperties
<1>7. Len(t) = Len(s) /\ Len(front \o back) = Len(s) - 1 /\ t[Len(s)] = s[at]
  BY <1>1, <1>2, <1>3, <1>5, <1>6
<1>8. ASSUME NEW i \in 1..at - 1 PROVE t[i] = s[i]
  <2>1. i \in 1..Len(front \o back) /\ i <= Len(front) /\ i \in 1..Len(front) + Len(back)
        /\ i \in 1..(at - 1) - 1 + 1 /\ 1 + i - 1 = i
    BY <1>1, <1>2, <1>3, <1>7
  <2> QED BY <1>2, <1>5, <1>6, <2>1
<1>9. ASSUME NEW i \in at + 1..Len(s) PROVE t[i - 1] = s[i]
  <2>1. /\ i - 1 \in 1..Len(front \o back) /\ ~(i - 1 <= Len(front)) /\ i - 1 \in 1..Len(front) + Len(back)
        /\ i - at \in 1..Len(s) - (at + 1) + 1 /\ at + 1 + (i - at) - 1 = i
        /\ (i - 1) - Len(front) = i - at
    BY <1>1, <1>2, <1>3, <1>7
  <2>2. back[i - at] = s[at + 1 + (i - at) - 1]
    BY <1>3, <2>1
  <2>3. t[i - 1] = back[(i - 1) - Len(front)]
    BY <1>5, <1>6, <2>1
  <2> QED BY <2>1, <2>2, <2>3
<1>10. \A i \in 1..Len(s) : \E j \in 1..Len(t) : t[j] = s[i]
  <2> SUFFICES ASSUME NEW i \in 1..Len(s) PROVE \E j \in 1..Len(t) : t[j] = s[i]
    OBVIOUS
  <2>1. CASE i = at
    BY <1>1, <1>7, <2>1
  <2>2. CASE i < at
    <3>1. i \in 1..at - 1 /\ i \in 1..Len(t)
      BY <1>1, <1>7, <2>2
    <3> QED BY <1>8, <3>1
  <2>3. CASE i > at
    <3>1. i \in at + 1..Len(s) /\ i - 1 \in 1..Len(t)
      BY <1>1, <1>7, <2>3
    <3> QED BY <1>9, <3>1
  <2> QED BY <1>1, <2>1, <2>2, <2>3
<1>11. \A i \in 1..Len(t) : \E j \in 1..Len(s) : t[i] = s[j]
  <2> SUFFICES ASSUME NEW i \in 1..Len(t) PROVE \E j \in 1..Len(s) : t[i] = s[j]
    OBVIOUS
  <2>1. CASE i = Len(s)
    BY <1>1, <1>7, <2>1
  <2>2. CASE i < at
    <3>1. i \in 1..at - 1 /\ i \in 1..Len(s)
      BY <1>1, <1>7, <2>2
    <3> QED BY <1>8, <3>1
  <2>3. CASE i >= at /\ i # Len(s)
    <3>1. i + 1 \in at + 1..Len(s) /\ i + 1 \in 1..Len(s) /\ (i + 1) - 1 = i
      BY <1>1, <1>7, <2>3
    <3>2. t[(i + 1) - 1] = s[i + 1]
      BY <1>9, <3>1
    <3> QED BY <3>1, <3>2
  <2> QED BY <1>1, <1>7, <2>1, <2>2, <2>3
<1>12. {t[i] : i \in 1..Len(t)} \subseteq {s[i] : i \in 1..Len(s)}
  BY <1>11
<1>13. {s[i] : i \in 1..Len(s)} \subseteq {t[i] : i \in 1..Len(t)}
  BY <1>10
<1> QED BY <1>6, <1>12, <1>13 DEF Elements, t

\* A key that is known becomes the youngest: the same keys are held.
LEMMA Refreshed ==
  ASSUME KeysInv, NEW k \in O!ToSet(keys),
         keys' = Append(O!RemoveAt(keys, CHOOSE i \in DOMAIN keys : keys[i] = k), k)
  PROVE  KeysInv' /\ Remembered' = Remembered
<1> DEFINE at == CHOOSE i \in DOMAIN keys : keys[i] = k
<1>1. PICK S : keys \in Seq(S)
  BY DEF KeysInv
<1>2. at \in 1..Len(keys) /\ keys[at] = k
  <2>1. \E i \in DOMAIN keys : keys[i] = k
    BY DEF O!ToSet
  <2> QED BY <1>1, <2>1
<1>3. keys' = ToEnd(keys, at)
  BY <1>2 DEF ToEnd
<1> HIDE DEF at
<1>4. ToEnd(keys, at) \in Seq(S) /\ Elements(ToEnd(keys, at)) = Elements(keys)
  BY <1>1, <1>2, MovedToEnd
<1>5. Remembered' = Remembered
  BY <1>3, <1>4 DEF Remembered, Elements
<1> QED BY <1>3, <1>4, <1>5 DEF KeysInv

LEMMA CheckStep ==
  ASSUME OnchainInv, NEW r \in O!Readers, O!Check(r) PROVE OnchainInv'
<1> USE DEF OnchainInv
<1> DEFINE k == O!Key(Head(pending[r]))
           l == Head(pending[r]).log
<1>0. /\ pending[r] # <<>> /\ ~passed[r] /\ k = KeyOfLog(l)
      /\ UNCHANGED <<turn, forgotten, tape>>
  BY DEF O!Check, O!Key, KeyOfLog, O!loop
<1>1. CASE k \in O!ToSet(keys)
  <2>1. /\ keys' = Append(O!RemoveAt(keys, CHOOSE i \in DOMAIN keys : keys[i] = k), k)
        /\ pending' = [pending EXCEPT ![r] = Tail(@)] /\ passed' = passed
    BY <1>1 DEF O!Check
  <2>2. KeysInv' /\ Remembered' = Remembered
    BY <1>1, <2>1, Refreshed
  <2>3. TapeInv'
    BY <1>0, <2>2 DEF TapeInv
  <2>4. /\ pending' = [x \in O!Readers |-> pending'[x]]
        /\ \A x \in O!Readers \ {r} : pending'[x] = pending[x]
    BY <2>1 DEF PassedInv
  <2>5. turn # "drain" => r # "thread"
    BY <1>0 DEF PassedInv
  <2>6. PassedInv'
    BY <1>0, <2>1, <2>4, <2>5 DEF PassedInv, O!Readers
  <2> QED BY <2>2, <2>3, <2>6
<1>2. CASE k \notin O!ToSet(keys)
  <2>1. passed' = [passed EXCEPT ![r] = TRUE] /\ UNCHANGED <<keys, pending>>
    BY <1>2 DEF O!Check
  <2>2. KeysInv' /\ Remembered' = Remembered
    BY <2>1 DEF KeysInv, Remembered, Elements
  <2>3. TapeInv'
    BY <1>0, <2>2 DEF TapeInv
  <2>4. \A x \in Logs \ forgotten : l = x => tape[r][x] = 0
    BY <1>0, <1>2, RememberedKeys DEF TapeInv
  <2>5. PassedInv'
    BY <1>0, <2>1, <2>4 DEF PassedInv
  <2> QED BY <2>2, <2>3, <2>5
<1> QED BY <1>1, <1>2

\* What the deduper does with an entry: a log whose key it drops is forgotten.
LEMMA InsertEffect ==
  ASSUME OnchainInv, NEW l, keys' = O!Kept(O!Added(KeyOfLog(l))),
         forgotten' = forgotten \cup (O!LogsOf(O!Added(KeyOfLog(l))) \ O!LogsOf(keys'))
  PROVE  /\ KeysInv' /\ forgotten \subseteq forgotten'
         /\ \A x : x \notin forgotten' /\ KeyOfLog(x) \in Remembered => KeyOfLog(x) \in Remembered'
         /\ l \notin forgotten' => KeyOfLog(l) \in Remembered'
<1>1. KeysInv' /\ \A k \in Remembered \cup {KeyOfLog(l)} :
                    \A x : k = KeyOfLog(x) =>
                      k \in Remembered' \/ x \in O!LogsOf(O!Added(KeyOfLog(l))) \ O!LogsOf(keys')
  BY KeptKeys DEF OnchainInv
<1> QED BY <1>1

LEMMA RecordStep ==
  ASSUME OnchainInv, NEW r \in O!Readers, O!Record(r) PROVE OnchainInv'
<1> USE DEF OnchainInv
<1> DEFINE l == Head(pending[r]).log
           added == O!Added(KeyOfLog(l))
<1>1. /\ passed[r] /\ UNCHANGED turn
      /\ keys' = O!Kept(added)
      /\ forgotten' = forgotten \cup (O!LogsOf(added) \ O!LogsOf(keys'))
      /\ tape' = [tape EXCEPT ![r][l] = O!Min({@ + 1, 2})]
      /\ pending' = [pending EXCEPT ![r] = Tail(@)]
      /\ passed' = [passed EXCEPT ![r] = FALSE]
  BY DEF O!Record, O!Key, KeyOfLog, O!loop
<1>2. /\ KeysInv' /\ forgotten \subseteq forgotten'
      /\ \A x : x \notin forgotten' /\ KeyOfLog(x) \in Remembered => KeyOfLog(x) \in Remembered'
      /\ l \notin forgotten' => KeyOfLog(l) \in Remembered'
  BY <1>1, InsertEffect
<1>3. /\ tape' \in [O!Readers -> [Logs -> 0..2]]
      /\ \A x \in O!Readers, m \in Logs :
           tape'[x][m] = IF x = r /\ m = l THEN (IF tape[r][l] = 0 THEN 1 ELSE 2) ELSE tape[x][m]
  <2>1. CASE l \in Logs
    <3>1. tape[r][l] \in 0..2
      BY <2>1 DEF TapeInv
    <3>2. O!Min({tape[r][l] + 1, 2}) = IF tape[r][l] = 0 THEN 1 ELSE 2
      BY <3>1, MinOfTwo
    <3>3. tape' = [tape EXCEPT ![r] = [tape[r] EXCEPT ![l] = IF tape[r][l] = 0 THEN 1 ELSE 2]]
      BY <1>1, <2>1, <3>2 DEF TapeInv
    <3> HIDE DEF l
    <3> QED BY <2>1, <3>3 DEF TapeInv
  <2>2. CASE l \notin Logs
    BY <1>1, <2>2 DEF TapeInv
  <2> QED BY <2>1, <2>2
<1>4. l \in Logs \ forgotten => tape[r][l] = 0
  BY <1>1 DEF PassedInv
<1>5. TapeInv'
  BY <1>2, <1>3, <1>4 DEF TapeInv
<1>6. /\ pending' = [x \in O!Readers |-> pending'[x]]
      /\ \A x \in O!Readers \ {r} : pending'[x] = pending[x]
      /\ passed' \in [O!Readers -> BOOLEAN] /\ ~passed'[r]
      /\ \A x \in O!Readers \ {r} : passed'[x] = passed[x] /\ tape'[x] = tape[x]
  BY <1>1 DEF PassedInv, TapeInv
<1>7. turn # "drain" => r # "thread"
  BY <1>1 DEF PassedInv
<1>8. PassedInv'
  BY <1>1, <1>2, <1>6, <1>7 DEF PassedInv, O!Readers
<1> QED BY <1>2, <1>5, <1>8

LEMMA RecordFailsStep ==
  ASSUME OnchainInv, NEW r \in O!Readers, O!RecordFails(r) PROVE OnchainInv'
<1> USE DEF OnchainInv
<1> DEFINE l == Head(pending[r]).log
           added == O!Added(KeyOfLog(l))
<1>1. /\ keys' = O!Kept(added) /\ UNCHANGED tape
      /\ forgotten' = forgotten \cup (O!LogsOf(added) \ O!LogsOf(keys'))
      /\ \/ /\ r = "loop"
            /\ pending' = [pending EXCEPT ![r] = <<>>]
            /\ passed' = [passed EXCEPT ![r] = FALSE]
            /\ UNCHANGED turn
         \/ /\ pending' = [x \in O!Readers |-> <<>>]
            /\ passed' = [x \in O!Readers |-> FALSE]
  BY DEF O!RecordFails, O!Key, KeyOfLog, O!loop
<1>2. /\ KeysInv' /\ forgotten \subseteq forgotten'
      /\ \A x : x \notin forgotten' /\ KeyOfLog(x) \in Remembered => KeyOfLog(x) \in Remembered'
  BY <1>1, InsertEffect
<1>3. TapeInv'
  BY <1>1, <1>2 DEF TapeInv
<1>4. PassedInv'
  <2>1. CASE r = "loop" /\ pending' = [pending EXCEPT ![r] = <<>>]
             /\ passed' = [passed EXCEPT ![r] = FALSE] /\ UNCHANGED turn
    <3>1. /\ pending' = [x \in O!Readers |-> pending'[x]]
          /\ pending'["thread"] = pending["thread"]
          /\ passed' \in [O!Readers -> BOOLEAN] /\ ~passed'["loop"]
          /\ passed'["thread"] = passed["thread"]
      BY <2>1 DEF PassedInv, O!Readers
    <3> QED BY <1>1, <1>2, <2>1, <3>1 DEF PassedInv, O!Readers
  <2>2. CASE pending' = [x \in O!Readers |-> <<>>] /\ passed' = [x \in O!Readers |-> FALSE]
    BY <2>2 DEF PassedInv, O!Readers
  <2> QED BY <1>1, <2>1, <2>2
<1> QED BY <1>2, <1>3, <1>4

LEMMA OnchainStep == OnchainInv /\ [O!Next]_(O!vars) => OnchainInv'
<1> SUFFICES ASSUME OnchainInv, [O!Next]_(O!vars) PROVE OnchainInv'
  OBVIOUS
<1> USE DEF OnchainInv
<1>1. ASSUME UNCHANGED <<keys, forgotten, tape>>, PassedInv' PROVE OnchainInv'
  BY <1>1 DEF KeysInv, Remembered, Elements, TapeInv
<1>2. ASSUME UNCHANGED <<passed, forgotten, tape>>,
             \E r \in O!Readers : ~passed[r] /\ \E es : pending' = [pending EXCEPT ![r] = es],
             turn' # "drain" => pending'["thread"] = <<>>
      PROVE  PassedInv'
  BY <1>2 DEF PassedInv
<1>3. ASSUME NEW r \in O!Readers, O!Check(r) \/ O!Record(r) \/ O!RecordFails(r) PROVE OnchainInv'
  BY <1>3, CheckStep, RecordStep, RecordFailsStep
<1>4. CASE O!Reconcile \/ O!Poll
  <2>1. ~passed["loop"] /\ "loop" \in O!Readers
    BY <1>4 DEF O!Reconcile, O!Poll, O!Free, PassedInv, O!Readers
  <2>2. /\ \E es : pending' = [pending EXCEPT !["loop"] = es]
        /\ UNCHANGED <<turn, passed, keys, forgotten, tape>>
    BY <1>4 DEF O!Reconcile, O!Poll, O!loop, O!dedupe
  <2>3. pending'["thread"] = pending["thread"]
    BY <2>2 DEF PassedInv, O!Readers
  <2> QED BY <1>1, <1>2, <2>1, <2>2, <2>3 DEF PassedInv
<1>5. CASE O!Drain
  <2>1. /\ turn = "sleep" /\ UNCHANGED <<passed, keys, forgotten, tape>>
        /\ \/ pending' = [pending EXCEPT !["thread"] = news] /\ turn' = "drain"
           \/ UNCHANGED pending /\ turn' = "failed"
    BY <1>5 DEF O!Drain, O!dedupe
  <2>2. ~passed["thread"] /\ pending["thread"] = <<>> /\ "thread" \in O!Readers
    BY <2>1 DEF PassedInv, O!Readers
  <2>3. PassedInv'
    BY <2>1, <2>2 DEF PassedInv
  <2> QED BY <1>1, <2>1, <2>3
<1>6. CASE O!TurnEnds \/ O!TurnFails \/ O!Mine \/ O!Reorg \/ UNCHANGED O!vars
  <2>1. UNCHANGED <<pending, passed, keys, forgotten, tape>>
    BY <1>6 DEF O!TurnEnds, O!TurnFails, O!Mine, O!Reorg, O!vars, O!dedupe
  <2>2. turn' = turn \/ pending["thread"] = <<>>
    BY <1>6 DEF O!TurnEnds, O!TurnFails, O!Mine, O!Reorg, O!vars, O!loop, PassedInv
  <2>3. PassedInv'
    BY <2>1, <2>2 DEF PassedInv
  <2> QED BY <1>1, <2>1, <2>3
<1> QED BY <1>3, <1>4, <1>5, <1>6 DEF O!Next

\* The ingestor: no reader records a log again that the deduper remembers,
\* whatever it drops, forgets with a reorganisation, or fails to write.
THEOREM RecordedOnceCorrect == O!Spec => []RecordedOnce
<1>1. OnchainInv => RecordedOnce
  BY DEF OnchainInv, TapeInv, RecordedOnce, O!RecordedOnce
<1> QED BY <1>1, OnchainStart, OnchainStep, PTL DEF O!Spec

=============================================================================
