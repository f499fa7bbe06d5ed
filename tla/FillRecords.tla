----------------------------- MODULE FillRecords -----------------------------
(***************************************************************************)
(* What the runtime (scripts/run_system) does with a fill: one the broker  *)
(* reports as an event, and one it finds in the broker's snapshot.  Both   *)
(* ways mark the fill's key in the database before anything else, so that  *)
(* a fill reported again, even after a restart, is told from a new one;    *)
(* the rest follows one statement at a time, and each of those that write  *)
(* to the database may raise, or the process may end.  The two ways name   *)
(* a fill differently.  Measurements of a fill are due some time later.    *)
(***************************************************************************)
EXTENDS Integers, FiniteSets, Sequences

CONSTANTS
  Orders,     \* orders at the broker
  Due,        \* time after which a fill is measured
  Bucket,     \* times that a key made from the fill's facts does not tell apart
  DayLength,  \* time of a day
  MaxTime, MaxFills, MaxSessions  \* bounds

FillsAssumption ==
  /\ Due \in Nat /\ Bucket \in Nat \ {0} /\ DayLength \in Nat \ {0}
  /\ MaxTime \in Nat /\ MaxFills \in Nat /\ MaxSessions \in Nat \ {0}

VARIABLES
  now,
  fills,      \* fills at the broker: order and time
  session,    \* which one runs, 0 while none does
  sessions,   \* how many there were
  \* The database.
  marked,     \* seen_fill_events
  rows,       \* fills: how many rows each key has
  taped,      \* orders and trade tape: rows of each key, up to two
  measured,   \* execution_quality: rows of each key
  \* Memory.
  known,      \* _seen_reconcile_fill_ids
  applied,    \* how often each key has changed the inventory
  waiting,    \* fills to be measured, and when
  day, spent, \* the day of the daily counters, and the fills they count
  job         \* the fill being dealt with, and what is still to do

disk == <<marked, rows, taped, measured>>
memory == <<known, applied, waiting, day, spent>>
vars == <<now, fills, session, sessions, disk, memory, job>>

Times == 0 .. MaxTime
Fills == [order : Orders, at : Times]
Keys == [way : {"event", "snapshot"}, order : Orders, stamp : Times]

\* The broker's event has the fill's time, the key made of a snapshot's row
\* (_fill_event_key) only the second.
KeyOf(way, f) ==
  [way |-> way, order |-> f.order,
   stamp |-> IF way = "event" THEN f.at ELSE f.at \div Bucket]

Idle == [key |-> CHOOSE k \in Keys : TRUE, at |-> 0, todo |-> <<>>]
None == [k \in Keys |-> 0]
More(count, k) == [count EXCEPT ![k] = IF @ = 2 THEN 2 ELSE @ + 1]

Init ==
  /\ now = 0 /\ fills = {} /\ session = 1 /\ sessions = 1
  /\ marked = {} /\ rows = None /\ taped = None /\ measured = None
  /\ known = {} /\ applied = None /\ waiting = {} /\ day = 0 /\ spent = 0
  /\ job = Idle

-----------------------------------------------------------------------------
(* A fill.                                                                 *)

\* The broker: a fill now.
Fill(o) ==
  /\ Cardinality(fills) < MaxFills
  /\ fills' = fills \cup {[order |-> o, at |-> now]}
  /\ fills' # fills
  /\ UNCHANGED <<now, session, sessions, disk, memory, job>>

\* Only what this session has seen is a duplicate.
BugDuplicate(k) == k \in known

\* In memory, or at the second look in the table of keys.
Duplicate(k) == k \in known \/ k \in marked

\* The statements after the mark, in the order of the code.
Todo(way) == IF way = "event" THEN <<"row", "latency", "apply", "transition">>
             ELSE <<"apply", "transition", "row", "recovery", "know">>

Begin(k, f) == [key |-> k, at |-> f.at, todo |-> Todo(k.way)]

\* _handle_broker_event: an event goes on the tape whatever it is; its key is
\* marked and known, and if it is new the rest is to do.
Event(f) ==
  LET k == KeyOf("event", f)
  IN /\ session # 0 /\ job.todo = <<>>
     /\ taped' = More(taped, k)
     /\ marked' = marked \cup {k} /\ known' = known \cup {k}
     /\ job' = IF Duplicate(k) THEN job ELSE Begin(k, f)
  /\ UNCHANGED <<now, fills, session, sessions, rows, measured, applied, waiting, day, spent>>

\* One row of _reconcile_missed_fills: it is known only when all is done.
Missed(f) ==
  LET k == KeyOf("snapshot", f)
  IN /\ session # 0 /\ job.todo = <<>>
     /\ marked' = marked \cup {k}
     /\ IF Duplicate(k) THEN known' = known \cup {k} /\ UNCHANGED job
        ELSE job' = Begin(k, f) /\ UNCHANGED known
  /\ UNCHANGED <<now, fills, session, sessions, rows, taped, measured, applied, waiting, day, spent>>

Rest == [job EXCEPT !.todo = Tail(@)]

\* _reset_daily_counters_if_needed, at the time it is given.
DayOf(t) == t \div DayLength
SpentBy(t) == IF DayOf(t) = day THEN spent ELSE 0

Queued == [key |-> job.key, due |-> job.at + Due]

\* The row, and in memory the measurement to come; an event counts for its day.
Row ==
  /\ job.todo # <<>> /\ Head(job.todo) = "row"
  /\ rows' = More(rows, job.key)
  /\ waiting' = waiting \cup {Queued}
  /\ IF job.key.way = "event" THEN day' = DayOf(job.at) /\ spent' = SpentBy(job.at) + 1
     ELSE UNCHANGED <<day, spent>>
  /\ job' = Rest
  /\ UNCHANGED <<now, fills, session, sessions, marked, taped, measured, known, applied>>

Apply ==
  /\ job.todo # <<>> /\ Head(job.todo) = "apply"
  /\ applied' = More(applied, job.key)
  /\ job' = Rest
  /\ UNCHANGED <<now, fills, session, sessions, disk, known, waiting, day, spent>>

\* Rows that nothing reads again; in the end the key is known.
Note ==
  /\ job.todo # <<>> /\ Head(job.todo) \in {"latency", "transition", "recovery", "know"}
  /\ known' = IF Head(job.todo) = "know" THEN known \cup {job.key} ELSE known
  /\ job' = Rest
  /\ UNCHANGED <<now, fills, session, sessions, disk, applied, waiting, day, spent>>

\* A statement that writes raises: the rest is never done.  A row may have
\* been written all the same, when its copy in evidence_rows was what failed.
Raise ==
  /\ job.todo # <<>> /\ Head(job.todo) \in {"row", "latency", "transition", "recovery"}
  /\ rows' \in {rows} \cup {More(rows, job.key) : x \in {"row"} \cap {Head(job.todo)}}
  /\ job' = Idle
  /\ UNCHANGED <<now, fills, session, sessions, marked, taped, measured, memory>>

-----------------------------------------------------------------------------
(* Measurements, the day, and the process.                                 *)

\* _flush_execution_quality: taken from the queue first, then written.
Measure(w) ==
  /\ session # 0 /\ job.todo = <<>> /\ w.due <= now
  /\ waiting' = waiting \ {w}
  /\ measured' \in {More(measured, w.key), measured}
  /\ UNCHANGED <<now, fills, session, sessions, marked, rows, taped, known, applied, day, spent, job>>

\* _risk_budget_reasons looks at the counters of today.
CheckBudget ==
  /\ session # 0 /\ job.todo = <<>> /\ DayOf(now) # day
  /\ day' = DayOf(now) /\ spent' = SpentBy(now)
  /\ UNCHANGED <<now, fills, session, sessions, disk, known, applied, waiting, job>>

\* The process ends anywhere.
Crash ==
  /\ session # 0
  /\ session' = 0 /\ job' = Idle
  /\ known' = {} /\ applied' = None /\ waiting' = {} /\ day' = 0 /\ spent' = 0
  /\ UNCHANGED <<now, fills, sessions, disk>>

Restart ==
  /\ session = 0 /\ sessions < MaxSessions
  /\ session' = sessions + 1 /\ sessions' = sessions + 1
  /\ UNCHANGED <<now, fills, disk, memory, job>>

Tick == /\ now < MaxTime /\ now' = now + 1
        /\ UNCHANGED <<fills, session, sessions, disk, memory, job>>

Next ==
  \/ \E o \in Orders : Fill(o)
  \/ \E f \in fills : Event(f) \/ Missed(f)
  \/ Row \/ Apply \/ Note \/ Raise
  \/ \E w \in waiting : Measure(w)
  \/ CheckBudget \/ Crash \/ Restart \/ Tick

Spec == Init /\ [][Next]_vars

-----------------------------------------------------------------------------

TypeOK ==
  /\ now \in Times /\ fills \subseteq Fills /\ session \in 0 .. sessions
  /\ marked \subseteq Keys /\ known \subseteq marked
  /\ rows \in [Keys -> 0 .. 2] /\ taped \in [Keys -> 0 .. 2] /\ measured \in [Keys -> 0 .. 2]
  /\ applied \in [Keys -> 0 .. 2] /\ spent <= Cardinality(fills)
  /\ \A w \in waiting : w.key \in marked

(* However often a fill is reported in one way, before a restart and after *)
(* it, and wherever the handling breaks off: it has one row at most, moves *)
(* the inventory once at most, and is measured once, if it has a row.      *)
FillsCountOnce ==
  \A k \in Keys : measured[k] <= rows[k] /\ rows[k] <= 1 /\ applied[k] <= 1

(* A fill that has been marked is applied in the session that marked it;   *)
(* it fails, for whatever breaks off the handling is never taken up again. *)
MarkedIsApplied ==
  job.todo = <<>> /\ session = 1 => \A k \in marked : applied[k] = 1

(* A fill counts once whichever way it is reported; it fails, for the two  *)
(* ways use different keys.                                                *)
WaysAgree == \A f \in fills : applied[KeyOf("event", f)] + applied[KeyOf("snapshot", f)] <= 1

(* What was filled today stays in the daily counters; it fails, for an     *)
(* event of yesterday's fill sets them back.                               *)
DayCounted ==
  job.todo = <<>> /\ day = DayOf(now) =>
    spent >= Cardinality({k \in Keys : k.way = "event" /\ applied[k] > 0 /\ DayOf(k.stamp) = day})
=============================================================================
