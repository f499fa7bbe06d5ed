--------------------------- MODULE SessionRecords ---------------------------
(***************************************************************************)
(* What a session leaves behind: StandaloneTelemetry (core_mm/telemetry.py)*)
(* records each fill on a tape and in tables, and measures afterwards      *)
(* where the price went; at its end the script (scripts/run_core_mm.py)    *)
(* has MemoryStore (core_mm/memory.py) add the session's summary to its    *)
(* history and to what it remembers of the market.                         *)
(*                                                                         *)
(* Tapes are appended to at once, table rows wait in a queue for the next  *)
(* flush, and history and memory are committed one after the other; the    *)
(* process may be killed, or a step fail, in between.                      *)
(*                                                                         *)
(* Data.  A fill is a number, given in the order of trading.  A markout is *)
(* "for" or "against" the fill.  Of the tables, fills and execution        *)
(* quality are kept, of summaries and memory the counts of fills and       *)
(* sessions.  All sessions end in one market.                              *)
(***************************************************************************)
EXTENDS Integers, Sequences, FiniteSets, FiniteSetsExt, Functions

CONSTANTS
  Folders,     \* runtime roots
  Orders,      \* orders of a session
  MaxTraded,   \* bound: fills of all sessions
  MaxSessions  \* bound: sessions

RecordsAssumption == MaxTraded \in Nat /\ MaxSessions \in Nat \ {0}

VARIABLES
  \* The session.
  place,     \* where the script is
  folder,    \* its runtime root
  fills,     \* the broker's fills, with their orders
  recorded,  \* how many of them have been drained and recorded
  queue,     \* rows waiting for the next flush
  pending,   \* each order's fill that is still being measured
  summary,   \* fills of the session, by its summary
  \* What stays.
  tape,      \* each folder's fills.jsonl
  tables,    \* each folder's runtime.db
  history,   \* each folder's entry in session_history
  memory,    \* market_memory
  \* History of the behaviour.
  traded,    \* fills so far
  sessions,  \* sessions so far
  used,      \* folders of sessions
  killed,    \* folders a session was killed in
  torn       \* folders a tape could not be written in

session == <<place, folder, fills, recorded, pending, summary>>
kept == <<tape, history, memory>>
past == <<traded, sessions, used, killed, torn>>
vars == <<session, queue, tables, kept, past>>

Places ==
  {"wait", "record", "cycle", "written", "ending", "history", "memory", "closing", "off"}

Ids == 1..MaxTraded
Markouts == {"open", "for", "against"}
Quality == [fill : Ids, one : Markouts, five : Markouts]
Rows == [fills : SUBSET Ids, quality : SUBSET Quality]

NoRows == [fills |-> {}, quality |-> {}]
NotPending == [fill |-> 0, one |-> "open", five |-> "open"]
NoEntry == -1

TypeOK ==
  /\ place \in Places
  /\ folder \in Folders
  /\ fills \in Seq([id : Ids, order : Orders])
  /\ recorded \in 0..Len(fills)
  /\ queue \in Rows
  /\ pending \in [Orders -> Quality \cup {NotPending}]
  /\ summary \in 0..MaxTraded
  /\ tape \in [Folders -> Seq(Ids)]
  /\ tables \in [Folders -> Rows]
  /\ history \in [Folders -> (0..MaxTraded) \cup {NoEntry}]
  /\ memory \in [sessions : Nat, fills : Nat]
  /\ traded \in 0..MaxTraded
  /\ sessions \in 1..MaxSessions
  /\ used \subseteq Folders
  /\ killed \subseteq Folders
  /\ torn \subseteq Folders

Init ==
  /\ place = "wait"
  /\ folder \in Folders
  /\ fills = <<>>
  /\ recorded = 0
  /\ queue = NoRows
  /\ pending = [o \in Orders |-> NotPending]
  /\ summary = 0
  /\ tape = [f \in Folders |-> <<>>]
  /\ tables = [f \in Folders |-> NoRows]
  /\ history = [f \in Folders |-> NoEntry]
  /\ memory = [sessions |-> 0, fills |-> 0]
  /\ traded = 0
  /\ sessions = 1
  /\ used = {folder}
  /\ killed = {}
  /\ torn = {}

With(rows, more) ==
  [fills |-> rows.fills \cup more.fills, quality |-> rows.quality \cup more.quality]

\* Variant: the queue is not emptied.
BugFlush ==
  /\ tables' = [tables EXCEPT ![folder] = With(@, queue)]
  /\ queue' = queue

\* All queued rows are written in one transaction.
Flush ==
  /\ tables' = [tables EXCEPT ![folder] = With(@, queue)]
  /\ queue' = NoRows

-----------------------------------------------------------------------------
(* The loop.                                                               *)

\* The broker records a fill; an order may have several.
Trade(o) ==
  /\ place = "wait"
  /\ traded < MaxTraded
  /\ traded' = traded + 1
  /\ fills' = Append(fills, [id |-> traded + 1, order |-> o])
  /\ UNCHANGED <<place, folder, recorded, queue, pending, summary, tables, kept, sessions, used, killed, torn>>

\* A pass is over, and its fills are drained.
Pass ==
  /\ place = "wait"
  /\ place' = "record"
  /\ UNCHANGED <<folder, fills, recorded, queue, pending, summary, tables, kept, past>>

Unmeasured(id) == [fill |-> id, one |-> "open", five |-> "open"]

\* A fill goes to the tape at once.  It takes its order's place among those
\* being measured.
RecordFill ==
  LET fill == fills[recorded + 1]
  IN  /\ place = "record"
      /\ recorded < Len(fills)
      /\ recorded' = recorded + 1
      /\ tape' = [tape EXCEPT ![folder] = Append(@, fill.id)]
      /\ queue' = With(queue, [fills |-> {fill.id}, quality |-> {Unmeasured(fill.id)}])
      /\ pending' = [pending EXCEPT ![fill.order] = Unmeasured(fill.id)]
      /\ UNCHANGED <<place, folder, fills, summary, tables, history, memory, past>>

\* The tape cannot be written; the fill's row is queued already.
TapeFails ==
  /\ place = "record"
  /\ recorded < Len(fills)
  /\ queue' = With(queue, [fills |-> {fills[recorded + 1].id}, quality |-> {}])
  /\ torn' = torn \cup {folder}
  /\ place' = "ending"
  /\ UNCHANGED <<folder, fills, recorded, pending, summary, tables, kept, traded, sessions, used, killed>>

\* Writing the run's summary flushes; then the loss cap may end the session.
FillsRecorded ==
  /\ place = "record"
  /\ recorded = Len(fills)
  /\ Flush
  /\ place' \in {"cycle", "ending"}
  /\ UNCHANGED <<folder, fills, recorded, pending, summary, kept, past>>

\* Variant: what is measured is not kept for the next time.
BugPendingAfter(o, row) == IF row.five = "open" THEN pending[o] ELSE NotPending

\* A fill measured in full is no longer pending.
PendingAfter(o, row) == IF row.five = "open" THEN row ELSE NotPending

\* The markouts that may be due: none without a book, or too early; the first
\* after a second, and the second, with the first if that is missing, after
\* five.
Marked(row, m, n) == [fill |-> row.fill, one |-> m, five |-> n]
Measured(row) ==
  {row} \cup
  (IF row.one = "open"
     THEN {Marked(row, m, n) : m \in {"for", "against"}, n \in Markouts}
     ELSE {Marked(row, row.one, n) : n \in {"for", "against"}})

\* Each fill that got a markout gets one more row.
RecordCycle ==
  /\ place = "cycle"
  /\ \E now \in [Orders -> Quality \cup {NotPending}] :
       /\ \A o \in Orders :
            now[o] \in IF pending[o] = NotPending THEN {NotPending} ELSE Measured(pending[o])
       /\ LET moved == {o \in Orders : now[o] # pending[o]}
          IN  /\ queue' = With(queue, [fills |-> {}, quality |-> {now[o] : o \in moved}])
              /\ pending' = [o \in Orders |->
                               IF o \in moved THEN PendingAfter(o, now[o]) ELSE pending[o]]
  /\ place' = "written"
  /\ UNCHANGED <<folder, fills, recorded, summary, tables, kept, past>>

CycleRecorded ==
  /\ place = "written"
  /\ Flush
  /\ place' = "wait"
  /\ UNCHANGED <<folder, fills, recorded, pending, summary, kept, past>>

\* The session's time is up or it is interrupted; or recording fails.
Leave ==
  /\ place \in {"wait", "record", "cycle", "written"}
  /\ place' = "ending"
  /\ UNCHANGED <<folder, fills, recorded, queue, pending, summary, tables, kept, past>>

-----------------------------------------------------------------------------
(* The end.                                                                *)

\* Variant: what is still queued is not summarised.
BugSummarize ==
  /\ place = "ending"
  /\ summary' = Cardinality(tables[folder].fills)
  /\ place' = "history"
  /\ UNCHANGED <<folder, fills, recorded, queue, pending, tables, kept, past>>

\* The summary counts what is in the folder's tables.
Summarize ==
  /\ place = "ending"
  /\ Flush
  /\ summary' = Cardinality(tables'[folder].fills)
  /\ place' = "history"
  /\ UNCHANGED <<folder, fills, recorded, pending, kept, past>>

SaveHistory ==
  /\ place = "history"
  /\ history' = [history EXCEPT ![folder] = summary]
  /\ place' = "memory"
  /\ UNCHANGED <<folder, fills, recorded, queue, pending, summary, tables, tape, memory, past>>

SaveMemory ==
  /\ place = "memory"
  /\ memory' = [sessions |-> memory.sessions + 1, fills |-> memory.fills + summary]
  /\ place' = "closing"
  /\ UNCHANGED <<folder, fills, recorded, queue, pending, summary, tables, tape, history, past>>

\* Remembering the session is best effort: if any of it fails, so be it.
Skip ==
  /\ place \in {"ending", "history", "memory"}
  /\ place' = "closing"
  /\ UNCHANGED <<folder, fills, recorded, queue, pending, summary, tables, kept, past>>

Close ==
  /\ place = "closing"
  /\ Flush
  /\ place' = "off"
  /\ UNCHANGED <<folder, fills, recorded, pending, summary, kept, past>>

Kill ==
  /\ place # "off"
  /\ place' = "off"
  /\ queue' = NoRows
  /\ killed' = killed \cup {folder}
  /\ UNCHANGED <<folder, fills, recorded, pending, summary, tables, kept, traded, sessions, used, torn>>

\* Variant: the place among the broker's fills is kept.
BugStart(f) ==
  /\ place = "off"
  /\ sessions < MaxSessions
  /\ sessions' = sessions + 1
  /\ place' = "wait"
  /\ folder' = f
  /\ fills' = <<>>
  /\ pending' = [o \in Orders |-> NotPending]
  /\ summary' = 0
  /\ used' = used \cup {f}
  /\ UNCHANGED <<recorded, queue, tables, kept, traded, killed, torn>>

\* Another session, in a folder of its own or one that was used before.
Start(f) ==
  /\ place = "off"
  /\ sessions < MaxSessions
  /\ sessions' = sessions + 1
  /\ place' = "wait"
  /\ folder' = f
  /\ fills' = <<>>
  /\ recorded' = 0
  /\ pending' = [o \in Orders |-> NotPending]
  /\ summary' = 0
  /\ used' = used \cup {f}
  /\ UNCHANGED <<queue, tables, kept, traded, killed, torn>>

Next ==
  \/ \E o \in Orders : Trade(o)
  \/ Pass
  \/ RecordFill
  \/ TapeFails
  \/ FillsRecorded
  \/ RecordCycle
  \/ CycleRecorded
  \/ Leave
  \/ Summarize
  \/ SaveHistory
  \/ SaveMemory
  \/ Skip
  \/ Close
  \/ Kill
  \/ \E f \in Folders : Start(f)

Spec == Init /\ [][Next]_vars

-----------------------------------------------------------------------------
(* Properties.                                                             *)

Queued(f) == IF f = folder THEN queue ELSE NoRows

\* Each session used a folder of its own.
Apart == Cardinality(used) = sessions

\* The tape tells the fills in order and each once, and the tables tell the
\* same, what is queued included: only a kill may leave a fill on the tape
\* alone, only a tape that cannot be written one in the tables alone.
TapeTellsTables ==
  /\ \A f \in Folders :
       /\ \A i, j \in DOMAIN tape[f] : i < j => tape[f][i] < tape[f][j]
       /\ f \notin torn => tables[f].fills \cup Queued(f).fills \subseteq Range(tape[f])
       /\ f \notin killed => Range(tape[f]) \subseteq tables[f].fills \cup Queued(f).fills
  /\ \A i \in 1..recorded : fills[i].id \in Range(tape[folder])
  /\ place = "wait" => queue = NoRows

\* However often a fill is written down while it is measured, its rows agree
\* on each markout.
MarkoutsAgree ==
  \A f \in Folders :
    LET rows == tables[f].quality \cup Queued(f).quality
    IN  \A r, s \in rows :
          r.fill = s.fill =>
            /\ r.one = s.one \/ r.one = "open" \/ s.one = "open"
            /\ r.five = s.five \/ r.five = "open" \/ s.five = "open"

\* The history's entry of a session counts every fill its folder ever shows,
\* those included that were still queued when recording failed.
HistoryComplete ==
  Apart =>
    \A f \in Folders : history[f] # NoEntry => history[f] = Cardinality(tables[f].fills)
=============================================================================
