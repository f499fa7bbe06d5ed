---------------------------- MODULE PaperTrading ----------------------------
(* Trading without an exchange: the paper broker, the records kept of the     *)
(* fills it hands over (SessionRecords), which takes fills one by one as they *)
(* are drained, and the replay of recorded events through the decision engine *)
(* and its simulated positions (DecisionReplay), each with constants and      *)
(* variables of its own: they share nothing.                                  *)
EXTENDS PaperBroker

CONSTANTS
  Folders, SessionOrders, MaxTraded, MaxSessions,                   \* of the records
  Interval, HoldMax, MaxAge, MaxBookAge, Ends, Tops, MaxSpread, Fee,   \* of the replay
  EdgeMin, EdgeExit, EdgeStop, Values, Hard, AllowPartial, Lags, Skews, Traded, Steps,
  Extra, MaxTime, MaxQuotes, MaxReads

VARIABLES
  place, folder, drained, recorded, queue, pending, summary, tapes, tables,
  history, memory, traded, sessions, used, killed, torn,
  trained, clock, left, reading, quoted, points, signal, tops, lastBbo, last, simulated, decided

broker == vars
records == <<place, folder, drained, recorded, queue, pending, summary, tapes, tables,
             history, memory, traded, sessions, used, killed, torn>>
replay == <<trained, clock, left, reading, quoted, points, signal, tops, lastBbo, last,
            simulated, decided>>

R == INSTANCE SessionRecords WITH Orders <- SessionOrders, fills <- drained, tape <- tapes

D == INSTANCE DecisionReplay WITH quotes <- quoted, books <- tops, position <- simulated

ASSUME RecordsConstants == R!RecordsAssumption
ASSUME ReplayConstants == D!ReplayAssumption

-----------------------------------------------------------------------------

\* The records: the tape and the tables tell the same fills, each once.
TapeTellsTables == R!TapeTellsTables

\* The records: the rows of a fill agree on each markout.
MarkoutsAgree == R!MarkoutsAgree

\* The replay: an entry rests on facts received by its own date.
EntriesKnown == D!EntriesKnown

\* The replay: no position outlives the longest hold by a heartbeat.
PositionsEnd == D!PositionsEnd

=============================================================================
