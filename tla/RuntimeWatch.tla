---------------------------- MODULE RuntimeWatch ----------------------------
(* What the runtime watches and writes down: the liveness watch of its stats  *)
(* loop (RuntimeHealth), the reconciliation with the exchange                 *)
(* (TradeReconciliation), what is recorded of a fill (FillRecords), and the   *)
(* ingestor of contract events (OnchainIngest), each with constants and       *)
(* variables of its own: they share nothing.                                  *)
EXTENDS RuntimeHealth

CONSTANTS
  Slots, Ids, FreezeCycles, CleanCycles, LosesAnswers,       \* of the reconciliation
  Own, NoQuote, Gone, Elsewhere,
  Orders, Due, Bucket, DayLength, MaxTime, MaxFills, MaxSessions,   \* of the fills
  Logs, Lookback, LruSize, Recreate, MaxHeight, MaxForks            \* of the ingestor

VARIABLES quote, rest, suspended, quarantine, mismatched, clean, running, calm,
          now, fills, session, sessions, marked, rows, taped, measured, known, applied,
          waiting, day, spent, job,
          height, blockOf, forkOf, filter, news, mode, turn, outage, since, reconciling,
          lastBlock, pending, passed, keys, forgotten, hashes, tape

health == vars
trade == <<quote, rest, suspended, quarantine, mismatched, clean, running, calm>>
records == <<now, fills, session, sessions, marked, rows, taped, measured, known, applied,
             waiting, day, spent, job>>
onchain == <<height, blockOf, forkOf, filter, news, mode, turn, outage, since, reconciling,
             lastBlock, pending, passed, keys, forgotten, hashes, tape>>

T == INSTANCE TradeReconciliation WITH frozen <- suspended

F == INSTANCE FillRecords

O == INSTANCE OnchainIngest WITH age <- since

ASSUME TradeConstants == T!SlotsAssumption /\ T!CyclesAssumption /\ T!AnswersAssumption
ASSUME FillConstants == F!FillsAssumption
ASSUME OnchainConstants == O!OnchainAssumption

-----------------------------------------------------------------------------

\* The reconciliation: orders of other markets are not the runtime's to cancel.
StrangersUntouched == T!StrangersUntouched

\* The reconciliation: a stray order that stays leads to a freeze that lasts.
StrayFreezes == T!StrayFreezes

\* The fills: one reported again is not counted again.
FillsCountOnce == F!FillsCountOnce

\* The ingestor: no reader records again what the deduper remembers.
RecordedOnce == O!RecordedOnce

=============================================================================
