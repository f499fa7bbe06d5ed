---------------------------- MODULE OnchainIngest ----------------------------
(***************************************************************************)
(* The ingestor of contract events (core/onchain_ingest): a websocket loop *)
(* whose filters are drained in a thread, a reconciliation that reads the  *)
(* last blocks again over HTTP in the event loop, and polling, to which    *)
(* the websocket loop falls back.  Both readers write to one tape through  *)
(* one deduper without a lock.  Requests fail at any time, and the newest  *)
(* block may be replaced.                                                  *)
(***************************************************************************)
EXTENDS Integers, FiniteSets, FiniteSetsExt, Sequences, SequencesExt

CONSTANTS
  Logs,      \* contract events, by transaction and index
  Lookback,  \* blocks a reconciliation reads
  LruSize,   \* keys the deduper remembers
  Recreate,  \* turns after which filters are made anew, or the loop gives up
  MaxHeight, \* bound: blocks
  MaxForks   \* bound: replaced blocks

OnchainAssumption ==
  /\ Lookback \in Nat \ {0} /\ LruSize \in Nat \ {0} /\ Recreate \in Nat \ {0}
  /\ MaxHeight \in Nat /\ MaxForks \in Nat

VARIABLES
  \* The chain.
  height,    \* the newest block
  blockOf,   \* each log's block, 0 while there is none
  forkOf,    \* how often each block was replaced: its hash
  \* The node's filters.
  filter,    \* "up", "lost" (every read fails) or "none" (none to read)
  news,      \* entries not yet read
  \* The ingestor.
  mode,      \* "ws", "poll" or "ended"
  turn,      \* "sleep", "drain" or "failed": the websocket loop's turn
  outage,    \* turns since the first of a row of failed ones, -1 without
  age,       \* turns since filters were made
  reconciling,  \* whether the reconciliation task lives
  lastBlock, \* where polling has got to
  pending,   \* entries each reader has still to handle
  passed,    \* whether a reader's next entry has passed the deduper's check
  keys,      \* the deduper, oldest first
  forgotten, \* history: logs whose key it has dropped
  hashes,    \* the hash last seen of each block, -1 before
  tape       \* how often each reader has recorded each log, up to twice

chain == <<height, blockOf, forkOf>>
loop == <<mode, turn, outage, age, reconciling, lastBlock>>
dedupe == <<keys, forgotten, hashes, tape>>
vars == <<chain, filter, news, loop, pending, passed, dedupe>>

Readers == {"thread", "loop"}
Blocks == 1 .. MaxHeight
Entry == [log : Logs, block : Blocks, fork : 0 .. MaxForks]
EntryOf(l) == [log |-> l, block |-> blockOf[l], fork |-> forkOf[blockOf[l]]]

Init ==
  /\ height = 0 /\ blockOf = [l \in Logs |-> 0] /\ forkOf = [b \in Blocks |-> 0]
  /\ filter = "up" /\ news = <<>>
  /\ mode \in {"ws", "poll"} /\ turn = "sleep" /\ outage = -1 /\ age = 0
  /\ reconciling = (mode = "ws") /\ lastBlock = 0
  /\ pending = [r \in Readers |-> <<>>] /\ passed = [r \in Readers |-> FALSE]
  /\ keys = <<>> /\ forgotten = {} /\ hashes = [b \in Blocks |-> -1]
  /\ tape = [r \in Readers |-> [l \in Logs |-> 0]]

-----------------------------------------------------------------------------
(* The chain and its node.                                                 *)

Told(ls) == IF filter = "up" /\ mode = "ws" THEN news \o SetToSeq(ls) ELSE news

\* A block, with a log or without.
Mine ==
  /\ height < MaxHeight
  /\ \E ls \in {{}} \cup {{l} : l \in {k \in Logs : blockOf[k] = 0}} :
       /\ height' = height + 1
       /\ blockOf' = [l \in Logs |-> IF l \in ls THEN height + 1 ELSE blockOf[l]]
       /\ news' = Told({[log |-> l, block |-> height + 1, fork |-> forkOf[height + 1]] : l \in ls})
  /\ UNCHANGED <<forkOf, filter, loop, pending, passed, dedupe>>

\* The newest block is replaced; its logs are in the new one, or wait for another.
Reorg ==
  /\ height > 0 /\ FoldFunctionOnSet(+, 0, forkOf, Blocks) < MaxForks
  /\ LET ls == {l \in Logs : blockOf[l] = height}
         fork == forkOf[height] + 1
     IN /\ forkOf' = [forkOf EXCEPT ![height] = fork]
        /\ \/ /\ news' = Told({[log |-> l, block |-> height, fork |-> fork] : l \in ls})
              /\ UNCHANGED blockOf
           \/ /\ blockOf' = [l \in Logs |-> IF l \in ls THEN 0 ELSE blockOf[l]]
              /\ UNCHANGED news
  /\ UNCHANGED <<height, filter, loop, pending, passed, dedupe>>

-----------------------------------------------------------------------------
(* One entry.                                                              *)

\* The log of another block is taken for another log.
BugKey(e) == <<e.log, e.fork>>

\* _dedupe_key: transaction and index, whatever the block.
Key(e) == <<e.log, 0>>

\* _LRUDeduper.add, first half: a known key becomes the youngest.
Check(r) ==
  /\ pending[r] # <<>> /\ ~passed[r]
  /\ LET k == Key(Head(pending[r]))
     IN IF k \in ToSet(keys)
        THEN /\ keys' = Append(RemoveAt(keys, CHOOSE i \in DOMAIN keys : keys[i] = k), k)
             /\ pending' = [pending EXCEPT ![r] = Tail(@)]
             /\ UNCHANGED passed
        ELSE /\ passed' = [passed EXCEPT ![r] = TRUE]
             /\ UNCHANGED <<keys, pending>>
  /\ UNCHANGED <<chain, filter, news, loop, forgotten, hashes, tape>>

\* Second half: the key goes in, and the oldest out of a full deduper.
Added(k) == IF k \in ToSet(keys) THEN keys ELSE Append(keys, k)
Kept(ks) == IF Len(ks) > LruSize THEN Tail(ks) ELSE ks
LogsOf(ks) == {k[1] : k \in ToSet(ks)}

\* _handle_event: the block's hash is noted, and the event recorded.
Record(r) ==
  /\ passed[r]
  /\ LET e == Head(pending[r])
         added == Added(Key(e))
     IN /\ keys' = Kept(added)
        /\ forgotten' = forgotten \cup (LogsOf(added) \ LogsOf(keys'))
        /\ hashes' = [hashes EXCEPT ![e.block] = e.fork]
        /\ tape' = [tape EXCEPT ![r][e.log] = Min({@ + 1, 2})]
  /\ pending' = [pending EXCEPT ![r] = Tail(@)]
  /\ passed' = [passed EXCEPT ![r] = FALSE]
  /\ UNCHANGED <<chain, filter, news, loop>>

\* The tape cannot be written: the key stays behind.  In the thread, or in
\* polling, this ends the ingestor, in the reconciliation only the task.
RecordFails(r) ==
  /\ passed[r]
  /\ LET e == Head(pending[r])
         added == Added(Key(e))
     IN /\ keys' = Kept(added)
        /\ forgotten' = forgotten \cup (LogsOf(added) \ LogsOf(keys'))
        /\ hashes' = [hashes EXCEPT ![e.block] = e.fork]
  /\ IF r = "loop" /\ mode = "ws"
     THEN /\ pending' = [pending EXCEPT ![r] = <<>>]
          /\ passed' = [passed EXCEPT ![r] = FALSE]
          /\ reconciling' = FALSE /\ UNCHANGED <<mode, turn>>
     ELSE /\ pending' = [x \in Readers |-> <<>>]
          /\ passed' = [x \in Readers |-> FALSE]
          /\ mode' = "ended" /\ turn' = "sleep" /\ reconciling' = FALSE
  /\ UNCHANGED <<chain, filter, news, outage, age, lastBlock, tape>>

-----------------------------------------------------------------------------
(* The event loop: it does nothing else while it handles entries.          *)

Free == pending["loop"] = <<>>

\* _safe_get_logs: the range is split until what fails is left out.
Answers(first, last) ==
  {SetToSortSeq({EntryOf(l) : l \in {k \in Logs : blockOf[k] \in bs}},
                LAMBDA d, e : d.block < e.block) : bs \in SUBSET (first .. last)}

\* _reconcile_loop
Reconcile ==
  /\ mode = "ws" /\ reconciling /\ Free
  /\ \E es \in Answers(Max({1, height - Lookback + 1}), height) :
       pending' = [pending EXCEPT !["loop"] = es]
  /\ UNCHANGED <<chain, filter, news, loop, passed, dedupe>>

\* _polling_loop: blocks that could not be read are not read again.
Poll ==
  /\ mode = "poll" /\ Free /\ height > lastBlock
  /\ \E es \in Answers(lastBlock + 1, height) : pending' = [pending EXCEPT !["loop"] = es]
  /\ lastBlock' = height
  /\ UNCHANGED <<chain, filter, news, mode, turn, outage, age, reconciling, passed, dedupe>>

\* _drain_filters_once: what is new, or an error and a filter from now on.
Drain ==
  /\ mode = "ws" /\ turn = "sleep" /\ Free
  /\ \/ /\ filter # "lost"
        /\ pending' = [pending EXCEPT !["thread"] = news]
        /\ turn' = "drain" /\ UNCHANGED filter
     \/ /\ filter # "none"
        /\ filter' \in {"up", "lost"}
        /\ turn' = "failed" /\ UNCHANGED pending
  /\ news' = <<>>
  /\ UNCHANGED <<chain, mode, outage, age, reconciling, lastBlock, passed, dedupe>>

\* The loop gives up, and the reconciliation with it.
Fallback ==
  /\ mode' = "poll" /\ lastBlock' = height /\ reconciling' = FALSE
  /\ filter' = "none" /\ news' = <<>> /\ UNCHANGED age

\* The turn ends well: every so often the filters are made anew.
TurnEnds ==
  /\ turn = "drain" /\ pending["thread"] = <<>> /\ Free
  /\ turn' = "sleep" /\ outage' = -1
  /\ IF age < Recreate THEN age' = age + 1 /\ UNCHANGED <<filter, news, mode, lastBlock, reconciling>>
     ELSE \/ /\ filter' = "up" /\ news' = <<>> /\ age' = 0
             /\ UNCHANGED <<mode, lastBlock, reconciling>>
          \/ Fallback
  /\ UNCHANGED <<chain, pending, passed, dedupe>>

\* It ends in an error: new filters; no connection, and the old ones; or none,
\* which makes the next turn a good one.  After long enough in a row, or when
\* filters due to be made anew cannot be, polling.
TurnFails ==
  /\ turn = "failed" /\ Free
  /\ turn' = "sleep" /\ outage' = outage + 1
  /\ IF outage' >= Recreate THEN Fallback
     ELSE \/ /\ filter' = "up" /\ news' = <<>> /\ age' = 0
             /\ UNCHANGED <<mode, lastBlock, reconciling>>
          \/ /\ age < Recreate /\ age' = age + 1
             /\ \/ UNCHANGED <<filter, news>>
                \/ filter' = "none" /\ news' = <<>>
             /\ UNCHANGED <<mode, lastBlock, reconciling>>
          \/ age >= Recreate /\ Fallback
  /\ UNCHANGED <<chain, pending, passed, dedupe>>

Next ==
  \/ Mine \/ Reorg
  \/ \E r \in Readers : Check(r) \/ Record(r) \/ RecordFails(r)
  \/ Reconcile \/ Poll \/ Drain \/ TurnEnds \/ TurnFails

Spec == Init /\ [][Next]_vars

-----------------------------------------------------------------------------

TypeOK ==
  /\ height \in 0 .. MaxHeight /\ \A l \in Logs : blockOf[l] <= height
  /\ pending \in [Readers -> Seq(Entry)]
  /\ \A r \in Readers : passed[r] => pending[r] # <<>>
  /\ Len(keys) <= LruSize /\ lastBlock <= height
  /\ outage \in -1 .. Recreate /\ age \in 0 .. Recreate
  /\ mode # "ws" => pending["thread"] = <<>>

(* Over rescans, reconnects, replaced blocks and the fallback to polling,  *)
(* no reader records a log twice as long as the deduper remembers it.      *)
(* (The two readers may record it once each: they check and insert without *)
(* a lock.)                                                                *)
RecordedOnce == \A r \in Readers, l \in Logs \ forgotten : tape[r][l] <= 1

(* Polling has got everything that is on the chain; it fails, for polling  *)
(* starts at the newest block and skips what it could not read.            *)
NothingMissed ==
  mode = "poll" /\ Free /\ lastBlock = height =>
    \A l \in Logs : blockOf[l] # 0 => \E r \in Readers : tape[r][l] > 0

(* A replaced block is noticed when its logs are read again; it fails, for *)
(* they are dropped as duplicates before the hash is looked at.            *)
ForksNoticed ==
  \A l \in Logs :
    /\ \E r \in Readers : tape[r][l] > 0
    /\ blockOf[l] # 0 /\ lastBlock = height /\ news = <<>>
    /\ \A r \in Readers : pending[r] = <<>>
    => hashes[blockOf[l]] \in {-1, forkOf[blockOf[l]]}
=============================================================================
