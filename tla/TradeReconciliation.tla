------------------------- MODULE TradeReconciliation -------------------------
(* The archived trading runtime in TRADE mode: what RuntimeEngine of          *)
(* legacy/scripts/run_system.py believes to be open against what rests at the *)
(* exchange, through PolymarketBroker; the reconciliation that compares the   *)
(* two, freezes and thaws; and the restart that adopts what it finds.         *)
(*                                                                            *)
(* The exchange names an order itself.  PolymarketBroker sends price, size,   *)
(* side and token and keeps nothing of the answer, so the id under which the  *)
(* runtime files a quote it placed is one the exchange has never heard of:    *)
(* here all such ids are Own.  Only an adopted order is filed under its       *)
(* exchange id.  Fills are never reported in this mode; an order that is      *)
(* filled simply rests no longer.                                             *)
EXTENDS Integers, FiniteSets

CONSTANTS Slots,         \* (token, side) pairs of the markets being quoted
          Ids,           \* exchange order ids
          FreezeCycles,  \* mismatch_freeze_cycles
          CleanCycles,   \* reconcile_clean_unfreeze_cycles
          LosesAnswers   \* a submission may time out after it was accepted

CONSTANTS Own, NoQuote, Gone, Elsewhere

SlotsAssumption ==
  /\ {Own, NoQuote} \cap Ids = {} /\ Own # NoQuote
  /\ {Gone, Elsewhere} \cap Slots = {} /\ Gone # Elsewhere
CyclesAssumption == FreezeCycles \in Nat \ {0} /\ CleanCycles \in Nat \ {0}
AnswersAssumption == LosesAnswers \in BOOLEAN

VARIABLES quote,       \* open_quotes: the id filed for each slot
          rest,        \* at the exchange: where each order rests
          frozen,      \* _reconciliation_frozen
          quarantine,  \* _startup_unknown_order_quarantine
          mismatched,  \* _consecutive_mismatch_cycles
          clean,       \* _consecutive_clean_cycles
          running,     \* the process is up and past its startup recovery
          calm         \* from here on no crash and no failed snapshot

local == <<quote, frozen, quarantine, mismatched, clean>>
vars == <<local, rest, running, calm>>

Filed == {quote[s] : s \in Slots} \ {NoQuote}
Resting == {i \in Ids : rest[i] # Gone}
At(s) == {i \in Ids : rest[i] = s}
\* An id the exchange may give to a new order: one that nobody holds.
Unused == Ids \ (Resting \cup Filed \cup quarantine)
Held == frozen \/ quarantine # {}
BugUpTo(n, top) == IF n > top THEN top ELSE n + 1
UpTo(n, top) == IF n >= top THEN top ELSE n + 1

-----------------------------------------------------------------------------
(* The broker. *)

\* Cancelling goes for every order of the account.
BugAfterCancel(ids) ==
  {[i \in Ids |-> IF i \in gone THEN Gone ELSE rest[i]] :
     gone \in IF ids = {} THEN {{}} ELSE SUBSET Resting}

\* PolymarketBroker.cancel: an id the exchange does not know cancels nothing
\* and answers all the same; one it knows may be refused.
AfterCancel(ids) == LET known == ids \cap Resting
                    IN {[i \in Ids |-> IF i \in gone THEN Gone ELSE rest[i]] :
                          gone \in SUBSET known}

\* snapshot: a failed call reports no open orders at all.
Snapshots == IF calm THEN {Resting} ELSE {Resting, {}}

-----------------------------------------------------------------------------
Init == /\ quote = [s \in Slots |-> NoQuote]
        /\ rest = [i \in Ids |-> Gone]
        /\ frozen = FALSE
        /\ quarantine = {}
        /\ mismatched = 0 /\ clean = 0
        /\ running = FALSE
        /\ calm = FALSE

\* _apply_side with a verdict that allows: submit, or replace, which cancels
\* and submits whatever the cancel answered.  A submission is accepted,
\* refused, or accepted with its answer lost, which counts as refused.
Quote(s) ==
  /\ running /\ ~Held
  /\ \E r \in AfterCancel({quote[s]}) :
       \/ /\ \E i \in Unused : rest' = [r EXCEPT ![i] = s]
          /\ \/ quote' = [quote EXCEPT ![s] = Own]
             \/ LosesAnswers /\ quote' = [quote EXCEPT ![s] = NoQuote]
       \/ rest' = r /\ quote' = [quote EXCEPT ![s] = NoQuote]
  /\ UNCHANGED <<frozen, quarantine, mismatched, clean, running, calm>>

\* _apply_side with a verdict that does not: the quote is cancelled and
\* dropped, whatever the broker answered.
Withdraw(s) ==
  /\ running /\ quote[s] # NoQuote
  /\ rest' \in AfterCancel({quote[s]})
  /\ quote' = [quote EXCEPT ![s] = NoQuote]
  /\ UNCHANGED <<frozen, quarantine, mismatched, clean, running, calm>>

\* _cancel_all_open_quotes.
CancelAll == /\ rest' \in AfterCancel(Filed)
             /\ quote' = [s \in Slots |-> NoQuote]

\* Orders that are missing are looked for, orders too many are not.
BugAgrees(seen) == Filed \subseteq seen

\* The comparison of _record_reconciliation: ids missing, ids too many.
Agrees(seen) == Filed = seen

CleanAfter(agree) == IF agree THEN UpTo(clean, CleanCycles) ELSE 0

\* _record_reconciliation.
Reconcile ==
  /\ running
  /\ \E seen \in Snapshots :
       LET agree == Agrees(seen)
       IN /\ mismatched' = IF agree THEN 0 ELSE UpTo(mismatched, FreezeCycles)
          /\ clean' = CleanAfter(agree)
          /\ quarantine' = IF quarantine \cap seen = {} THEN {} ELSE quarantine
          /\ IF mismatched' = FreezeCycles
             THEN frozen' = TRUE
             ELSE frozen' = (frozen /\ clean' # CleanCycles)
  /\ IF frozen' /\ ~frozen
     THEN CancelAll
     ELSE UNCHANGED <<rest, quote>>
  /\ UNCHANGED <<running, calm>>

\* The process stops: what it believed is gone, what rests stays.
Stop ==
  /\ running /\ ~calm
  /\ running' = FALSE
  /\ quote' = [s \in Slots |-> NoQuote]
  /\ quarantine' = {} /\ frozen' = FALSE /\ mismatched' = 0 /\ clean' = 0
  /\ UNCHANGED <<rest, calm>>

\* _select_open_order_plan: the orders of a slot in the first snapshot.
Found(s, seen) == At(s) \cap seen

\* adopt_open_orders: a slot takes up the order found in it.
Adopted(s, seen) == IF Found(s, seen) = {} THEN NoQuote
                    ELSE CHOOSE i \in Found(s, seen) : TRUE

\* adopt_open_orders_with_cleanup: two orders in one slot end the startup;
\* otherwise each slot takes up the order found in it, and orders of other
\* markets are left alone and put the runtime in quarantine.
Start ==
  /\ ~running
  /\ \E seen \in Snapshots :
       LET unknown == At(Elsewhere) \cap seen
       IN /\ \A s \in Slots : Cardinality(Found(s, seen)) <= 1
          /\ quote' = [s \in Slots |-> Adopted(s, seen)]
          /\ quarantine' = unknown
          /\ frozen' = (unknown # {})
  /\ running' = TRUE
  /\ UNCHANGED <<rest, mismatched, clean, calm>>

\* An order is filled, expires or is cancelled by hand.
Leave(i) == /\ rest[i] # Gone
            /\ rest' = [rest EXCEPT ![i] = Gone]
            /\ UNCHANGED <<local, running, calm>>

\* The account's owner, or the market quoted before, has an order elsewhere.
Stranger(i) == /\ ~calm /\ i \in Unused
               /\ rest' = [rest EXCEPT ![i] = Elsewhere]
               /\ UNCHANGED <<local, running, calm>>

Settle == ~calm /\ running /\ calm' = TRUE /\ UNCHANGED <<local, rest, running>>

Next == \/ \E s \in Slots : Quote(s) \/ Withdraw(s)
        \/ \E i \in Ids : Leave(i) \/ Stranger(i)
        \/ Reconcile \/ Stop \/ Start \/ Settle

\* The stats loop runs on.  A frozen turn withdraws what is open unless the book
\* is DOWN or the token is guarded (run_system.py:992), so that books come back
\* and guards are lifted is part of this assumption.
Fairness == /\ WF_vars(Reconcile)
            /\ \A s \in Slots : WF_vars(Held /\ Withdraw(s))

Spec == Init /\ [][Next]_vars /\ Fairness

-----------------------------------------------------------------------------
TypeOK == /\ quote \in [Slots -> Ids \cup {Own, NoQuote}]
          /\ rest \in [Ids -> Slots \cup {Elsewhere, Gone}]
          /\ frozen \in BOOLEAN
          /\ quarantine \in SUBSET Ids
          /\ mismatched \in 0 .. FreezeCycles /\ clean \in 0 .. CleanCycles
          /\ running \in BOOLEAN /\ calm \in BOOLEAN

\* The release notes: orders of other markets are never cancelled by the
\* runtime, at startup, by a freeze or by a withdrawal; only outside does it.
StrangersUntouched ==
  [][\A i \in Ids : rest[i] = Elsewhere /\ rest'[i] # Elsewhere => UNCHANGED local]_vars

\* A runtime that has met a stray order is not thawed while it rests: with the
\* snapshots getting through, an order nobody filed that stays at the exchange
\* leads to a freeze that lasts, with nothing quoted.
Stray(i) == calm /\ running /\ i \in Resting \ Filed
StrayFreezes ==
  \A i \in Ids : (<>[]Stray(i)) => <>[](frozen /\ Filed = {})

\* The plan: cancel and replace keep one active quote per side.
SingleActiveQuote == \A s \in Slots : Cardinality(At(s)) <= 1

\* The release notes: an unknown order found at startup holds the runtime
\* until it is gone.
Released(i) == i \in quarantine /\ i \notin quarantine' /\ running'
QuarantineHolds == [][\A i \in Ids : Released(i) => rest[i] = Gone]_vars
=============================================================================
