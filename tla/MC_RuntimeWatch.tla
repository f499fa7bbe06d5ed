--------------------------- MODULE MC_RuntimeWatch ---------------------------
(* The components of RuntimeWatch side by side, over two tokens, two slots,   *)
(* two fills and two logs in two blocks: a behaviour is one of one of them,   *)
(* and the others rest.                                                       *)
EXTENDS RuntimeWatch

CONSTANTS a, b

MCOrder == <<a, b>>

VARIABLE subject

InHealth == subject = "health"
InTrade == subject = "trade"
InOnchain == subject = "onchain"
InRecords == subject = "records"

MCInit == /\ subject \in {"health", "trade", "onchain", "records"}
          /\ Init /\ T!Init /\ O!Init /\ F!Init
          /\ ~InHealth => age = [t \in Tokens |-> 0]
          /\ ~InOnchain => mode = "ws"

MCNext == \/ InHealth /\ Next /\ UNCHANGED <<subject, trade, onchain, records>>
          \/ InTrade /\ T!Next /\ UNCHANGED <<subject, health, onchain, records>>
          \/ InOnchain /\ O!Next /\ UNCHANGED <<subject, health, trade, records>>
          \/ InRecords /\ F!Next /\ UNCHANGED <<subject, health, trade, onchain>>

MCSpec == /\ MCInit /\ [][MCNext]_<<subject, health, trade, onchain, records>>
          /\ InHealth => Fairness
          /\ InTrade => T!Fairness
=============================================================================
