------------------------- MODULE MCTransactionQueue -------------------------
(* An instance of TransactionQueue: the first two requests pay the same    *)
(* recipient, so that the later one replaces the earlier.                   *)
EXTENDS TransactionQueue

MCTxs == 1..3
MCConflictKey == [t \in MCTxs |-> IF t = 3 THEN "k2" ELSE "k1"]

=============================================================================
