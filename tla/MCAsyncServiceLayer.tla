------------------------- MODULE MCAsyncServiceLayer -------------------------
(* An instance of AsyncServiceLayer for TLC: one plain operation, whose       *)
(* function may throw, and one batch, which overtakes it in the queue.        *)
EXTENDS AsyncServiceLayer, TLC

CONSTANTS o1, o2

MCOperations == {o1, o2}
MCKindOf == (o1 :> "plain") @@ (o2 :> "batch")
=============================================================================
