---------------------------- MODULE MCMempoolReorg ----------------------------
(***************************************************************************)
(* A tree for Mempool in which a reorg takes a transaction out of its      *)
(* block, and a later block, above the reorg, has it again.  In between    *)
(* it is unconfirmed, and its row has lost its height or not.              *)
(***************************************************************************)
EXTENDS Mempool, TLC

MCHeight == "g" :> 0 @@ "a1" :> 1 @@ "b1" :> 1 @@ "b2" :> 2 @@ "b3" :> 3

MCBlock == DOMAIN MCHeight

MCParent ==
    "g" :> "none" @@ "a1" :> "g" @@ "b1" :> "g" @@ "b2" :> "b1" @@ "b3" :> "b2"

MCChains ==
    { <<"g">>, <<"g", "a1">>, <<"g", "b1", "b2">>, <<"g", "b1", "b2", "b3">> }

MCTxs == [b \in MCBlock |-> IF b \in {"a1", "b3"} THEN {"t"} ELSE {}]

MCParents == "t" :> {}
=============================================================================
