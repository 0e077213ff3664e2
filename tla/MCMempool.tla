------------------------------ MODULE MCMempool -------------------------------
(***************************************************************************)
(* A chain for Mempool that grows by one block.  Transaction u spends from *)
(* t, and both are in that block: the indexer is in bulk mode or not when  *)
(* it comes, and the mempool indexer has each of them or not.              *)
(***************************************************************************)
EXTENDS Mempool, TLC

MCHeight == "g" :> 0 @@ "a1" :> 1

MCBlock == DOMAIN MCHeight

MCParent == "g" :> "none" @@ "a1" :> "g"

MCChains == { <<"g">>, <<"g", "a1">> }

MCTxs == "g" :> {} @@ "a1" :> {"t", "u"}

MCParents == "t" :> {} @@ "u" :> {"t"}
=============================================================================
