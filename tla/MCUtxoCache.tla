----------------------------- MODULE MCUtxoCache -----------------------------
(***************************************************************************)
(* The block tree of MCIndexerStore, with outputs: the genesis block's o   *)
(* is spent in both branches, at different heights; transaction x creates  *)
(* p in both, and p is spent in one; q is created and spent in one block.  *)
(***************************************************************************)
EXTENDS UtxoCache, TLC

MCHeight == "g" :> 0 @@ "a1" :> 1 @@ "a2" :> 2 @@ "a3" :> 3
                     @@ "b1" :> 1 @@ "b2" :> 2 @@ "b3" :> 3

MCBlock == DOMAIN MCHeight

MCParent == "g" :> "none" @@ "a1" :> "g" @@ "a2" :> "a1" @@ "a3" :> "a2"
                          @@ "b1" :> "g" @@ "b2" :> "b1" @@ "b3" :> "b2"

MCChains == { <<"g", "a1">>, <<"g", "b1", "b2">>, <<"g", "a1", "a2", "a3">>,
              <<"g", "b1", "b2", "b3">> }

MCTxs == [b \in MCBlock |-> IF b \in {"a1", "b3"} THEN {"x"} ELSE {}]

MCCreates == [b \in MCBlock |->
    CASE b = "g"  -> {"o"}
      [] b = "a1" -> {"p"}
      [] b = "a2" -> {"q"}
      [] b = "b3" -> {"p"}
      [] OTHER    -> {}]

MCSpends == [b \in MCBlock |->
    CASE b = "a1" -> {"o"}
      [] b = "a2" -> {"q"}
      [] b = "a3" -> {"p"}
      [] b = "b2" -> {"o"}
      [] OTHER    -> {}]
=============================================================================
