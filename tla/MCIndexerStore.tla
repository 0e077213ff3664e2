---------------------------- MODULE MCIndexerStore ---------------------------
(***************************************************************************)
(* A block tree for IndexerStore: two branches above the genesis block,    *)
(* each of which may overtake the other, so that blocks get extinct and    *)
(* are revived, in reorgs that are one or two blocks deep.  Transaction x  *)
(* is in the first block of one branch and in the last of the other.       *)
(***************************************************************************)
EXTENDS IndexerStore, TLC

MCHeight == "g" :> 0 @@ "a1" :> 1 @@ "a2" :> 2 @@ "a3" :> 3
                     @@ "b1" :> 1 @@ "b2" :> 2 @@ "b3" :> 3

MCBlock == DOMAIN MCHeight

MCParent == "g" :> "none" @@ "a1" :> "g" @@ "a2" :> "a1" @@ "a3" :> "a2"
                          @@ "b1" :> "g" @@ "b2" :> "b1" @@ "b3" :> "b2"

MCChains == { <<"g", "a1">>, <<"g", "b1", "b2">>, <<"g", "a1", "a2", "a3">>,
              <<"g", "b1", "b2", "b3">> }

MCTxs == [b \in MCBlock |-> IF b \in {"a1", "b3"} THEN {"x"} ELSE {}]
=============================================================================
