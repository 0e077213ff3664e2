----------------------------- MODULE MCPrefetcher ----------------------------
(***************************************************************************)
(* A small block tree for Prefetcher.  The node moves from a1 to b2, or    *)
(* from b2 to c3, a reorg one block deep, the second one also in the midst *)
(* of the first; or from b2 to a3, two blocks deep and back to the branch  *)
(* it may have come from.                                                  *)
(***************************************************************************)
EXTENDS Prefetcher, TLC

MCHeight ==
    "g" :> 0 @@ "a1" :> 1 @@ "b1" :> 1 @@ "b2" :> 2 @@ "c2" :> 2 @@ "c3" :> 3
             @@ "a2" :> 2 @@ "a3" :> 3

MCBlock == DOMAIN MCHeight

MCParent ==
    "g" :> "none" @@ "a1" :> "g" @@ "b1" :> "g" @@ "b2" :> "b1" @@ "c2" :> "b1"
                  @@ "c3" :> "c2" @@ "a2" :> "a1" @@ "a3" :> "a2"

(* A window of two hashes is too small for the move to a3 only.            *)
MCChains ==
    { <<"g">>, <<"g", "a1">>, <<"g", "b1", "b2">>, <<"g", "b1", "c2", "c3">>,
      <<"g", "a1", "a2", "a3">> }
=============================================================================
