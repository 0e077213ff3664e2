------------------------------- MODULE MCFetcher ------------------------------
(***************************************************************************)
(* A block tree for Fetcher: the node mines a block, or two, or moves to   *)
(* another branch.                                                         *)
(***************************************************************************)
EXTENDS Fetcher, TLC

MCHeight ==
    "g" :> 0 @@ "a1" :> 1 @@ "a2" :> 2 @@ "b1" :> 1 @@ "b2" :> 2 @@ "b3" :> 3

MCBlock == DOMAIN MCHeight

MCParent ==
    "g" :> "none" @@ "a1" :> "g" @@ "a2" :> "a1"
                  @@ "b1" :> "g" @@ "b2" :> "b1" @@ "b3" :> "b2"

MCChains ==
    { <<"g", "a1">>, <<"g", "a1", "a2">>, <<"g", "b1", "b2", "b3">> }

(* No end, and one at or below some of the points to resume from.          *)
MCEnds == {-1, 2}
=============================================================================
