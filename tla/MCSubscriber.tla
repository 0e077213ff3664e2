---------------------------- MODULE MCSubscriber -----------------------------
(***************************************************************************)
(* Two branches for Subscriber that overtake each other; the ids suffice   *)
(* for two reorgs, or one and a transaction that was rolled back.          *)
(***************************************************************************)
EXTENDS Subscriber, TLC

MCHeight == "g" :> 0 @@ "a1" :> 1 @@ "a2" :> 2 @@ "a3" :> 3
                     @@ "b1" :> 1 @@ "b2" :> 2

MCBlock == DOMAIN MCHeight

MCParent == "g" :> "none" @@ "a1" :> "g" @@ "a2" :> "a1" @@ "a3" :> "a2"
                          @@ "b1" :> "g" @@ "b2" :> "b1"

MCChains == { <<"g", "a1", "a2", "a3">>, <<"g", "b1", "b2">> }
=============================================================================
