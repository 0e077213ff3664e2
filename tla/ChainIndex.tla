------------------------------ MODULE ChainIndex -----------------------------
(***************************************************************************)
(* What the indexer's database promises its readers (db/pg.rs, comment at  *)
(* the top: reorgs are atomic, "one will never observe chain shrinking /   *)
(* in the middle of a reorg"; db/pg/init.sql, table `event`: "you can      *)
(* follow them one by one, to follow blockchain state").                   *)
(*                                                                         *)
(* Readers see the indexed chain and an append-only log of events.  Each   *)
(* change of either is one step that moves to a longer chain, and logs,    *)
(* in this order, the blocks that left from the top down and the blocks    *)
(* that came from the bottom up.  Only an operator who wipes the database  *)
(* takes anything back, and takes back everything.                         *)
(***************************************************************************)
EXTENDS EventLog

VARIABLES
    index,  \* the chain of blocks that are indexed and not extinct
    log     \* the events: a block joined the chain, or left it (revert)

Init == index = <<>> /\ log = <<>>

(* An extension (k = Len(index)) or a reorg, always to a longer chain.     *)
Advance ==
    /\ IsChain(index')
    /\ Len(index') > Len(index)
    /\ \E k \in 0..Len(index) :
        /\ ForkPoint(index, index', k)
        /\ log' = log \o MoveEvents(index, index', k)

(* The operator throws the database away (pg.rs, wipe).                    *)
Wipe == index' = <<>> /\ log' = <<>>

Spec == Init /\ [][Advance \/ Wipe]_<<index, log>>
=============================================================================
