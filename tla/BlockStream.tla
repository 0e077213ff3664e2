----------------------------- MODULE BlockStream -----------------------------
(***************************************************************************)
(* What a block source promises its caller (prefetcher.rs, doc comment of  *)
(* `Prefetcher`: "an iterator over all blocks", reorgs included): blocks   *)
(* come one at a time, and a caller that puts each block at its height,    *)
(* dropping what it had at and above that height, always holds a chain     *)
(* whose blocks are linked by parent hashes.  A block may go below the     *)
(* top (a reorg) but never leaves a gap, and never replaces the block the  *)
(* source started from, or one below it.                                   *)
(***************************************************************************)
EXTENDS BlockTree

VARIABLES
    stream,     \* the chain the caller holds
    floor       \* the height the source started from (-1: from nothing)

Init ==
    /\ IsChain(stream)
    /\ floor \in Nat \cup {-1}
    /\ floor < Len(stream)

(* Block b extends the caller's chain at a height the caller has reached.  *)
(* Only a genesis block can come again: nothing recorded lies below it.    *)
Deliver(b) ==
    /\ Height[b] > floor \/ (Height[b] = 0 /\ floor = 0)
    /\ Height[b] <= Len(stream)
    /\ Height[b] > 0 => Parent[b] = stream[Height[b]]
    /\ stream' = ChainInsert(stream, Height[b], b)
    /\ UNCHANGED floor

Spec == Init /\ [][\E b \in Block : Deliver(b)]_<<stream, floor>>
=============================================================================
