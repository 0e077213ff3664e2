------------------------------ MODULE BlockTree ------------------------------
(***************************************************************************)
(* The blocks that exist and the chains a bitcoin node may report.         *)
(*                                                                         *)
(* A block is identified by its hash (`R::Id` in lib.rs).  Its header      *)
(* commits to one parent, so a hash determines the block's parent and its  *)
(* height.  A chain is a sequence of blocks; TLA+ sequences start at 1, so *)
(* the block at height h of a chain c is c[h + 1].                         *)
(***************************************************************************)
EXTENDS Integers, Sequences

CONSTANTS
    Block,      \* the set of block hashes
    NoBlock,    \* not a block: the parent of a genesis block, "no block"
    Height,     \* height of each block
    Parent,     \* the hash each block's header points to
    Chains      \* the chains the node may report as its active chain

(* Blocks at consecutive heights from 0, each pointing to the one below.   *)
IsChain(c) ==
    /\ c \in Seq(Block)
    /\ \A i \in 1..Len(c) : Height[c[i]] = i - 1
    /\ \A i \in 2..Len(c) : Parent[c[i]] = c[i - 1]

ASSUME BlockTreeAssumption ==
    /\ NoBlock \notin Block
    /\ Height \in [Block -> Nat]
    /\ Parent \in [Block -> Block \cup {NoBlock}]
    /\ \A c \in Chains : IsChain(c) /\ c # <<>>

(* The height of the node's chain tip, as `getblockcount` reports it.      *)
TipHeight(c) == Len(c) - 1

(* What a caller that follows the blocks it is handed holds after block b  *)
(* at height h: the blocks below h that it had, then b.                    *)
ChainInsert(c, h, b) == Append(SubSeq(c, 1, h), b)
=============================================================================
