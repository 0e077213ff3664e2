------------------------------- MODULE Fetcher -------------------------------
(***************************************************************************)
(* The fetcher (src/node/fetcher.rs): a prefetcher that can finish, at a   *)
(* given height or at the head of the node's chain.                        *)
(*                                                                         *)
(* Each call of `Fetcher::next` calls `Prefetcher::next` and then decides  *)
(* whether the block it got is the last one.  Without a given end it asks  *)
(* the node for its height, a third RPC that races with reorgs and with    *)
(* the workers, and keeps the answer for the blocks to come.               *)
(***************************************************************************)
EXTENDS Prefetcher

CONSTANT Ends       \* the ends a caller may ask for, NoEnd for none

NoEnd   == -1       \* `end` is None
NoCount == -1       \* `cached_node_block_count` is None

ASSUME FetcherAssumption == Ends \subseteq Nat \cup {NoEnd}

VARIABLES
    cached_node_block_count,
    ended,
    end,
    call    \* where the caller and Fetcher::next are

fields == <<cached_node_block_count, ended, end, call>>
fvars  == <<vars, cached_node_block_count, ended, end, call>>

(* `call` is "returned" when the caller has control, "prefetcher" inside   *)
(* its next(), "count" while the block count is asked for, "finished" once *)
(* next() has returned None.                                               *)
FInit ==
    /\ Init
    /\ cached_node_block_count = NoCount
    /\ ended = FALSE
    /\ end \in Ends
    /\ call = "returned"
-----------------------------------------------------------------------------
(* next() on a fetcher that has not ended calls the prefetcher.            *)
CallPrefetcher ==
    /\ call = "returned"
    /\ ~ended
    /\ NextCall
    /\ call' = "prefetcher"
    /\ UNCHANGED <<cached_node_block_count, ended, end>>

(* next() on a fetcher that has ended returns None.                        *)
ReturnNone ==
    /\ call = "returned"
    /\ ended
    /\ call' = "finished"
    /\ UNCHANGED <<vars, cached_node_block_count, ended, end>>

(* The height of the block the prefetcher has just returned.               *)
ItemHeight == cur_height - 1

(* Mutants: one block too many; only a block at this very height ends it.  *)
PastEnd(height)  == height > end
ExactEnd(height) == height = end

(* Is the given end reached?                                               *)
ReachedEnd(height) == height >= end

(* Mutant: the count is asked for once.                                    *)
CountUnknown(height) == cached_node_block_count = NoCount

(* Without a given end, the count is asked for above the cached one.       *)
AboveCachedCount(height) ==
    height > IF cached_node_block_count = NoCount THEN 0 ELSE cached_node_block_count

(* Mutant: a height is taken for a number of blocks.                       *)
ReachedNumber(height, count) == height + 1 >= count

ReachedCount(height, count) == height >= count

(* The prefetcher returned a block.                                        *)
ItemArrives ==
    /\ call = "prefetcher"
    /\ pc = "idle"
    /\ IF end # NoEnd
       THEN ended' = ReachedEnd(ItemHeight) /\ call' = "returned"
       ELSE /\ call' = IF AboveCachedCount(ItemHeight) THEN "count" ELSE "returned"
            /\ UNCHANGED ended
    /\ UNCHANGED <<vars, cached_node_block_count, end>>

(* get_block_count, asked again for as long as it fails.                   *)
GetBlockCount ==
    /\ call = "count"
    /\ cached_node_block_count' = TipHeight(chain)
    /\ ended' = ReachedCount(ItemHeight, TipHeight(chain))
    /\ call' = "returned"
    /\ UNCHANGED <<vars, end>>

(* The caller drops the fetcher, after the last block or before; or        *)
(* Prefetcher::next panics and the fetcher is dropped on the way out.      *)
DropFetcher ==
    /\ call \in {"returned", "finished"} \/ pc = "panicked"
    /\ Drop
    /\ UNCHANGED fields

FetcherStep == CallPrefetcher \/ ReturnNone \/ ItemArrives \/ GetBlockCount

FNext ==
    \/ FetcherStep
    \/ DropFetcher
    \/ /\ \/ NodeChange
          \/ ConsumerGoesOn
          \/ \E w \in Worker : WorkerNext(w)
          \/ Terminated
       /\ UNCHANGED fields

(* As in Prefetcher; the caller keeps calling next() until it is None.     *)
FFairness ==
    /\ WF_fvars(FetcherStep)
    /\ WF_fvars(ConsumerGoesOn /\ UNCHANGED fields)
    /\ \A w \in Worker :
        /\ WF_fvars(WorkerNext(w) /\ UNCHANGED fields)
        /\ SF_fvars(WorkerGetId(w) /\ UNCHANGED fields)
        /\ SF_fvars(WorkerGetBlock(w) /\ UNCHANGED fields)

FSpec == FInit /\ [][FNext]_fvars /\ FFairness
-----------------------------------------------------------------------------
(* A caller that asked for an end is handed no block above it, however far *)
(* ahead the workers have fetched and however many reorgs there were; only *)
(* one that resumes at or above the end gets one block, the first.         *)
NoBlockAboveEnd ==
    end # NoEnd => \A h \in end + 1..Len(delivered) - 1 : h <= floor + 1

(* A fetcher without an end, when it ends, has handed over the node's      *)
(* chain: although the blocks and the count come from different moments,   *)
(* a reorg between them always shows as a greater count (a node only goes  *)
(* to a longer chain).                                                     *)
EndsWithNodesChain ==
    [][ended' /\ ~ended /\ end = NoEnd => delivered = chain]_fvars

(* The fetcher is gone before it could finish.                             *)
CutShort == pc \in {"panicked", "stop_drop", "dropped"}

(* A caller that asked for an end gets it, once the node's chain goes that *)
(* far, wherever it resumed from and whatever reorgs happen on the way.    *)
EndIsReached ==
    end # NoEnd /\ StartsOnChain =>
        \/ <>(call = "finished")
        \/ <>CutShort
        \/ <>[](TipHeight(chain) < end \/ TipHeight(chain) = floor)

(* A caller that asked for none gets the end, or the fetcher waits at the  *)
(* head of the node's chain for ever, and then only because the height it  *)
(* has cached is the head's (fetcher.rs asks again above it, not at it) or *)
(* because there is nothing above genesis.                                 *)
WaitsOnlyAtHead ==
    end = NoEnd /\ StartsOnChain =>
        \/ <>(call = "finished")
        \/ <>CutShort
        \/ <>[](/\ delivered = chain
                /\ \/ cached_node_block_count = TipHeight(chain)
                   \/ TipHeight(chain) \in {0, floor})
=============================================================================
