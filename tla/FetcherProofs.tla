---------------------------- MODULE FetcherProofs -----------------------------
(***************************************************************************)
(* Safety of the fetcher, for every block tree, any number of workers and  *)
(* any end the caller may ask for.                                         *)
(*                                                                         *)
(* A fetcher takes the steps of a prefetcher and no others, so what is     *)
(* proved of a prefetcher holds in it.  What it adds is the decision which *)
(* block is the last: FInv relates it to the chain handed over so far, and *)
(* the block at the top of that chain to the chains of the node.           *)
(***************************************************************************)
EXTENDS Fetcher, PrefetcherProofs

(* Where the caller is: the prefetcher works only inside its next().       *)
CallOK ==
    /\ cached_node_block_count \in Nat \cup {NoCount}
    /\ ended \in BOOLEAN
    /\ end \in Nat \cup {NoEnd}
    /\ call \in {"returned", "prefetcher", "count", "finished"}
    /\ pc \in {"look", "recv"} => call = "prefetcher"
    /\ pc \in {"stop_fast", "stop_reorg"} => call = "prefetcher"
    /\ call = "count" => end = NoEnd /\ pc = "idle"

(* With an end: until the fetcher has ended, the chain handed over does    *)
(* not reach the end, unless the caller resumed from above it.             *)
BelowEnd ==
    end # NoEnd =>
        /\ Len(delivered) - 1 <= end \/ Len(delivered) - 1 <= floor + 1
        /\ (call = "returned" /\ ~ended) \/ (call = "prefetcher" /\ pc # "idle") =>
                Len(delivered) - 1 < end \/ Len(delivered) - 1 <= floor

(* When the prefetcher returns, the block on top is the one it returned.   *)
TopReturned ==
    pc = "idle" =>
        /\ cur_height = Len(delivered)
        /\ call \in {"prefetcher", "count"} =>
                cur_height > 0 /\ Seen(cur_height - 1, delivered[cur_height])

FInv == CallOK /\ BelowEnd /\ TopReturned
-----------------------------------------------------------------------------
(* The steps of a fetcher are those of the prefetcher in it, and steps     *)
(* that leave the prefetcher alone.                                        *)
LEMMA FStep == [FNext]_fvars => [Next]_vars
  BY DEF FNext, FetcherStep, CallPrefetcher, ReturnNone, ItemArrives, GetBlockCount, DropFetcher,
         Next, ConsumerStepNext, fvars, vars

(* The fetcher's prefetcher is one: fetcher.rs uses it by new and next.    *)
THEOREM ImplementsPrefetcher == FSpec => Spec
<1>1. FInit => Init
  BY DEF FInit
<1> QED BY <1>1, FStep, PTL DEF FSpec, Spec

(* The block the prefetcher returns becomes the top of the caller's chain. *)
LEMMA AcceptedOnTop ==
    ASSUME Inv, SeenInv, TakeOutOfOrder \/ RecvExpected, [Next]_vars, pc' = "idle"
    PROVE  /\ cur_height' = cur_height + 1 /\ cur_height \in Nat
           /\ Len(delivered') = cur_height' /\ Len(delivered') <= Len(delivered) + 1
           /\ Seen(cur_height - 1, delivered[cur_height])'
<1>1. PICK item : item.id \in Block /\ Seen(cur_height, item.id) /\ TrackReorgs(item)
  BY DueItem
<1>2. Accept(item)
  BY <1>1 DEF TrackReorgs, PanicNoHash, DetectReorg
<1>3. /\ cur_height' = cur_height + 1 /\ cur_height \in Nat
      /\ delivered' = ChainInsert(delivered, cur_height, item.id)
      /\ delivered \in Seq(Block) /\ cur_height <= Len(delivered)
  BY <1>2 DEF Accept, Inv, TypeOK, RecordedDelivered
<1>4. /\ Len(delivered') = cur_height + 1 /\ delivered'[cur_height + 1] = item.id
      /\ Len(delivered) \in Nat
  BY <1>1, <1>3 DEF ChainInsert
<1>5. SeenBy(chain', cur_height, item.id)
  BY <1>1, StaysSeen
<1>6. cur_height' - 1 = cur_height /\ delivered'[cur_height'] = item.id
  BY <1>3, <1>4
<1>7. Seen(cur_height - 1, delivered[cur_height])'
  BY <1>5, <1>6 DEF Seen
<1> QED BY <1>3, <1>4, <1>7

(* In every other step the prefetcher returns nothing, and the chain       *)
(* stays; next() and drop() are called by a caller that has control.       *)
LEMMA NothingReturned ==
    ASSUME Inv, [Next]_vars, ~TakeOutOfOrder, ~RecvExpected
    PROVE  /\ delivered' = delivered
           /\ pc' = "idle" => pc = "idle" /\ cur_height' = cur_height
<1>1. delivered' = delivered
  BY DEF Next, ConsumerStepNext, ConsumerGoesOn, NodeChange, NextCall, NothingOutOfOrder,
    RecvOutOfOrder, Drop, Drain, RestartAfterFastSync, RestartAfterReorg,
    FinishDrop, Terminated, WorkerNext, WorkerGetHeight, WorkerCheckFinish, WorkerGetId,
    WorkerGetBlock, WorkerRetry, WorkerSend, workerFrame, vars
<1>2. pc' = "idle" => pc = "idle" /\ cur_height' = cur_height
  BY DEF Next, ConsumerStepNext, ConsumerGoesOn, NodeChange, NextCall, NothingOutOfOrder,
    RecvOutOfOrder, Drop, Drain, RestartAfterFastSync, RestartAfterReorg, StopSteps,
    FinishDrop, Terminated, WorkerNext, WorkerGetHeight, WorkerCheckFinish, WorkerGetId,
    WorkerGetBlock, WorkerRetry, WorkerSend, workerFrame, vars
<1> QED BY <1>1, <1>2

(* The prefetcher waits for the caller.                                    *)
LEMMA PrefetcherKeepsIdle ==
    ASSUME [FNext]_fvars, UNCHANGED fields, pc = "idle"
    PROVE  pc' = "idle" \/ DropFetcher
<1>1. ConsumerGoesOn => pc' = "idle"
  BY DEF ConsumerGoesOn, TakeOutOfOrder, NothingOutOfOrder, RecvExpected, RecvOutOfOrder, Drain,
     RestartAfterFastSync, RestartAfterReorg, FinishDrop, StopSteps
<1>2. ~CallPrefetcher
  BY DEF CallPrefetcher, fields
<1> QED
  BY <1>1, <1>2 DEF FNext, FetcherStep, ReturnNone, ItemArrives, GetBlockCount, NodeChange,
     Terminated, WorkerNext, WorkerGetHeight, WorkerCheckFinish, WorkerGetId,
     WorkerGetBlock, WorkerRetry, WorkerSend, workerFrame, fvars, vars

(* Who has control stays consistent with what the prefetcher does.         *)
LEMMA CallStep == ASSUME Inv, CallOK, [FNext]_fvars PROVE CallOK'
<1>1. CASE FetcherStep
  <2>1. TipHeight(chain) \in Nat
    <3>1. chain \in Chains
      BY DEF Inv, TypeOK
    <3> QED BY <3>1, ChainsAreChains DEF TipHeight
  <2>2. CASE CallPrefetcher
    BY <2>2 DEF CallPrefetcher, NextCall, CallOK
  <2>3. CASE ReturnNone
    BY <2>3 DEF ReturnNone, CallOK, vars
  <2>4. CASE ItemArrives
    <3>0. ReachedEnd(ItemHeight) \in BOOLEAN
      BY DEF ReachedEnd
    <3>1. ended' \in BOOLEAN
      BY <2>4, <3>0, Zenon DEF ItemArrives, CallOK
    <3>2. call' \in {"returned", "count"} /\ (call' = "count" => end = NoEnd)
          /\ UNCHANGED <<vars, cached_node_block_count, end>> /\ pc = "idle"
      BY <2>4 DEF ItemArrives
    <3> QED BY <3>1, <3>2 DEF CallOK, vars
  <2>5. CASE GetBlockCount
    BY <2>1, <2>5 DEF GetBlockCount, CallOK, vars, ReachedCount
  <2> QED BY <1>1, <2>2, <2>3, <2>4, <2>5 DEF FetcherStep
<1>2. CASE DropFetcher
  BY <1>2 DEF DropFetcher, Drop, fields, CallOK
<1>3. ASSUME UNCHANGED fields,
             pc' \in {"look", "recv", "stop_fast", "stop_reorg"} => call = "prefetcher",
             pc = "idle" => pc' = "idle"
      PROVE  CallOK'
  BY <1>3 DEF CallOK, fields
<1>4. CASE ConsumerGoesOn /\ UNCHANGED fields
  BY <1>3, <1>4 DEF ConsumerGoesOn, TakeOutOfOrder, NothingOutOfOrder, RecvExpected, RecvOutOfOrder,
     TrackReorgs, PanicNoHash, DetectReorg, Accept, Drain, RestartAfterFastSync,
     RestartAfterReorg, FinishDrop, CallOK
<1>5. CASE (NodeChange \/ Terminated \/ (\E w \in Worker : WorkerNext(w)) \/ UNCHANGED vars)
           /\ UNCHANGED fields
  <2>1. pc' = pc
    BY <1>5 DEF NodeChange, Terminated, vars, WorkerNext, WorkerGetHeight, WorkerCheckFinish,
     WorkerGetId, WorkerGetBlock, WorkerRetry, WorkerSend, workerFrame
  <2> QED BY <1>3, <1>5, <2>1 DEF CallOK
<1> QED BY <1>1, <1>2, <1>4, <1>5 DEF FNext, fvars, fields

(* The chain handed over, the end, and who has control.                    *)
LEMMA EndStep ==
    ASSUME Inv, SeenInv, FInv, [FNext]_fvars
    PROVE  BelowEnd' /\ TopReturned'
<1> USE DEF FInv
<1>0. /\ [Next]_vars /\ floor' = floor /\ end' = end
      /\ floor \in Int /\ Len(delivered) \in Nat /\ cur_height \in Nat /\ end \in Int
  <2>1. end' = end
    BY DEF FNext, FetcherStep, CallPrefetcher, ReturnNone, ItemArrives, GetBlockCount,
       DropFetcher, fields, fvars
  <2> QED BY <2>1, FStep, FloorKept DEF Inv, TypeOK, CallOK, NoEnd
<1>1. CASE TakeOutOfOrder \/ RecvExpected
  <2>1. pc \in {"look", "recv"} /\ call = "prefetcher"
    BY <1>1, DueItem DEF CallOK
  <2>2. UNCHANGED fields
    BY <1>1, <2>1 DEF TakeOutOfOrder, RecvExpected, FNext, FetcherStep, CallPrefetcher, ReturnNone,
       ItemArrives, GetBlockCount, DropFetcher, Drop, fields, fvars
  <2>3. CASE pc' = "idle"
    <3>1. /\ cur_height' = cur_height + 1
          /\ Len(delivered') = cur_height' /\ Len(delivered') <= Len(delivered) + 1
          /\ Seen(cur_height - 1, delivered[cur_height])'
      BY <1>0, <1>1, <2>3, AcceptedOnTop
    <3>2. TopReturned'
      BY <1>0, <3>1 DEF TopReturned
    <3>3. end # NoEnd => Len(delivered) - 1 < end \/ Len(delivered) - 1 <= floor
      BY <2>1 DEF BelowEnd
    <3>4. BelowEnd'
      BY <1>0, <2>1, <2>2, <2>3, <3>1, <3>3 DEF BelowEnd, fields
    <3> QED BY <3>2, <3>4
  <2>4. CASE pc' # "idle"
    <3>1. delivered' = delivered
      BY <2>4, <1>1 DEF TakeOutOfOrder, RecvExpected, TrackReorgs, PanicNoHash, DetectReorg, Accept
    <3> QED BY <1>0, <2>1, <2>2, <2>4, <3>1 DEF BelowEnd, TopReturned, fields
  <2> QED BY <2>3, <2>4
<1>2. CASE ~TakeOutOfOrder /\ ~RecvExpected
  <2>1. /\ delivered' = delivered
        /\ pc' = "idle" => pc = "idle" /\ cur_height' = cur_height
    BY <1>0, <1>2, NothingReturned
  <2>2. ASSUME pc' = "idle", call' \in {"prefetcher", "count"} PROVE TopReturned'
    <3>1. pc = "idle" /\ cur_height' = cur_height /\ cur_height = Len(delivered)
      BY <2>1, <2>2 DEF TopReturned
    <3>2. call \in {"prefetcher", "count"}
      BY <2>2, <3>1 DEF FNext, FetcherStep, CallPrefetcher, NextCall, ReturnNone, ItemArrives,
         GetBlockCount, DropFetcher, fields, fvars
    <3>3. SeenBy(chain', cur_height - 1, delivered[cur_height])
      BY <1>0, <3>1, <3>2, StaysSeen DEF TopReturned
    <3> QED BY <2>1, <3>1, <3>2, <3>3 DEF TopReturned, Seen
  <2>3. TopReturned'
    BY <2>1, <2>2 DEF TopReturned
  <2>4. BelowEnd'
    <3> SUFFICES ASSUME end # NoEnd,
                        (call' = "returned" /\ ~ended') \/ (call' = "prefetcher" /\ pc' # "idle")
                 PROVE  Len(delivered) - 1 < end \/ Len(delivered) - 1 <= floor
      BY <1>0, <2>1 DEF BelowEnd
    <3>1. CASE ItemArrives
      <4>1. ~ReachedEnd(ItemHeight) /\ pc = "idle"
        BY <3>1 DEF ItemArrives, vars
      <4>2. ItemHeight = Len(delivered) - 1
        BY <4>1 DEF TopReturned, ItemHeight
      <4> QED BY <1>0, <4>1, <4>2 DEF ReachedEnd
    <3>2. CASE ~ItemArrives
      <4>1. ASSUME UNCHANGED fields, pc = "idle" PROVE pc' = "idle" \/ DropFetcher
        BY <4>1, PrefetcherKeepsIdle
      <4>2. (call = "returned" /\ ~ended) \/ (call = "prefetcher" /\ pc # "idle")
        BY <3>2, <4>1 DEF FNext, FetcherStep, CallPrefetcher, NextCall, ReturnNone, GetBlockCount,
           DropFetcher, fields, fvars, CallOK
      <4> QED BY <4>2 DEF BelowEnd
    <3> QED BY <3>1, <3>2
  <2> QED BY <2>3, <2>4
<1> QED BY <1>1, <1>2

(* FInv holds for ever, beside all that is proved of the prefetcher.       *)
LEMMA FetcherInv == FSpec => [](Inv /\ SeenInv /\ FInv)
<1>1. FInit => FInv
  <2> SUFFICES ASSUME FInit PROVE FInv
    OBVIOUS
  <2>1. /\ Inv /\ pc = "idle" /\ call = "returned" /\ cur_height = Len(delivered)
        /\ floor = Len(delivered) - 1 /\ Len(delivered) \in Nat
    BY InitInv DEF FInit, Init, Inv, TypeOK
  <2>2. CallOK
    BY <2>1, FetcherAssumption DEF FInit, CallOK
  <2> QED BY <2>1, <2>2 DEF FInv, BelowEnd, TopReturned
<1>2. Inv /\ SeenInv /\ FInv /\ [FNext]_fvars => FInv'
  BY CallStep, EndStep DEF FInv
<1> QED BY <1>1, <1>2, ImplementsPrefetcher, SpecInv, ItemsSeen, PTL DEF FSpec

(* A caller that asked for an end is handed no block above it, unless it   *)
(* resumed from there (Fetcher::next).                                     *)
THEOREM StopsAtEnd == FSpec => []NoBlockAboveEnd
<1>1. ASSUME Inv, FInv PROVE NoBlockAboveEnd
  <2> SUFFICES ASSUME end # NoEnd, NEW h \in end + 1..Len(delivered) - 1 PROVE h <= floor + 1
    BY DEF NoBlockAboveEnd
  <2>1. Len(delivered) \in Nat /\ floor \in Int /\ end \in Int
    BY <1>1 DEF Inv, TypeOK, FInv, CallOK, NoEnd
  <2> QED BY <1>1, <2>1 DEF FInv, BelowEnd
<1> QED BY <1>1, FetcherInv, PTL

(* A fetcher without an end finishes only when it has handed over the      *)
(* chain the node is on at that moment, whatever reorg fell between the    *)
(* block and the count (Fetcher::next).                                    *)
THEOREM EndsOnNodesChain == FSpec => EndsWithNodesChain
<1>1. ASSUME Inv, FInv, [FNext]_fvars, ended', ~ended, end = NoEnd
      PROVE  delivered = chain
  <2>1. GetBlockCount
    BY <1>1 DEF FNext, FetcherStep, CallPrefetcher, ReturnNone, ItemArrives, DropFetcher,
       fields, fvars
  <2>2. call = "count" /\ ItemHeight >= TipHeight(chain)
    BY <1>1, <2>1 DEF GetBlockCount, ReachedCount
  <2>3. /\ cur_height = Len(delivered) /\ cur_height > 0 /\ cur_height \in Nat
        /\ Seen(cur_height - 1, delivered[cur_height])
    BY <1>1, <2>2 DEF FInv, CallOK, TopReturned, Inv, TypeOK
  <2>4. /\ IsChain(delivered) /\ delivered \in Seq(Block)
        /\ chain \in Chains /\ IsChain(chain) /\ chain \in Seq(Block) /\ Len(chain) \in Nat
    <3>1. chain \in Chains
      BY <1>1 DEF Inv, TypeOK
    <3> QED BY <1>1, <3>1, ChainsAreChains DEF Inv, DeliveredIsChain, IsChain
  <2>5. PICK c \in Chains : /\ c = chain \/ Len(c) < Len(chain)
                            /\ cur_height - 1 < Len(c)
                            /\ c[(cur_height - 1) + 1] = delivered[cur_height]
    BY <2>3 DEF Seen, SeenBy
  <2>6. cur_height - 1 >= Len(chain) - 1
    BY <2>2 DEF ItemHeight, TipHeight
  <2>7. Len(c) \in Nat
    BY ChainsAreChains
  <2>8. c = chain /\ cur_height = Len(chain)
    BY <2>3, <2>4, <2>5, <2>6, <2>7
  <2>9. chain[cur_height] = delivered[cur_height]
    BY <2>3, <2>5, <2>8
  <2>10. \A j \in 1..cur_height : delivered[j] = chain[j]
    <3>1. cur_height \in 1..Len(delivered) /\ cur_height \in 1..Len(chain)
      BY <2>3, <2>8
    <3> QED BY <2>4, <2>9, <3>1, SameBelow
  <2>11. Len(delivered) = Len(chain)
    BY <2>3, <2>8
  <2> QED BY <2>4, <2>8, <2>10, <2>11, SeqEqual
<1> QED BY <1>1, FetcherInv, PTL DEF FSpec, EndsWithNodesChain
=============================================================================
