----------------------------- MODULE Prefetcher ------------------------------
(***************************************************************************)
(* The parallel block fetcher (src/node/prefetcher.rs).                    *)
(*                                                                         *)
(* A pool of worker threads takes heights from a shared counter, fetches   *)
(* the block at that height with two RPC calls and sends it into a bounded *)
(* channel.  The consumer (`Prefetcher::next`, called by the indexer's     *)
(* loop) reorders what it receives, compares each block's parent hash with *)
(* the hash it recorded one height below, and on a mismatch stops all the  *)
(* workers, steps one height back and starts new ones.  Meanwhile the node *)
(* may move to another chain between any two RPC calls.                    *)
(***************************************************************************)
EXTENDS BlockTree, FiniteSets

CONSTANTS
    ThreadNum,        \* worker threads during fast sync (num_cpus * 2)
    SlotsPerWorker,   \* channel capacity per worker (64)
    WindowSize        \* heights kept in prev_hashes (1000)

ASSUME PrefetcherAssumption ==
    /\ ThreadNum \in Nat \ {0}
    /\ SlotsPerWorker \in Nat \ {0}
    /\ WindowSize \in Nat \ {0}

VARIABLES
    chain,              \* the node's active chain
    \* fields of struct Prefetcher
    cur_height,         \* the next height the caller gets
    prev_hashes,        \* partial function: height -> recorded block hash
    out_of_order_items, \* blocks received ahead of their turn
    end_of_fast_sync,   \* the node's height when the prefetcher was created
    thread_num,         \* how many workers start_workers spawns
    workers_finish,     \* AtomicBool shared with the workers
    \* shared with the workers of the current generation
    next_height,        \* AtomicUsize: the next height to hand out
    channel,            \* the bounded channel: sequence of blocks
    \* threads
    worker,             \* the state of each worker thread
    pc,                 \* where the consumer is
    \* the caller
    delivered,          \* the chain the caller built from what it was handed
    floor,              \* the height of last_block, -1 if there is none
    \* history, read by no step
    replaced            \* recorded heights whose block the node has been without

nodeVars   == <<chain>>
sharedVars == <<workers_finish, next_height, channel>>
vars == <<chain, cur_height, prev_hashes, out_of_order_items,
          end_of_fast_sync, thread_num, workers_finish, next_height, channel,
          worker, pc, delivered, floor, replaced>>

Worker == 1..ThreadNum

(* A block with the height its worker asked for.  The parent hash in its   *)
(* header (`prev_block_id`) is Parent[item.id].                            *)
Item == [height : Nat, id : Block]

(* A worker: at which step it is, the height it fetches, and the block     *)
(* hash the first of its two RPC calls returned.                           *)
WorkerStep == {"get_height", "retry", "get_id", "get_block", "send", "exited"}
WorkerState == [step : WorkerStep, height : Nat, id : Block \cup {NoBlock}]

Exited   == [step |-> "exited", height |-> 0, id |-> NoBlock]
Starting == [step |-> "get_height", height |-> 0, id |-> NoBlock]

(* "idle": the caller has control; "look", "recv": inside next(); "stop_*":*)
(* inside stop_workers, called from next() at the end of fast sync, from   *)
(* reset_on_reorg, or from drop().                                         *)
StopSteps == {"stop_fast", "stop_reorg", "stop_drop"}
ConsumerStep == {"idle", "look", "recv", "panicked", "dropped"} \cup StopSteps

TypeOK ==
    /\ chain \in Chains
    /\ cur_height \in Nat
    /\ DOMAIN prev_hashes \in SUBSET Nat
    /\ \A h \in DOMAIN prev_hashes : prev_hashes[h] \in Block
    /\ out_of_order_items \in SUBSET Item
    /\ end_of_fast_sync \in Nat
    /\ thread_num \in Worker
    /\ workers_finish \in BOOLEAN
    /\ next_height \in Nat
    /\ channel \in Seq(Item)
    /\ worker \in [Worker -> WorkerState]
    /\ pc \in ConsumerStep
    /\ delivered \in Seq(Block)
    /\ floor \in Nat \cup {-1}
    /\ replaced \in SUBSET DOMAIN prev_hashes
-----------------------------------------------------------------------------
(* Mutant: start_workers forgets to lower the flag.                        *)
StartWorkersFlagUp(n, h) ==
    /\ workers_finish' = workers_finish
    /\ channel' = <<>>
    /\ next_height' = h
    /\ worker' = [w \in Worker |-> IF w <= n THEN Starting ELSE Exited]

(* start_workers: a new flag, channel and counter, and n fresh threads.    *)
StartWorkers(n, h) ==
    /\ workers_finish' = FALSE
    /\ channel' = <<>>
    /\ next_height' = h
    /\ worker' = [w \in Worker |-> IF w <= n THEN Starting ELSE Exited]

(* The chains a caller may resume from: the blocks up to `last_block`, or  *)
(* nothing.  They need not be on the node's chain any more, but the caller *)
(* checked that the node's chain reaches that height.                      *)
ResumePoints ==
    {<<>>} \cup UNION {{SubSeq(c, 1, n) : n \in 1..Len(c)} : c \in Chains}

(* The recorded heights at which chain c has another block.  The history   *)
(* variable `replaced` collects them for the chains the node has been on   *)
(* since next() last returned a block, or since the prefetcher was made.   *)
Differs(c, hashes) == {h \in DOMAIN hashes : h < Len(c) /\ c[h + 1] # hashes[h]}

(* Prefetcher::new(rpc, last_block).                                       *)
Init ==
    /\ chain \in Chains
    /\ delivered \in {d \in ResumePoints : Len(d) <= Len(chain)}
    /\ floor = Len(delivered) - 1
    /\ cur_height = Len(delivered)
    /\ prev_hashes = [h \in {Len(delivered) - 1} \cap Nat |-> delivered[h + 1]]
    /\ out_of_order_items = {}
    /\ end_of_fast_sync = TipHeight(chain)
    /\ thread_num = ThreadNum
    /\ workers_finish = FALSE
    /\ next_height = cur_height
    /\ channel = <<>>
    /\ worker = [w \in Worker |-> Starting]
    /\ pc = "idle"
    /\ replaced = Differs(chain, prev_hashes)
-----------------------------------------------------------------------------
(* The node mines blocks or reorganises to another, longer chain.          *)
NodeChange ==
    /\ \E c \in Chains :
        /\ Len(c) > Len(chain)
        /\ chain' = c
        /\ replaced' = replaced \cup Differs(c, prev_hashes)
    /\ UNCHANGED <<cur_height, prev_hashes, out_of_order_items,
                   end_of_fast_sync, thread_num, sharedVars, worker, pc,
                   delivered, floor>>
-----------------------------------------------------------------------------
(* The workers.                                                            *)

workerFrame == <<chain, cur_height, prev_hashes, out_of_order_items,
                 end_of_fast_sync, thread_num, workers_finish, pc, delivered,
                 floor, replaced>>

Become(w, step, height, id) ==
    worker' = [worker EXCEPT ![w] = [step |-> step, height |-> height, id |-> id]]

(* get_height_to_fetch: an atomic fetch_add on the shared counter.         *)
WorkerGetHeight(w) ==
    /\ worker[w].step = "get_height"
    /\ Become(w, "retry", next_height, NoBlock)
    /\ next_height' = next_height + 1
    /\ UNCHANGED <<workerFrame, channel>>

(* Mutant: the retry loop looks at the flag only once a block was sent.    *)
WorkerIgnoresFinish(w) ==
    /\ worker[w].step = "retry"
    /\ Become(w, "get_id", worker[w].height, NoBlock)
    /\ UNCHANGED <<workerFrame, next_height, channel>>

(* The top of the 'retry loop: return when workers_finish is set.          *)
WorkerCheckFinish(w) ==
    /\ worker[w].step = "retry"
    /\ IF workers_finish
       THEN Become(w, "exited", 0, NoBlock)
       ELSE Become(w, "get_id", worker[w].height, NoBlock)
    /\ UNCHANGED <<workerFrame, next_height, channel>>

(* get_block_by_height, first RPC: the hash at this height of the chain    *)
(* the node is on now.                                                     *)
WorkerGetId(w) ==
    /\ worker[w].step = "get_id"
    /\ worker[w].height < Len(chain)
    /\ Become(w, "get_block", worker[w].height, chain[worker[w].height + 1])
    /\ UNCHANGED <<workerFrame, next_height, channel>>

(* get_block_by_height, second RPC: the block with that hash, whatever     *)
(* chain the node is on by now.                                            *)
WorkerGetBlock(w) ==
    /\ worker[w].step = "get_block"
    /\ Become(w, "send", worker[w].height, worker[w].id)
    /\ UNCHANGED <<workerFrame, next_height, channel>>

(* Either RPC fails, or the node has no block at this height, or it does   *)
(* not return the block with that hash: sleep, then retry from the top.    *)
WorkerRetry(w) ==
    /\ worker[w].step \in {"get_id", "get_block"}
    /\ Become(w, "retry", worker[w].height, NoBlock)
    /\ UNCHANGED <<workerFrame, next_height, channel>>

(* tx.send(item): blocks while the channel is full.                        *)
WorkerSend(w) ==
    /\ worker[w].step = "send"
    /\ Len(channel) < thread_num * SlotsPerWorker
    /\ channel' = Append(channel, [height |-> worker[w].height, id |-> worker[w].id])
    /\ Become(w, "get_height", 0, NoBlock)
    /\ UNCHANGED <<workerFrame, next_height>>

WorkerNext(w) ==
    \/ WorkerGetHeight(w)
    \/ WorkerCheckFinish(w)
    \/ WorkerGetId(w)
    \/ WorkerGetBlock(w)
    \/ WorkerRetry(w)
    \/ WorkerSend(w)
-----------------------------------------------------------------------------
(* The consumer.                                                           *)

consumerFrame == <<chain, end_of_fast_sync, floor>>

(* track_reorgs on a block at cur_height: is the hash below it recorded,   *)
(* and does the block point to it?                                         *)
NoStoredHash == cur_height > 0 /\ cur_height - 1 \notin DOMAIN prev_hashes

(* Mutant: the parent hash is not compared.                                *)
NeverMismatch(item) == FALSE

Mismatch(item) == cur_height > 0 /\ prev_hashes[cur_height - 1] # Parent[item.id]

(* Mutant: the window keeps one hash too many.                             *)
RememberOneMore(item) ==
    [h \in (DOMAIN prev_hashes \cup {cur_height}) \ {cur_height - WindowSize - 1} |->
        IF h = cur_height THEN item.id ELSE prev_hashes[h]]

(* Mutant: the window keeps one hash too few.                              *)
RememberOneLess(item) ==
    [h \in (DOMAIN prev_hashes \cup {cur_height}) \ {cur_height - WindowSize + 1} |->
        IF h = cur_height THEN item.id ELSE prev_hashes[h]]

(* The hashes kept after a block is accepted at cur_height.                *)
Remember(item) ==
    [h \in (DOMAIN prev_hashes \cup {cur_height}) \ {cur_height - WindowSize} |->
        IF h = cur_height THEN item.id ELSE prev_hashes[h]]

(* The assertions of track_reorgs: without a stored hash it panics.        *)
PanicNoHash ==
    /\ NoStoredHash
    /\ pc' = "panicked"
    /\ UNCHANGED <<cur_height, prev_hashes, delivered, workers_finish, replaced>>

(* A reorg: stop_workers begins by raising the flag; the item is dropped.  *)
DetectReorg(item) ==
    /\ ~NoStoredHash
    /\ Mismatch(item)
    /\ pc' = "stop_reorg"
    /\ workers_finish' = TRUE
    /\ UNCHANGED <<cur_height, prev_hashes, delivered, replaced>>

(* The block continues the chain: record it and return it to the caller.   *)
Accept(item) ==
    /\ ~NoStoredHash
    /\ ~Mismatch(item)
    /\ prev_hashes' = Remember(item)
    /\ cur_height' = cur_height + 1
    /\ delivered' = ChainInsert(delivered, cur_height, item.id)
    /\ replaced' = Differs(chain, Remember(item))
    /\ pc' = "idle"
    /\ UNCHANGED workers_finish

TrackReorgs(item) == PanicNoHash \/ DetectReorg(item) \/ Accept(item)

(* The caller calls next(): when the chain head seen at start is reached,  *)
(* restart with one worker first.                                          *)
NextCall ==
    /\ pc = "idle"
    /\ IF end_of_fast_sync = cur_height
       THEN pc' = "stop_fast" /\ workers_finish' = TRUE
       ELSE pc' = "look" /\ UNCHANGED workers_finish
    /\ UNCHANGED <<consumerFrame, cur_height, prev_hashes, out_of_order_items,
                   thread_num, next_height, channel, worker, delivered, replaced>>

(* The wanted block arrived earlier, out of order.                         *)
TakeOutOfOrder ==
    /\ pc = "look"
    /\ \E item \in out_of_order_items :
        /\ item.height = cur_height
        /\ out_of_order_items' = out_of_order_items \ {item}
        /\ TrackReorgs(item)
    /\ UNCHANGED <<consumerFrame, thread_num, next_height, channel, worker>>

NothingOutOfOrder ==
    /\ pc = "look"
    /\ \A item \in out_of_order_items : item.height # cur_height
    /\ pc' = "recv"
    /\ UNCHANGED <<consumerFrame, cur_height, prev_hashes, out_of_order_items,
                   thread_num, sharedVars, worker, delivered, replaced>>

(* rx.recv() returns the block that is due.                                *)
RecvExpected ==
    /\ pc = "recv"
    /\ channel # <<>>
    /\ Head(channel).height = cur_height
    /\ channel' = Tail(channel)
    /\ TrackReorgs(Head(channel))
    /\ UNCHANGED <<consumerFrame, out_of_order_items, thread_num, next_height,
                   worker>>

(* Mutant: a block that is not due is thrown away.                         *)
KeepNothing(item) == out_of_order_items

(* HashMap::insert: an item replaces one of the same height.               *)
Keep(item) ==
    {i \in out_of_order_items : i.height # item.height} \cup {item}

(* rx.recv() returns another block: keep it, asserting it is a later one.  *)
RecvOutOfOrder ==
    /\ pc = "recv"
    /\ channel # <<>>
    /\ Head(channel).height # cur_height
    /\ channel' = Tail(channel)
    /\ IF Head(channel).height > cur_height
       THEN out_of_order_items' = Keep(Head(channel)) /\ UNCHANGED pc
       ELSE pc' = "panicked" /\ UNCHANGED out_of_order_items
    /\ UNCHANGED <<consumerFrame, cur_height, prev_hashes, thread_num,
                   workers_finish, next_height, worker, delivered, replaced>>

(* Prefetcher::drop, when the caller is done or unwinds from a panic.      *)
Drop ==
    /\ pc \in {"idle", "panicked"}
    /\ pc' = "stop_drop"
    /\ workers_finish' = TRUE
    /\ UNCHANGED <<consumerFrame, cur_height, prev_hashes, out_of_order_items,
                   thread_num, next_height, channel, worker, delivered, replaced>>

(* stop_workers: receive and discard until every sender is gone.           *)
Drain ==
    /\ pc \in StopSteps
    /\ channel # <<>>
    /\ channel' = Tail(channel)
    /\ UNCHANGED <<consumerFrame, cur_height, prev_hashes, out_of_order_items,
                   thread_num, workers_finish, next_height, worker, pc, delivered, replaced>>

(* Every worker returned and dropped its sender, and the channel is empty. *)
Disconnected == channel = <<>> /\ \A w \in Worker : worker[w] = Exited

(* Mutant: stop_workers does not clear the out-of-order items.             *)
KeptAllOnStop == out_of_order_items

(* The items a stopped prefetcher keeps: out_of_order_items.clear().       *)
KeptOnStop == {}

(* Mutants: go back by two heights, or below the window at once.           *)
TwoBack == IF cur_height > 1 THEN cur_height - 2 ELSE 0
BelowWindow == cur_height - WindowSize - 1

(* reset_on_reorg: the height to try after a mismatch.                     *)
HeightAfterReorg == cur_height - 1

(* stop_workers returns to next(), which goes on with a single worker.     *)
RestartAfterFastSync ==
    /\ pc = "stop_fast"
    /\ Disconnected
    /\ out_of_order_items' = KeptOnStop
    /\ thread_num' = 1
    /\ StartWorkers(1, cur_height)
    /\ pc' = "look"
    /\ UNCHANGED <<consumerFrame, cur_height, prev_hashes, delivered, replaced>>

(* stop_workers returns to reset_on_reorg: retry one height below.         *)
RestartAfterReorg ==
    /\ pc = "stop_reorg"
    /\ Disconnected
    /\ out_of_order_items' = KeptOnStop
    /\ cur_height' = HeightAfterReorg
    /\ StartWorkers(thread_num, HeightAfterReorg)
    /\ pc' = "look"
    /\ UNCHANGED <<consumerFrame, prev_hashes, thread_num, delivered, replaced>>

FinishDrop ==
    /\ pc = "stop_drop"
    /\ Disconnected
    /\ out_of_order_items' = KeptOnStop
    /\ pc' = "dropped"
    /\ UNCHANGED <<consumerFrame, cur_height, prev_hashes, thread_num,
                   sharedVars, worker, delivered, replaced>>

(* After drop nothing is left to run.                                      *)
Terminated == pc = "dropped" /\ UNCHANGED vars

(* What follows a call of next() or drop(), up to its return.              *)
ConsumerGoesOn ==
    \/ TakeOutOfOrder
    \/ NothingOutOfOrder
    \/ RecvExpected
    \/ RecvOutOfOrder
    \/ Drain
    \/ RestartAfterFastSync
    \/ RestartAfterReorg
    \/ FinishDrop

ConsumerStepNext == NextCall \/ ConsumerGoesOn

Next ==
    \/ NodeChange
    \/ ConsumerStepNext
    \/ Drop
    \/ \E w \in Worker : WorkerNext(w)
    \/ Terminated

Spec == Init /\ [][Next]_vars

(* The operating system runs every thread; the caller keeps calling next();*)
(* an RPC that the node can answer, retried for ever, is at last answered. *)
Fairness ==
    /\ WF_vars(ConsumerStepNext)
    /\ \A w \in Worker :
        /\ WF_vars(WorkerNext(w))
        /\ SF_vars(WorkerGetId(w))
        /\ SF_vars(WorkerGetBlock(w))

FairSpec == Spec /\ Fairness
-----------------------------------------------------------------------------
(* Who holds which height: the workers, the channel, the reorder buffer.   *)
Fetching == {w \in Worker : worker[w].step \notin {"get_height", "exited"}}
Running == pc \in {"idle", "look", "recv"}

(* Between restarts, the heights from cur_height up to the shared counter  *)
(* are each held exactly once: by one worker, one channel slot or one      *)
(* out-of-order entry (get_height_to_fetch, next, stop_workers).  So the   *)
(* assertion `item.block.height > self.cur_height` cannot fail, no height  *)
(* is lost (the consumer would wait for it for ever) and none is handed    *)
(* over twice.                                                             *)
FetchedHeights  == {worker[w].height : w \in Fetching}
ChannelHeights  == {channel[i].height : i \in DOMAIN channel}
ReorderHeights  == {i.height : i \in out_of_order_items}

HeightsAccountedFor ==
    Running =>
        /\ FetchedHeights \cup ChannelHeights \cup ReorderHeights
             = cur_height..(next_height - 1)
        /\ FetchedHeights \cap ChannelHeights = {}
        /\ FetchedHeights \cap ReorderHeights = {}
        /\ ChannelHeights \cap ReorderHeights = {}
        /\ \A v, w \in Fetching : worker[v].height = worker[w].height => v = w
        /\ \A i, j \in DOMAIN channel : channel[i].height = channel[j].height => i = j
        /\ \A i, j \in out_of_order_items : i.height = j.height => i = j

(* The recorded hashes are the hashes of the blocks the caller holds, they *)
(* leave no gap below cur_height, and there are never more than WindowSize *)
(* of them (the assertion at the end of track_reorgs).                     *)
HashesMatchDelivered ==
    /\ cur_height <= Len(delivered)
    /\ \A h \in DOMAIN prev_hashes :
        h < Len(delivered) => prev_hashes[h] = delivered[h + 1]
    /\ \A h \in DOMAIN prev_hashes, g \in 0..cur_height - 1 :
        h < g => g \in DOMAIN prev_hashes
    /\ Cardinality(DOMAIN prev_hashes) <= WindowSize

(* What the caller was handed is a chain: in whatever order replies        *)
(* arrive, and whatever reorg falls between two RPCs, next() never returns *)
(* a block of another branch on top of a block it does not point to.       *)
DeliveredIsChain == IsChain(delivered)

(* The panic "reorg beyond acceptable depth" (track_reorgs) is raised only *)
(* below a window of hashes that is full, or that reaches down to          *)
(* last_block, and only when the node, since next() last returned a block, *)
(* has been on chains with another block at every recorded height.  So     *)
(* neither out-of-order arrival, nor a restart, nor a reply from before a  *)
(* reorg, nor reorgs inside the window, however many, can cause it.  (The  *)
(* node may be back on the recorded blocks by then: a reply of a worker    *)
(* from the time between is enough.)                                       *)
PanicOnlyOnDeepReorg ==
    pc = "panicked" =>
        /\ cur_height \in DOMAIN prev_hashes
        /\ \A h \in DOMAIN prev_hashes : cur_height <= h
        /\ \/ Cardinality(DOMAIN prev_hashes) = WindowSize
           \/ floor \in DOMAIN prev_hashes
        /\ DOMAIN prev_hashes \subseteq replaced

(* No worker of an earlier generation is alive with the flag lowered: a    *)
(* worker that outlived stop_workers could send a block of the abandoned   *)
(* chain into the new channel.  Until the caller drops the prefetcher,     *)
(* exactly thread_num workers run between restarts, so the channel never   *)
(* disconnects under recv ("Workers shouldn't disconnect").                *)
WorkersMatchThreadNum ==
    Running => /\ ~workers_finish
               /\ {w \in Worker : worker[w] # Exited} = 1..thread_num

(* Blocks reach the caller as BlockStream promises: linked, without a gap, *)
(* and never in the place of last_block or below it.                       *)
Stream == INSTANCE BlockStream WITH stream <- delivered
StreamSpec == Stream!Spec

(* A caller that starts from blocks of the node's chain, and neither drops *)
(* the prefetcher nor meets a reorg that is too deep, ends up holding the  *)
(* node's chain, whatever reorgs happened and however replies raced with   *)
(* them (tests.rs, `chain == rpc_chain`).                                  *)
StartsOnChain == delivered = SubSeq(chain, 1, Len(delivered))

Converges ==
    StartsOnChain =>
        \/ <>(pc \in {"panicked", "stop_drop"})
        \/ <>[](delivered = chain)

(* stop_workers returns: draining the channel lets every worker that is    *)
(* blocked in send go on to see the flag, so nobody waits for ever.        *)
StopTerminates == pc \in StopSteps ~> pc \notin StopSteps
=============================================================================
