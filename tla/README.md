# A TLA+ model of rust-bitcoin-indexer

This directory holds TLA+ modules that model the indexer, TLC configurations
that check them on small instances, and proofs that the TLA+ proof system
(TLAPS) checks for every instance. Paths below are relative to the repository.

## The system

`bitcoin-indexer` copies the block chain of a bitcoin node into a Postgres
database and follows the node through reorganisations ("reorgs").

    node --RPC--> Prefetcher --blocks--> main loop --insert--> IndexerStore
                  (N workers)                                   | batches
                                                     3-thread pipeline
                                                                | transactions
      subscribers <--events-- Postgres <------------------------+
                                 ^
      node --RPC--> mempool indexer (another process)

| Component | State | Operations | Interacts with |
|---|---|---|---|
| Node | active chain | answers two RPCs, by height and by hash; mines, reorganises | workers, one call at a time |
| `Prefetcher` (`src/node/prefetcher.rs`) | `cur_height`, `prev_hashes`, `out_of_order_items`, `thread_num`, `end_of_fast_sync`; shared: flag, counter, bounded channel | `new`, `next`, `track_reorgs`, `reset_on_reorg`, `start_workers`, `stop_workers`, `drop`; `Worker::run` | workers through the channel, the flag and the counter; the caller through `next` |
| Main loop (`src/main.rs`) | none | pick the height to resume from; insert each block | `Prefetcher`, `IndexerStore` |
| `IndexerStore` (`src/db/pg.rs`) | `mode`, `batch`, `pending_reorg`, `in_flight`, `chain_block_count`, pipeline | `new`, `insert`, `flush_batch`, `finish_reorg`, `set_mode`, `self_test` | pipeline through rendezvous channels and `in_flight`; the database |
| Pipeline (`AsyncBlockInsertWorker`) | a batch per thread, the UTXO cache | fetch UTXOs, format, commit | each other, the database |
| Database (`src/db/pg/*.sql`) | tables, keys and indices of the mode, `indexer_state` | transactions | store, mempool indexer, subscribers |
| `Fetcher` (`src/node/fetcher.rs`) | end condition, cached block count | `next` | `Prefetcher`, node |
| Event source (`src/event_source.rs`, `pg.rs`) | a cursor | poll | database |
| Mempool indexer (`src/bin/mempool-indexer.rs`, `pg.rs`) | set of transactions done | scan, insert | node, database |

What is hard in each, and what makes it correct:

* **Prefetcher.** Replies come in any order; the node may change chain between
  the two RPCs that fetch one block; a reorg is seen only as a block whose
  parent is not the hash recorded one height below; all workers are then
  stopped, while some are blocked on a full channel, and started again one
  height lower. Correct means: the caller is handed blocks that are linked to
  each other; no height is lost or handed over twice; the panic for deep reorgs
  is raised for deep reorgs only; stopping ends; the caller gets to the node's
  chain.
* **IndexerStore and pipeline.** Blocks travel through four places (batch and
  three threads) before they are in the database; decisions are taken by
  reading the database; reorgs may interrupt reorgs; the process may stop
  anywhere, and a connection may be lost before or after a commit. Correct
  means: the database always holds one chain, which only gets longer, in atomic
  steps; the event log tells exactly how; nothing accepted is lost before the
  process stops; after a restart the same chain is taken up again.
* **Modes.** Keys and indices differ by mode, and mode and schema change in
  separate transactions. Correct means: the schema a mode needs can be built,
  and the mode is the one the documentation says.
* **Main loop.** It must resume low enough for reorgs that happened while it
  was down, and treat blocks that come again as such.
* **UTXO cache.** Decides from a database that older batches are still on their
  way to. Correct means: every output a batch spends is found in the cache or in
  the database, and the cache holds nothing of a branch that is gone.
* **Fetcher.** Its block count is a third RPC, which races with reorgs. It must
  stop at the end of the chain and not before.
* **Event source.** Ids are drawn before rows become visible, pages cut reorgs
  in two. A subscriber that polls must see every event once, in order.
* **Mempool indexer.** Its three statements per transaction run beside the
  indexer's transactions, with a connection nobody opens again; a transaction
  that failed must be retried, and none may stay half inserted.

## Modules

| Module | What it is |
|---|---|
| `BlockTree` | Blocks, heights, parents, chains; used by all others |
| `BlockTreeProofs` | Lemmas about chains and sequences that all proofs share |
| `BlockStream` | Abstract: what a block source promises its caller |
| `Prefetcher` | `prefetcher.rs` in full; implements `BlockStream` |
| `PrefetcherProofs` | Theorems about `Prefetcher` |
| `EventLog` | The rows of table `event`, and what a subscriber makes of them |
| `EventLogProofs` | Lemmas about replaying a log of any length |
| `ChainIndex` | Abstract: what the database promises its readers |
| `IndexerStore` | The store, its pipeline, the database and the resuming main loop, fed by a block source; implements `ChainIndex` |
| `IndexerStoreProofs` | Theorems about `IndexerStore` |
| `Fetcher` | `fetcher.rs` in full; EXTENDS `Prefetcher` |
| `FetcherProofs` | Theorems about `Fetcher`, on those about `Prefetcher` |
| `UtxoCache` | The first thread of the pipeline, step by step; EXTENDS `IndexerStore` |
| `UtxoCacheProofs` | Theorems about `UtxoCache`, on those about `IndexerStore` |
| `Mempool` | The mempool indexer on the same database; EXTENDS `IndexerStore` |
| `MempoolProofs` | Theorems about `Mempool`, on those about `IndexerStore` |
| `Subscriber` | The event source, a subscriber, and sessions that draw ids; implements `ChainIndex` |
| `SubscriberProofs` | Theorems about `Subscriber` |
| `MCPrefetcher`, `MCFetcher`, `MCIndexerStore`, `MCUtxoCache`, `MCMempool`, `MCMempoolReorg`, `MCSubscriber` | Block trees for TLC |

How they fit together: `IndexerStore` takes its blocks by the action of
`BlockStream` (`Source!Deliver`), the very action that every step of
`Prefetcher` is proved to implement, so its results hold for the two together.
`UtxoCache` and `Mempool` keep every action of `IndexerStore` and refine or
accompany it; `Subscriber` and `IndexerStore` both implement `ChainIndex`, the
first with the ids that the second leaves out. What an event is, the events of a
move from one chain to another, and what one gets by following them is
`EventLog`, which all three share.

### Prefetcher

Each variable is the field of the same name. `worker` holds, per thread, its
place in `Worker::run`: before `fetch_add`, at the top of the retry loop, before
each of the two RPCs, before `send`. Each of these is an action of its own, so
every interleaving with the node (`NodeChange`) and the consumer is explored.
RPC errors, a height above the head and an unknown hash all lead back to the
retry loop (`WorkerRetry`). The second RPC may also answer for a block that is
no longer on the active chain, as a bitcoin node does. `pc` is the consumer's
place: with the caller, looking for an out-of-order block, receiving, or inside
`stop_workers` on behalf of one of its three callers. There are two history
variables: `delivered` is the chain a caller builds as `chain_insert` in
`src/tests.rs` does; `replaced` holds the recorded heights at which the node
has had another block, or none, at some moment since `next()` last returned
one. `NodeChange` adds to it, `Accept` starts it afresh, and no guard reads it.

`cur_height` is unsigned in the code; the model subtracts in the integers, and
`TypeOK` says that it stays natural, which is the absence of wrap-around.

### IndexerStore

`pc` is the place of the main thread inside `insert`, `new` or `set_mode`, at
every point where the pipeline or a crash may come in between. `pipeline` holds
the batch of each thread; `written` is a batch between its commit and its
removal from `in_flight`. Three actions move batches on; `WriterFails`,
`WriterDisconnected`, `FmtDies` and `UtxoDies` let the threads die from the last
one up, as a failed transaction makes them do, and `PipelineGone` is the moment
the main thread notices. `Crash` loses all variables but the database. A
database error in the main thread ends the program and is a `Crash` too. `Wipe`
is the run of the program that drops all tables, while the indexer is down.

The database is what queries can tell: per block its row (none, active,
extinct), the `event` rows in order, per transaction the `current_height` of
each of its rows, which schema is in place and `indexer_state`. Each transaction
of the code is one step. Whether an INSERT or an ADD PRIMARY KEY fails on
duplicates is modelled (`InsertConflict`, `SchemaFits`); a statement batch
without BEGIN is one implicit transaction in Postgres. That a batch is flushed
after 100,000 transactions is a free choice after each block in bulk mode.

The block source is `BlockStream` above the height the main loop resumed from
(`floor`): any block that extends what was handed over so far. Only a genesis
block may come a second time at that height, because the prefetcher records
nothing below it; the store must find it indexed already, and does.

### Fetcher

Every step of `Prefetcher` is kept; `call` says where `Fetcher::next` is around
it. What `Prefetcher::next` returns is looked at only once that call is over
(`ItemArrives`). `GetBlockCount` is a step of its own: the node may have changed
chain since the block was fetched. That it is retried for ever is the fairness
of `FetcherStep`. The updater is the one program that uses `Fetcher`, with no
start and no end; the model takes every start and every end.

### UtxoCache

`PassToFmt` of `IndexerStore` is split in three: outputs are added and taken
(`ConsumeUtxos`), the rest is looked up in the database of that later moment
(`FetchMissingUtxos`), and the batch is sent on. The cache begins empty with
each pipeline, also inside `finish_reorg`. Outputs are model values; what each
block creates and spends is a constant, under the assumption that the node
reports valid chains, and that each block is of one of them (`UtxoAssumption`):
the workers ask for a block by the hash that the node gave for a height.

### Mempool

The steps of the loop in `mempool-indexer.rs` and of `MempoolStore::insert`, one
for each RPC and each SQL statement. Tables `output` and `input` are added to
the database of `IndexerStore`, with the same commit. `done` is the set of the
code; `skipped` is a history variable: those that got into `done` without being
inserted, because the fetch or the lookup failed. The model assumes that the
operator starts the program after the initial sync, as `README.md:159` says, so
not during the self test of an empty database, which tries normal mode for a
moment; that transactions come to the node's mempool after those they spend
from; that each block is on some chain the node reports (`MempoolAssumption`, as
for `UtxoCache`); and that a transaction is asked for while the node still knows it, or the
fetch fails.

### Subscriber

The id of an event is drawn at its INSERT and becomes visible at the commit;
`Rollback` leaves a gap. There is one session for the pipeline's last thread and
one for `finish_reorg`. `NobodyWrites` is what `stop_workers` and
`start_workers` bring about: they take turns. `Poll` is the SQL query with its
cursor, order and limit, and the subscriber of the comment in `init.sql` ("you
can follow them one by one"). After a wipe the ids begin again, so a cursor from
before it means nothing: `stale` (a history variable) holds until the subscriber
starts over, and nothing is claimed for it in between.

## What TLC checks

| Run | Shows | Bounds |
|---|---|---|
| `prefetcher` | `HeightsAccountedFor`: between restarts every height from `cur_height` to the shared counter is in exactly one place. `HashesMatchDelivered`: the recorded hashes are the caller's. `PanicOnlyOnDeepReorg`: the panic needs a reorg that replaced every recorded block since `next()` last returned one, under a window that is full or reaches down to `last_block`. `WorkersMatchThreadNum`: no thread of an older generation survives. `StreamSpec`: `Prefetcher` implements `BlockStream`. `Converges`: the caller ends up with the node's chain, or panics. `StopTerminates` | 2 workers, 1 slot each, window 2, 5 chains with reorgs one and two deep, after and during each other, and one back to a branch that the node had left |
| `store_safety` | `StartupAssertion`, `AcceptedIsChain`, `PendingReorgLinked`, `AcceptsStream`, `AssertionsHold`, `EventsReplay`; `SchemaIsRecorded`: whatever a crash cuts in two, the keys are those of the recorded mode; `IndexSpec`: `IndexerStore` implements `ChainIndex` | 7 blocks in two branches, 2 crashes or lost connections, 1 transaction in both branches |
| `store_live` | `EventuallyCommitted`, `OperationsEnd` | as above, 1 fault |
| `fetcher` | `NoBlockAboveEnd`, `EndsWithNodesChain`: a fetcher that ends has handed over what it should, and no more. `EndIsReached`, `WaitsOnlyAtHead`: it does end, or waits at the head | 2 workers, window 3, no end or end 2, a chain that grows or is replaced by a longer one |
| `utxo_cache` | `EveryInputFound`: the assertion in `fetch_missing_utxos` cannot fail. `CacheIsUnspent`, `UnspentIsReachable` | the tree of `store_safety`, 3 outputs: one spent in both branches, one created in both, one spent in its own block; 1 fault |
| `mempool` | `RowsComplete`, `HeightCoherentUntilReorg`, `KeysThereForMempool`; `EventuallyIndexed` | 2 transactions, one spending from the other, in a block that comes or not; 1 crash or lost connection of either process |
| `mempool_reorg` | `RowsComplete` and `OnlyStalePipelineFails` where a reorg takes a transaction out of its block and a later block has it again | 1 transaction, 5 blocks in two branches, 1 fault |
| `subscriber` | `IdsAreTheLog`: in order of id the events are the log of `ChainIndex`. `FollowsLog`, `UpToDateHasIndex`; `CatchesUp` | 6 blocks in two branches, pages of 2, 10 ids (two reorgs), 2 faults |
| `store_normal_at_head`, `store_keys`, `store_current_height`, `store_self_test_crash` | The code departs from its documentation, see below | as `store_live` |

Why the bounds are enough: two workers give every order of arrival of two
neighbouring heights, and one that is ahead while the other retries; one slot
each fills the channel, so that `send` blocks while `stop_workers` drains. With
window 2 the tree has reorgs inside the window and one as deep as the window,
and a reorg that comes while the prefetcher steps back for another. The deep one
goes back to `a1`, which the node may have left before: so a chain of the tree
that differs from the recorded blocks is not yet one the node has been on, and
the panic can come when the node has them back. In
the store's tree each branch can overtake the other and be overtaken, so a
reorg finds blocks that are new, extinct and still indexed, at depth one and
two; four places for three or four blocks let every thread be busy at once; two
faults give a crash during the recovery from a crash, or a crash after a lost
connection. `RedoDepth` 1 lets a restart resume both above and at the genesis
block. In `fetcher` the end lies below the head, at it, or above it, and reorgs
pass it. In `utxo_cache` an output is looked up while the batch that creates it
is in any of the other threads. The tree of `mempool` has no reorg, for size, and
that of `mempool_reorg` has one, with a single transaction: in between the two
blocks it may be in the mempool, and have rows of both processes. What a reorg
does to a transaction's height is the run `store_current_height`. One fault is a crash of either process, or the lost connection, between any two
statements. In `subscriber` 10 ids are the shortest log with a reorg each way,
and pages of 2 cut transactions at both parities.

Fairness. `Prefetcher!FairSpec`: each thread runs (weak), the caller keeps
calling `next`, and an RPC retried for ever is answered in the end (strong):
`WorkerRetry` competes with the answer, and the code has no retry limit. Nothing
makes the node change. `IndexerStore!FairSpec`: each thread runs and the
database answers. Nothing makes a block arrive, the process crash, or somebody
start it again. `Fetcher!FSpec` is that of the prefetcher,
and a caller that calls `next` until it is `None`. `Mempool!MSpec`: the mempool
indexer's loop goes on; nothing makes the node take a transaction, or the
operator start the program. `Subscriber!ESpec`: the subscriber polls; nothing
makes the indexer write. No run uses symmetry.

Deadlock is checked in every run. A dropped prefetcher steps to itself
(`Terminated`); in the store the highest chain can always be handed over again.

Each property has a mutant of a modelled definition that breaks it: the
operators whose comments begin with "Mutant".

## Where code and documentation differ

Four runs end in a counterexample.

1. `NormalAtHead`. "All indices are created only after reach the chain-head"
   (`README.md:119`), but the switch hangs on a block of exactly the height the
   head had at start arriving on top of the index (`pg.rs:1461`). A block that
   arrives through `finish_reorg`, or was indexed before a crash that came ahead
   of the switch, does not cause it: the store stays in bulk mode until it is
   restarted, and possibly longer.
2. `KeysCanBeBuilt`. A reorg in fresh mode inserts a second row for a
   transaction that is in both branches (`pg.rs:1585`); building the primary key
   fails then, at the switch to normal mode and at every later start.
   `mode_normal.sql:1-2` expects the keys to be there after the first reorg.
3. `CurrentHeightCoherent`. `tx.current_height` decides what is in the mempool
   (`mode_normal.sql:202-203`). `finish_reorg` clears it at the heights of
   revived blocks (`pg.rs:1558`), not for blocks that go extinct.
4. `InitialSyncIsBulk`. `self_test` passes through normal mode and records it; a
   crash before its next step makes the initial sync run with all indices,
   against `README.md:115`.

Also seen while modelling: `flush_workers` leaves a pipeline that formats for
the old mode when nothing is in flight at that moment (`pg.rs:1300`), so that a
later batch can fail on a key and end the program (`WriterFails` then
`PipelineGone`, reached in `store_safety`; the database stays consistent); and
`in_progress` is one set per worker (`prefetcher.rs:169`), so the delay after an
RPC error is always zero.

* A fetcher without an end asks for the block count only above the cached one
  (`fetcher.rs:65`). On a chain that does not grow it ends only at the first
  block it asks for, so from genesis at height 1 or not at all: with a chain of
  two or more blocks above genesis, or none, it waits for a block beyond the
  head (`WaitsOnlyAtHead` says that this is the only way not to end). The
  updater then never gets to its last statements until another block comes.
* A crash of the mempool indexer between its three statements leaves a row in
  `tx` without outputs or inputs (`RowsComplete` allows it after a fault, for
  transactions in no block), until the transaction is scanned again or a block
  has it; `pg.rs:18` says of crashes that they leave "a consistent state".
* A transaction that `rpc.get_by_id` did not return (`mempool-indexer.rs:42`),
  or whose lookup failed on the database connection (`pg.rs:1834`), counts as
  done. Once the connection is lost this goes for every transaction, silently,
  also for one whose row in `tx` was inserted and whose outputs were not
  (`skipped` in `EventuallyIndexed` and `RowsComplete`).
* In a stale bulk pipeline (above) a transaction that the mempool indexer
  inserted makes the batch fail. In a pipeline of the current mode its rows
  never do. But rows of a block that a reorg took out do, in bulk mode: after a
  restart in the middle of the initial sync, `mode_bulk.sql` has put a key on
  the outputs, the plain INSERT of a later block with the same transaction meets
  it, and so does every retry after a restart. `OnlyStalePipelineFails` says
  that these two are the only cases.
* `read_indexer_state` reads a row and then inserts one if there was none
  (`pg.rs:1262`), in two transactions: two programs started at once on an empty
  database leave two rows. The model starts the mempool indexer later.
* `wipe.sql` drops the sequence of `event.id` with the table. A subscriber that
  keeps its cursor over a wipe misses events, or gets none for a while.

## What is proved

Every theorem holds for all values of the constants that meet the assumptions:
`BlockTreeAssumption` everywhere, and that of the module it is about. There is
no bound on blocks, workers, window, outputs or faults (`MaxFaults` is any
number). Nothing is assumed about the node but these.

Inductions over numbers are written as arguments about the least counterexample
(`LeastElement` in `BlockTreeProofs`). `SameBelow` there is what makes reorgs
tractable: two chains that have a block in common agree below it.

### Prefetcher (`PrefetcherProofs`)

* `TypeCorrect`: `Spec => []TypeOK`.
* `HashesMatch`: `Spec => []HashesMatchDelivered`.
* `WorkersMatch`: `Spec => []WorkersMatchThreadNum`.
* `ImplementsStream`: `Spec => StreamSpec`.
* `HeightsAccounted`: `Spec => []HeightsAccountedFor`.
* `PanicIsJustified`: `Spec => []PanicOnlyOnDeepReorg`, if `WindowSize > 1`.

`TypeOK` is not inductive: that `reset_on_reorg` does not go below 0 needs that
a mismatch is only seen above height 0, and that a stopping prefetcher has not
moved; that `prev_hashes[cur_height - 1]` may be read needs that the recorded
heights have no gap. `HashesMatchDelivered` in turn needs that what was delivered
is a chain and that each block carries the height it was asked for. The
inductive invariant `Inv` conjoins these: types, the heights of items in the
channel, the buffer and the workers, the shape of `prev_hashes`, and the link
between it and `delivered`. The proof that a step preserves `Inv` has one step
per action; the three outcomes of `track_reorgs` and the worker's `Become` are
lemmas of their own. `ImplementsStream` follows: only `Accept` changes
`delivered`, and `Inv` says that the block it appends points to the one below
and lies above `floor`, which `FloorKept` shows to be constant.

`WorkersMatch` needs only types and itself: a worker that has returned takes no
step, none returns while the flag is down, and every way out of `next` into
`stop_workers` raises the flag.

`HeightsAccounted` says where each height is. `HeldInv` gives the parts the
property leaves out, so that one thread's step can be shown to disturb no other
height: a height is fetched by one worker, sent once and kept once, and these
places are disjoint. It needs that outside of a restart the flag is
down (`WorkersRun`), and that the shared counter is never below `cur_height`.

`PanicIsJustified` relates a reply to the node's past, `replaced`. `SeenInv`: a
reply on its way was at its height on the node's chain, or on a shorter one.
That alone does not show when. `FreshInv` does: a reply for the height above the
lowest recorded one points to the block recorded there, or that block has been
replaced since `next()` last returned one. A block that is returned may slide
the window, but what is then on its way lies above that block (`FlightAbove`),
so it is not for a height next to the lowest one if the window has room for two.
With a window of one it could be, and the theorem would not hold; the code has
1000 (`prefetcher.rs:237`). `ReorgInv` follows the mismatch to the panic: below
the lowest recorded height, the block there has been replaced. `DescentInv` and
`AllReplaced` go on to the other recorded heights: the recorded blocks lie on
top of each other, and a chain no shorter without the lowest has none of them.
`RecordedRange` in `Inv` says that the lowest height is the end of a full
window, genesis, or `floor`. That the node may be back on the recorded blocks
when the panic comes is so in the code too: one reply from in between is enough.

### Fetcher (`FetcherProofs`)

* `ImplementsPrefetcher`: `FSpec => Spec`, so the theorems above hold for it.
* `StopsAtEnd`: `FSpec => []NoBlockAboveEnd`.
* `EndsOnNodesChain`: `FSpec => EndsWithNodesChain`.

`FInv` says where the call is when the prefetcher is idle, that what was handed
over is not above the end, and that the block on top is the one the last call
returned. `EndsOnNodesChain` then takes the block on top, which the node had
(`SeenInv`), and a count that is not above it: a node that only goes to longer
chains is still on the chain of that block, and by `SameBelow` so is all that
was handed over.

### IndexerStore (`IndexerStoreProofs`)

* `TypeCorrect`: `Spec => []TypeOK`.
* `AcceptsOneChain`: `Spec => []AcceptedIsChain`.
* `ReorgsAreLinked`: `Spec => []PendingReorgLinked`.
* `StartsAgain`: `Spec => []StartupAssertion`.
* `AcceptsTheStream`: `Spec => []AcceptsStream`.
* `NoAssertionFails`: `Spec => []AssertionsHold`.
* `SchemaFollowsMode`: `Spec => []SchemaIsRecorded`.
* `ImplementsIndex`: `Spec => IndexSpec`, the refinement of `ChainIndex`.
* `LogReplays`: `Spec => []EventsReplay`.

The properties speak of moments at which the main thread is idle, compares, or
finishes a reorg. The inductive invariant `Inv` says what holds in between:

* `RowsInv`: the active rows are a chain, no row lies above its top, and the
  parent of a row has a row. The last part is why the blocks that a reorg
  revives lie below those it inserts (`ArrivingInOrder`), so that one batch can
  hold the latter, and why at least the top block is new.
* `PipelineInv`: `in_flight` is exactly what the threads hold, until one dies.
  That a drained pipeline leaves nothing in flight follows, and that a queued
  block has no row yet (`QueuedIsNew`), which the commit depends on.
* `StreamInv` and `CompareInv`: where the caller's chain and the accepted one
  part, at each place of the main thread.
* `ReorgInv`, `ClosedInv`: nothing is pending, queued or running where the code
  does not expect it.

`SchemaFollowsMode` adds `ModeSwitchInv`: how far a switch of mode is at each
place of the main thread. While the store is open, normal mode is recorded only over a
normal schema; before that there are no rows, or the recorded mode is the one
whose schema is put in place next.

`ByHeightOfChain` justifies the operator that turns a set of rows into a
sequence; `IndexBecomes` computes the index after a commit. For `ImplementsIndex`
the writer's and the reorg's transactions are shown to be `Advance`
(`CommitAdvances`, `ReorgAdvances`), and all other steps but the wipe to leave
`block` and `event` alone.

`LogReplays` follows from `ImplementsIndex`: `EventsReplay` holds of any log that
grows as `ChainIndex` allows. `Follow` is a recursion over the log;
`EventLogProofs` shows that it exists for logs of any length (`StepsExist`), that
it may stop and go on (`FollowConcat`), and that the events of a move lead from
the one chain to the other (`FollowMove`). The inductions are over the first
event at which two computations would differ.

### UtxoCache (`UtxoCacheProofs`)

* `KeepsStore`: `USpec => Spec`, so the theorems above hold for it.
* `InputsAreFound`: `USpec => []EveryInputFound`.
* `CachesUnspentOnly`: `USpec => []CacheIsUnspent`.
* `ReachesUnspent`: `USpec => []UnspentIsReachable`.

None of the three is inductive, nor is their conjunction: after the writer has
died, the other threads go on for a while with a cache that is right about
blocks nobody will ever commit. `CacheInv` says: there is a chain of all blocks
accepted since the threads started, on top of the index, cut into the parts
that are indexed, with the writer (or lost with it), with the formatter, with
the first thread, and in the batch; up to the place the first thread has
processed, the cache lies within what is unspent on that chain, and what is
unspent is cached or in the database. Each step of a thread moves a cut
(`LineMoves`); `OneCreatorOneSpender` says that validity of the node's chains
carries over to this one, block by block, through `SameBelow`.

### Mempool (`MempoolProofs`)

* `KeysThere`: `MSpec => []KeysThereForMempool`.
* `RowsAreComplete`: `MSpec => []RowsComplete`.
* `ConflictsAreStale`: `MSpec => []OnlyStalePipelineFails`.
* `HeightsAreCoherent`: `MSpec => []HeightCoherentUntilReorg`.

`KeysThere` is about the schema, but the mempool indexer reads
`indexer_state`, and the two change in different transactions. `ModeInv` relates
them: `StartingUp` says that the self test runs on an empty database, with
nothing in the pipeline, and ends in fresh mode with that recorded;
`SwitchingMode` that normal mode is recorded only after the schema is there;
`RecordedMode` that, where it is recorded, a process that has read it is in it,
and the schema is in place once a block is indexed or the store is open.
`StillNormal` says that what the mempool indexer read stays true while it runs:
no step but a wipe takes the record back, and the self test, which would, finds
no rows. One lemma per group of steps of the indexer shows that `ModeInv` is
kept, and `FrameModeInv` that the mempool indexer's own steps keep it.

The other three need what is proved of the store. `Mempool` does not refine
`IndexerStore`, since its steps change `tx` and `faults`; but `Inv` says of these
only what their types are, and `OutsideInv` that any step which changes nothing
else keeps it (`MStoreInv`). `Commits` names what the two kinds of commit have in
common, with all tables in it.

* `RowsComplete` exempts only the active blocks' transactions, and a reorg
  revives blocks: `CompleteInv` has it for all blocks that have rows. A row of
  `tx` without outputs exists after a fault, or while the mempool indexer is
  between its statements for this very transaction (`InsertInv`).
* `OnlyStalePipelineFails`: a row of a transaction that is in no block with rows
  was made by the mempool indexer, so normal mode is recorded (`UnconfirmedInv`);
  and a store that is open in another mode has the schema of that mode, while a
  pipeline made for normal mode got nothing before the keys were there
  (`SwitchInv`). What is left in the way of a batch are rows of blocks, and of
  active ones it cannot be: with the batch they are on a chain of the node, which
  has each transaction once (`StoreAssumption`).
* `HeightCoherentUntilReorg` is about normal schema. In others a transaction has
  several rows or none: `HeightsInv` says of each row that its height is that of
  the one active block with the transaction (`TxInOneBlock`), or none if there is
  no such block, so that it holds when the keys come.

### Subscriber (`SubscriberProofs`)

* `SubscriberFollows`: `ESpec => []FollowsLog`.
* `SubscriberUpToDate`: `ESpec => []UpToDateHasIndex`.
* `SubscriberRefines`: `ESpec => IdsAreTheLog`, the refinement of `ChainIndex`.

`FollowsLog` is not inductive: a commit could make an id visible below the
cursor. The invariant `EInv` says that it cannot: there is at most one open
transaction, the ids it has drawn are all those after some id, and no visible
id lies above that one (`Writes`); its rows with what is left to insert are the
events of its move. So a commit appends to the log (`CommitAppends`), by
`MoveReplays` the log keeps leading to the index, and what lies below the cursor
does not change. A poll takes the events between two cursors, whatever the page
size (`PageIs`), and `FollowConcat` puts them after what was read before.
`UpToDateHasIndex` combines the two.

The order of ids is `InOrder`, which gives the i-th number of a set by its rank.
The first part of the module shows that it is the only sorted sequence of these
numbers (`InOrderOfSorted`), that there is one for every finite set
(`SortedExists`), and what it makes of a union and of a page (`InOrderUnion`,
`InOrderPrefix`).

### Only model-checked

The liveness properties (`Converges`, `StopTerminates`, `EventuallyCommitted`,
`OperationsEnd`, `EndIsReached`, `WaitsOnlyAtHead`, `EventuallyIndexed`,
`CatchesUp`), which need ENABLED, and the absence of deadlock. All other
properties of the passing runs are proved as well as checked.

## Not modelled

Types, options, statistics and address conversion have no state of interest.
SQL text is modelled by its effect. The views and balances are read-only. The
updater's own UPDATEs go to a table `blocks` that the schema no longer has.
`db/mem.rs` is commented out and `db/schema.rs` behind a feature that is off.
Retry delays and the connection pool of the RPC client are timing. A wipe while
the indexer or the mempool indexer runs, a transaction that the server commits
only after the process that sent it is gone and the next one has read the
state, and a lost connection of the first pipeline thread are not modelled.

## Plan

1. The state invariants that the liveness properties rest on, such as that a
   blocked thread of the pipeline or of the prefetcher waits for one that is not
   blocked.
2. `Subscriber` on the events of `IndexerStore` itself: that its sessions are the
   writer's and `finish_reorg`'s transactions, which is now argued in prose.
