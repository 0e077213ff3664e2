---------------------------- MODULE IndexerStore -----------------------------
(***************************************************************************)
(* The indexer's store (src/db/pg.rs, struct IndexerStore) with the loop   *)
(* that feeds it (src/main.rs) and the database behind it.                 *)
(*                                                                         *)
(* The main thread takes blocks from a block source, one at a time.  A     *)
(* block on top of the index joins a batch, and batches go through a       *)
(* pipeline of three threads whose last one commits each batch in one      *)
(* transaction.  A block below the top either is already there or starts   *)
(* a reorg: the blocks of the new branch are held in memory until they     *)
(* outgrow the index, and then replace the old branch in one transaction.  *)
(* The process may crash between any two steps; only the database stays.   *)
(*                                                                         *)
(* Abstracted: how many transactions a block has, so that in bulk mode a   *)
(* batch may be flushed after any block (pg.rs, batch_txs_total > 100_000);*)
(* UTXO details, inputs and outputs; one block's coinbase.  A tx row is    *)
(* its current_height.  SQL batches without BEGIN are one transaction.     *)
(***************************************************************************)
EXTENDS EventLog, FiniteSets, FiniteSetsExt, SequencesExt

CONSTANTS
    Tx,         \* transactions
    Txs,        \* the transactions of each block
    RedoDepth,  \* blocks fetched again after a restart (100)
    MaxFaults   \* bound on crashes and lost connections, for model checking

ASSUME StoreAssumption ==
    /\ Txs \in [Block -> SUBSET Tx]
    /\ \A c \in Chains : \A i, j \in DOMAIN c :
            i # j => Txs[c[i]] \cap Txs[c[j]] = {}
    /\ RedoDepth \in Nat
    /\ MaxFaults \in Nat

VARIABLES
    \* the database
    block,          \* rows of table block: "none", "active" or "extinct"
    event,          \* rows of table event, in order of id
    tx,             \* rows of table tx: the current_height of each row
    schema,         \* which keys and indices exist: a Mode
    indexer_state,  \* rows of table indexer_state: the set of bulk_mode values
    \* fields of struct IndexerStore
    mode,
    node_chain_head_height,
    chain_block_count,
    batch,          \* blocks not yet handed to the pipeline
    pending_reorg,  \* BTreeMap by height: a set of blocks of distinct heights
    in_flight,      \* hashes handed to the pipeline and not yet written
    pipeline,       \* the batch each thread of the pipeline holds
    \* control
    pc,             \* where the main thread is
    block_arg,      \* the block being inserted
    test_step,      \* progress of self_test
    \* the block source
    stream,         \* the chain the source has handed over
    floor,          \* the height the source started from: it goes no lower
    faults

db     == <<block, event, tx, schema, indexer_state>>
memory == <<mode, node_chain_head_height, chain_block_count, batch,
            pending_reorg, in_flight, pipeline>>
feed   == <<stream, floor>>
vars   == <<block, event, tx, schema, indexer_state, mode,
            node_chain_head_height, chain_block_count, batch, pending_reorg,
            in_flight, pipeline, pc, block_arg, test_step, stream, floor, faults>>

Mode == {"fresh", "bulk", "normal"}
IsBulk(m) == m # "normal"

NoHeight == -1          \* current_height IS NULL

PC == {"down", "self_test", "set_schema", "idle", "flush", "flush_below",
       "compare", "finish_reorg", "set_mode", "check_in_flight",
       "restart_workers", "enter_normal", "save_mode"}

(* AsyncBlockInsertWorker: three threads joined by rendezvous channels.    *)
(* `written` is the batch committed but not yet removed from in_flight;    *)
(* `dead`: how many threads have died, from the last one to the first.     *)
NewPipeline(m) == [mode |-> m, utxo |-> <<>>, fmt |-> <<>>, writer |-> <<>>,
                   written |-> <<>>, dead |-> 0]
NoPipeline == NewPipeline("none")

(* Mutants: the first thread is joined alone; the sender is not dropped    *)
(* before the join, so that the threads never end.                         *)
FirstDrained == pipeline.utxo = <<>>
NeverDrained == FALSE

(* AsyncBlockInsertWorker::drop joins the three threads, which end when    *)
(* all they were sent is processed.                                        *)
Drained == /\ pipeline.utxo = <<>> /\ pipeline.fmt = <<>>
           /\ pipeline.writer = <<>> /\ pipeline.written = <<>>
           /\ pipeline.dead = 0

DbTypeOK ==
    /\ block \in [Block -> {"none", "active", "extinct"}]
    /\ event \in Seq([id : Block, revert : BOOLEAN])
    /\ tx \in [Tx -> Seq(Nat \cup {NoHeight})]
    /\ schema \in Mode
    /\ indexer_state \in {{}, {TRUE}, {FALSE}}

MemoryTypeOK ==
    /\ mode \in Mode
    /\ node_chain_head_height \in Nat
    /\ chain_block_count \in Nat
    /\ batch \in Seq(Block)
    /\ pending_reorg \in SUBSET Block
    /\ in_flight \in SUBSET Block

PipelineTypeOK ==
    pipeline \in [mode : Mode \cup {"none"}, utxo : Seq(Block), fmt : Seq(Block),
                  writer : Seq(Block), written : Seq(Block), dead : 0..3]

ControlTypeOK ==
    /\ pc \in PC
    /\ block_arg \in Block \cup {NoBlock}
    /\ test_step \in 0..10
    /\ faults \in 0..MaxFaults

FeedTypeOK ==
    /\ IsChain(stream)
    /\ floor \in Nat \cup {-1} /\ floor < Len(stream)

TypeOK == DbTypeOK /\ MemoryTypeOK /\ PipelineTypeOK /\ ControlTypeOK /\ FeedTypeOK
-----------------------------------------------------------------------------
(* The database as queries see it.                                         *)
Rows == {b \in Block : block[b] # "none"}
Active == {b \in Block : block[b] = "active"}

(* SELECT max(height) + 1, over all blocks and over the ones not extinct.  *)
CountOf(S) == IF S = {} THEN 0 ELSE Max({Height[b] : b \in S}) + 1

(* read_db_block_hash_by_height; the index on (height) WHERE NOT extinct   *)
(* is unique.                                                              *)
DbHashes(h) == {b \in Active : Height[b] = h}

(* The blocks of S in the order of their heights: the i-th has fewer than  *)
(* i blocks below it, and i or more that are not above it.                 *)
ByHeight(S) ==
    [i \in 1..Cardinality(S) |->
        CHOOSE b \in S : /\ Cardinality({a \in S : Height[a] < Height[b]}) < i
                         /\ i <= Cardinality({a \in S : Height[a] <= Height[b]})]

ActiveChain == ByHeight(Active)

BlocksOf(s) == {s[i] : i \in DOMAIN s}
TxsOf(s) == UNION {Txs[b] : b \in BlocksOf(s)}

(* A batch formatted for mode m cannot be inserted: a plain INSERT meets a *)
(* key (always on block, on tx in normal schema, on its outputs in bulk    *)
(* schema), or an upsert finds no key to conflict on.                      *)
InsertConflict(s, m) ==
    \/ IsBulk(m) /\ \E b \in BlocksOf(s) : block[b] # "none"
    \/ IsBulk(m) /\ schema # "fresh" /\ \E t \in TxsOf(s) : tx[t] # <<>>
    \/ ~IsBulk(m) /\ schema # "normal"

(* The tx rows after a batch: in normal mode a row that exists gets its    *)
(* current_height updated, otherwise rows are added.                       *)
TxAfterInsert(rows, s, m) ==
    [t \in Tx |->
        IF t \notin TxsOf(s) THEN rows[t]
        ELSE LET h == Height[CHOOSE b \in BlocksOf(s) : t \in Txs[b]]
             IN IF ~IsBulk(m) /\ rows[t] # <<>> THEN <<h>> ELSE Append(rows[t], h)]

AddedAll(s) == [i \in DOMAIN s |-> Added(s[i])]
RevertedAll(s) == [i \in DOMAIN s |-> Reverted(s[i])]

(* ALTER TABLE ... ADD PRIMARY KEY fails on duplicate rows; bulk schema    *)
(* needs the key on outputs, normal schema all of them.                    *)
SchemaFits(m) == m # "fresh" => \A t \in Tx : Len(tx[t]) <= 1
-----------------------------------------------------------------------------
Init ==
    /\ block = [b \in Block |-> "none"]
    /\ event = <<>>
    /\ tx = [t \in Tx |-> <<>>]
    /\ schema = "fresh"
    /\ indexer_state = {}
    /\ mode = "fresh"
    /\ node_chain_head_height = 0
    /\ chain_block_count = 0
    /\ batch = <<>>
    /\ pending_reorg = {}
    /\ in_flight = {}
    /\ pipeline = NoPipeline
    /\ pc = "down"
    /\ block_arg = NoBlock
    /\ test_step = 0
    /\ stream = <<>>
    /\ floor = -1
    /\ faults = 0

(* The process is gone and its memory with it.                             *)
Forget ==
    /\ pc' = "down"
    /\ mode' = "fresh"
    /\ node_chain_head_height' = 0
    /\ chain_block_count' = 0
    /\ batch' = <<>>
    /\ pending_reorg' = {}
    /\ in_flight' = {}
    /\ pipeline' = NoPipeline
    /\ block_arg' = NoBlock
    /\ test_step' = 0
    /\ stream' = <<>>
    /\ floor' = -1

(* A crash, or a kill: anywhere, the open transaction is rolled back.      *)
Crash ==
    /\ pc # "down"
    /\ faults < MaxFaults
    /\ faults' = faults + 1
    /\ Forget
    /\ UNCHANGED db

(* IndexerStore::wipe (wipe.sql, main.rs --wipe-whole-db): a run of the    *)
(* program that drops all tables; the next start creates them again.       *)
Wipe ==
    /\ pc = "down"
    /\ block' = [b \in Block |-> "none"]
    /\ event' = <<>>
    /\ tx' = [t \in Tx |-> <<>>]
    /\ schema' = "fresh"
    /\ indexer_state' = {}
    /\ UNCHANGED <<memory, pc, block_arg, test_step, feed, faults>>

(* An error or a failed worker ends the program.                           *)
ExitWithError == Forget /\ UNCHANGED <<db, faults>>
-----------------------------------------------------------------------------
(* Indexer::new and IndexerStore::new: read the node's height, then the    *)
(* state of the database.  The node is never behind the index (main.rs     *)
(* asserts so).                                                            *)
StoredMode ==
    IF indexer_state = {FALSE} THEN "normal"
    ELSE IF Rows = {} THEN "fresh" ELSE "bulk"

Start ==
    /\ pc = "down"
    /\ \E c \in Chains :
        /\ Len(c) >= CountOf(Rows)
        /\ node_chain_head_height' = TipHeight(c)
    /\ indexer_state' = IF indexer_state = {} THEN {TRUE} ELSE indexer_state
    /\ mode' = StoredMode
    /\ chain_block_count' = CountOf(Rows)
    /\ pc' = IF StoredMode = "fresh" THEN "self_test" ELSE "set_schema"
    /\ UNCHANGED <<block, event, tx, schema, batch, pending_reorg, in_flight,
                   pipeline, block_arg, test_step, feed, faults>>

(* self_test: set_mode_uncodintionally with each of these modes, before    *)
(* any worker runs: first the schema, then indexer_state.                  *)
SelfTestModes == <<"fresh", "bulk", "normal", "bulk", "fresh">>

SelfTestSchema ==
    /\ pc = "self_test"
    /\ test_step < 10 /\ test_step % 2 = 0
    /\ mode' = SelfTestModes[test_step \div 2 + 1]
    /\ schema' = mode'
    /\ test_step' = test_step + 1
    /\ UNCHANGED <<block, event, tx, indexer_state, node_chain_head_height,
                   chain_block_count, batch, pending_reorg, in_flight, pipeline,
                   pc, block_arg, feed, faults>>

SelfTestState ==
    /\ pc = "self_test"
    /\ test_step % 2 = 1
    /\ indexer_state' = {IsBulk(mode)}
    /\ test_step' = test_step + 1
    /\ UNCHANGED <<block, event, tx, schema, memory, pc, block_arg, feed, faults>>

SelfTestDone ==
    /\ pc = "self_test"
    /\ test_step = 10
    /\ pc' = "set_schema"
    /\ UNCHANGED <<db, memory, block_arg, test_step, feed, faults>>

(* Mutant: the height to resume from is not saturated.                     *)
StartFloorUnsaturated == chain_block_count - 1 - RedoDepth

(* The height the block source starts above (main.rs, "redo 100 last       *)
(* blocks").                                                               *)
StartFloor ==
    IF chain_block_count = 0 THEN -1
    ELSE IF chain_block_count - 1 > RedoDepth THEN chain_block_count - 1 - RedoDepth
    ELSE 0

(* The rest of IndexerStore::new, and the start of Indexer::run.           *)
OpenStore ==
    /\ pc = "set_schema"
    /\ SchemaFits(mode)
    /\ schema' = mode
    /\ pipeline' = NewPipeline(mode)
    /\ floor' = StartFloor
    /\ stream' = SubSeq(ActiveChain, 1, StartFloor + 1)
    /\ pc' = "idle"
    /\ test_step' = 0
    /\ UNCHANGED <<block, event, tx, indexer_state, mode, node_chain_head_height,
                   chain_block_count, batch, pending_reorg, in_flight, block_arg,
                   faults>>

OpenFails ==
    /\ pc = "set_schema"
    /\ ~SchemaFits(mode)
    /\ ExitWithError
-----------------------------------------------------------------------------
(* The prefetcher, by what it promises (theorem ImplementsStream).         *)
Source == INSTANCE BlockStream

(* The block source hands over block b, and insert(b) begins.              *)
Receive(b) ==
    /\ pc = "idle"
    /\ Source!Deliver(b)
    /\ UNCHANGED <<db, mode, node_chain_head_height, in_flight, pipeline,
                   test_step, faults>>

(* The end of insert_when_at_tip, for a block at height h.                 *)
AfterTip(h) ==
    IF node_chain_head_height = h /\ mode # "normal" THEN "set_mode" ELSE "idle"

(* Mutant: a batch waits for more blocks in normal mode too.               *)
FlushOnlyWhenFull(m) == BOOLEAN

(* Is the batch flushed after a block?  In bulk mode, when it holds enough *)
(* transactions.                                                           *)
FlushAfterBlock(m) == IF IsBulk(m) THEN BOOLEAN ELSE {TRUE}

(* insert_when_at_tip, the block extends the index.                        *)
InsertAtTip(b) ==
    /\ Receive(b)
    /\ pending_reorg = {}
    /\ Height[b] = chain_block_count
    /\ batch' = Append(batch, b)
    /\ chain_block_count' = chain_block_count + 1
    /\ \E flush \in FlushAfterBlock(mode) :
        /\ pc' = IF flush THEN "flush" ELSE AfterTip(Height[b])
        /\ block_arg' = IF flush THEN b ELSE NoBlock
    /\ UNCHANGED pending_reorg

(* insert_when_at_tip, otherwise: flush and stop the workers first.        *)
InsertBelowTip(b) ==
    /\ Receive(b)
    /\ pending_reorg = {}
    /\ Height[b] # chain_block_count
    /\ pc' = "flush_below"
    /\ block_arg' = b
    /\ UNCHANGED <<batch, chain_block_count, pending_reorg>>

(* Mutant: the blocks above h stay.                                        *)
AllOf(S, h) == {p \in S : Height[p] # h}

(* BTreeMap::split_off: the blocks of S below height h.                    *)
Below(S, h) == {p \in S : Height[p] < h}

(* Mutant: the second block of a branch completes the reorg.               *)
AnyBlock(b) == TRUE

(* The pending branch is longer than the index.                            *)
Outgrows(b) == Height[b] = chain_block_count

(* insert_when_in_reorg: the new block replaces those at and above it.     *)
InsertInReorg(b) ==
    /\ Receive(b)
    /\ pending_reorg # {}
    /\ pending_reorg' = Below(pending_reorg, Height[b]) \cup {b}
    /\ pc' = IF Outgrows(b) THEN "finish_reorg" ELSE "idle"
    /\ UNCHANGED <<batch, chain_block_count, block_arg>>
-----------------------------------------------------------------------------
(* Mutant: the hashes are not noted.                                       *)
FlushUnnoted ==
    IF batch = <<>>
    THEN UNCHANGED <<batch, in_flight, pipeline>>
    ELSE /\ pipeline.utxo = <<>>
         /\ pipeline.dead < 3
         /\ pipeline' = [pipeline EXCEPT !.utxo = batch]
         /\ batch' = <<>>
         /\ UNCHANGED in_flight

(* flush_batch: note the hashes as in flight, then hand the batch to the   *)
(* first thread when it is ready for one.                                  *)
FlushBatch ==
    IF batch = <<>>
    THEN UNCHANGED <<batch, in_flight, pipeline>>
    ELSE /\ pipeline.utxo = <<>>
         /\ pipeline.dead < 3
         /\ pipeline' = [pipeline EXCEPT !.utxo = batch]
         /\ in_flight' = in_flight \cup BlocksOf(batch)
         /\ batch' = <<>>

flushFrame == <<db, node_chain_head_height, chain_block_count, pending_reorg,
                test_step, feed, faults>>

FlushAtTip ==
    /\ pc = "flush"
    /\ FlushBatch
    /\ pc' = AfterTip(Height[block_arg])
    /\ block_arg' = NoBlock
    /\ UNCHANGED <<flushFrame, mode>>

FlushBelowTip ==
    /\ pc = "flush_below"
    /\ FlushBatch
    /\ pc' = "compare"
    /\ UNCHANGED <<flushFrame, mode, block_arg>>

(* Mutant: any block at this height will do.                               *)
HeightIndexed(b) == DbHashes(Height[b]) # {}

AlreadyIndexed(b) == DbHashes(Height[b]) = {b}

(* stop_workers waits for the pipeline to drain; then the block is         *)
(* compared with the row at its height.                                    *)
Compare ==
    /\ pc = "compare"
    /\ Drained
    /\ IF AlreadyIndexed(block_arg)
       THEN pipeline' = NewPipeline(mode) /\ UNCHANGED pending_reorg
       ELSE pipeline' = NoPipeline /\ pending_reorg' = {block_arg}
    /\ pc' = "idle"
    /\ block_arg' = NoBlock
    /\ UNCHANGED <<db, mode, node_chain_head_height, chain_block_count, batch,
                   in_flight, test_step, feed, faults>>

(* The main thread meets a dead pipeline: its send fails when the first    *)
(* thread is gone, its join panics when any thread has died.               *)
PipelineGone ==
    /\ \/ /\ pc \in {"flush", "flush_below", "set_mode"}
          /\ batch # <<>>
          /\ pipeline.dead = 3
       \/ /\ pc \in {"compare", "restart_workers"}
          /\ pipeline.dead > 0
    /\ ExitWithError
-----------------------------------------------------------------------------
(* Mutant: the reorg begins at the lowest pending block.                   *)
LowestPendingHeight == Min({Height[p] : p \in pending_reorg})

(* finish_reorg, in one transaction.  The lowest pending block that is not *)
(* the indexed one at its height, or the top.                              *)
Differing ==
    {p \in pending_reorg : DbHashes(Height[p]) \notin {{}, {p}}}
FirstDifferentHeight ==
    Min({Height[p] : p \in Differing} \cup {chain_block_count})

LeavingRows == {b \in Active : Height[b] >= FirstDifferentHeight}
ArrivingBlocks == pending_reorg \ Below(pending_reorg, FirstDifferentHeight)

(* Indexed before: their rows are revived.  The others make a batch.       *)
Revived   == ByHeight(ArrivingBlocks \cap Rows)
Unindexed == ByHeight(ArrivingBlocks \ Rows)

(* Mutant: no event for a revived block.                                   *)
UnrevivedEvents ==
    RevertedAll(Reverse(ByHeight(LeavingRows))) \o AddedAll(Unindexed)

(* The rows of event a reorg adds, from the top down and back up.          *)
ReorgEvents ==
    RevertedAll(Reverse(ByHeight(LeavingRows))) \o AddedAll(Revived) \o AddedAll(Unindexed)

(* UPDATE tx SET current_height = NULL, for each revived block's height.   *)
TxAfterRevival ==
    [t \in Tx |-> [i \in DOMAIN tx[t] |->
        IF tx[t][i] \in {Height[b] : b \in BlocksOf(Revived)} THEN NoHeight ELSE tx[t][i]]]

FinishReorg ==
    /\ pc = "finish_reorg"
    /\ ~InsertConflict(Unindexed, mode)
    /\ event' = event \o ReorgEvents
    /\ block' = [b \in Block |->
                    IF b \in ArrivingBlocks THEN "active"
                    ELSE IF b \in LeavingRows THEN "extinct" ELSE block[b]]
    /\ tx' = TxAfterInsert(TxAfterRevival, Unindexed, mode)
    /\ chain_block_count' = chain_block_count + 1
    /\ pending_reorg' = {}
    /\ pipeline' = NewPipeline(mode)
    /\ pc' = "idle"
    /\ UNCHANGED <<schema, indexer_state, mode, node_chain_head_height, batch,
                   in_flight, block_arg, test_step, feed, faults>>

FinishReorgFails ==
    /\ pc = "finish_reorg"
    /\ InsertConflict(Unindexed, mode)
    /\ ExitWithError
-----------------------------------------------------------------------------
(* set_mode(Mode::Normal): the mode changes first, then flush_workers.     *)
SetMode ==
    /\ pc = "set_mode"
    /\ mode' = "normal"
    /\ FlushBatch
    /\ pc' = "check_in_flight"
    /\ UNCHANGED <<flushFrame, block_arg>>

(* flush_workers restarts the workers only if something is in flight.      *)
CheckInFlight ==
    /\ pc = "check_in_flight"
    /\ pc' = IF in_flight = {} THEN "enter_normal" ELSE "restart_workers"
    /\ UNCHANGED <<db, memory, block_arg, test_step, feed, faults>>

RestartWorkers ==
    /\ pc = "restart_workers"
    /\ Drained
    /\ pipeline' = NewPipeline(mode)
    /\ pc' = "enter_normal"
    /\ UNCHANGED <<db, mode, node_chain_head_height, chain_block_count, batch,
                   pending_reorg, in_flight, block_arg, test_step, feed, faults>>

(* Mutant: the mode is recorded first.                                     *)
RecordBeforeEntering ==
    /\ pc = "enter_normal"
    /\ indexer_state' = {FALSE}
    /\ pc' = "save_mode"
    /\ UNCHANGED <<block, event, tx, schema, memory, block_arg, test_step, feed,
                   faults>>

(* set_schema_to_mode(Normal): build all keys and indices.                 *)
EnterNormal ==
    /\ pc = "enter_normal"
    /\ SchemaFits("normal")
    /\ schema' = "normal"
    /\ pc' = "save_mode"
    /\ UNCHANGED <<block, event, tx, indexer_state, memory, block_arg, test_step,
                   feed, faults>>

EnterNormalFails ==
    /\ pc = "enter_normal"
    /\ ~SchemaFits("normal")
    /\ ExitWithError

SaveMode ==
    /\ pc = "save_mode"
    /\ indexer_state' = {FALSE}
    /\ pc' = "idle"
    /\ UNCHANGED <<block, event, tx, schema, memory, block_arg, test_step, feed,
                   faults>>
-----------------------------------------------------------------------------
(* The pipeline's threads.                                                 *)
pipelineFrame == <<schema, indexer_state, mode, node_chain_head_height,
                   chain_block_count, batch, pending_reorg, pc, block_arg,
                   test_step, feed>>

(* The UTXO thread hands its batch to the formatter when that is ready.    *)
PassToFmt ==
    /\ pipeline.dead < 2
    /\ pipeline.utxo # <<>> /\ pipeline.fmt = <<>>
    /\ pipeline' = [pipeline EXCEPT !.fmt = pipeline.utxo, !.utxo = <<>>]
    /\ UNCHANGED <<pipelineFrame, block, event, tx, in_flight, faults>>

(* The formatter hands its queries to the writer when that is ready.       *)
PassToWriter ==
    /\ pipeline.dead = 0
    /\ pipeline.fmt # <<>> /\ pipeline.writer = <<>> /\ pipeline.written = <<>>
    /\ pipeline' = [pipeline EXCEPT !.writer = pipeline.fmt, !.fmt = <<>>]
    /\ UNCHANGED <<pipelineFrame, block, event, tx, in_flight, faults>>

(* One transaction: events, blocks and tx rows of the whole batch.         *)
WriterCommit ==
    /\ pipeline.writer # <<>>
    /\ ~InsertConflict(pipeline.writer, pipeline.mode)
    /\ event' = event \o AddedAll(pipeline.writer)
    /\ block' = [b \in Block |->
                    IF b \in BlocksOf(pipeline.writer) /\ block[b] = "none"
                    THEN "active" ELSE block[b]]
    /\ tx' = TxAfterInsert(tx, pipeline.writer, pipeline.mode)
    /\ pipeline' = [pipeline EXCEPT !.written = pipeline.writer, !.writer = <<>>]
    /\ UNCHANGED <<pipelineFrame, in_flight, faults>>

(* After the commit, the hashes are no longer in flight.                   *)
WriterDone ==
    /\ pipeline.written # <<>>
    /\ in_flight' = in_flight \ BlocksOf(pipeline.written)
    /\ pipeline' = [pipeline EXCEPT !.written = <<>>]
    /\ UNCHANGED <<pipelineFrame, block, event, tx, faults>>

WriterDies ==
    /\ pipeline' = [pipeline EXCEPT !.writer = <<>>, !.written = <<>>, !.dead = 1]
    /\ UNCHANGED <<pipelineFrame, block, event, tx, in_flight>>

(* The transaction fails and the writer returns the error.                 *)
WriterFails ==
    /\ pipeline.writer # <<>>
    /\ InsertConflict(pipeline.writer, pipeline.mode)
    /\ WriterDies
    /\ UNCHANGED faults

(* The writer loses its connection, before or after the commit took effect.*)
WriterDisconnected ==
    /\ pipeline.writer # <<>> \/ pipeline.written # <<>>
    /\ faults < MaxFaults
    /\ faults' = faults + 1
    /\ WriterDies

(* A thread whose receiver is gone panics at its next send.                *)
FmtDies ==
    /\ pipeline.dead = 1 /\ pipeline.fmt # <<>>
    /\ pipeline' = [pipeline EXCEPT !.fmt = <<>>, !.dead = 2]
    /\ UNCHANGED <<pipelineFrame, block, event, tx, in_flight, faults>>

UtxoDies ==
    /\ pipeline.dead = 2 /\ pipeline.utxo # <<>>
    /\ pipeline' = [pipeline EXCEPT !.utxo = <<>>, !.dead = 3]
    /\ UNCHANGED <<pipelineFrame, block, event, tx, in_flight, faults>>
-----------------------------------------------------------------------------
Insert == \E b \in Block : InsertAtTip(b) \/ InsertBelowTip(b) \/ InsertInReorg(b)

MainStep ==
    \/ SelfTestSchema \/ SelfTestState \/ SelfTestDone
    \/ OpenStore \/ OpenFails
    \/ FlushAtTip \/ FlushBelowTip \/ Compare \/ PipelineGone
    \/ FinishReorg \/ FinishReorgFails
    \/ SetMode \/ CheckInFlight \/ RestartWorkers
    \/ EnterNormal \/ EnterNormalFails \/ SaveMode

PipelineStep ==
    \/ PassToFmt \/ PassToWriter
    \/ WriterCommit \/ WriterDone
    \/ WriterFails \/ WriterDisconnected \/ FmtDies \/ UtxoDies

Next == Start \/ MainStep \/ Insert \/ PipelineStep \/ Crash \/ Wipe

Spec == Init /\ [][Next]_vars

(* Every thread gets to run, and the database answers.  Nothing makes the  *)
(* node find blocks, the process crash, or somebody start it again.        *)
FairSpec ==
    /\ Spec
    /\ WF_vars(MainStep)
    /\ WF_vars(PassToFmt) /\ WF_vars(PassToWriter)
    /\ WF_vars(WriterCommit) /\ WF_vars(WriterDone)
    /\ WF_vars(WriterFails) /\ WF_vars(FmtDies) /\ WF_vars(UtxoDies)
-----------------------------------------------------------------------------
(* Accepted blocks that are not in the database yet, in order of height.   *)
Queued == pipeline.writer \o pipeline.fmt \o pipeline.utxo \o batch
Accepted == ActiveChain \o Queued

Open == pc \notin {"down", "self_test", "set_schema"}

(* The start-up assertion "db is supposed to preserve reorg atomicity"     *)
(* (IndexerStore::new) holds whenever the process may be restarted: at     *)
(* every moment, the highest row is not extinct.                           *)
StartupAssertion == CountOf(Rows) = CountOf(Active)

(* The index and the blocks on their way to it, in whichever thread they   *)
(* are, are one chain without a gap, as long as chain_block_count says:    *)
(* no block is lost, repeated or reordered between insert and commit.      *)
AcceptedIsChain ==
    Open /\ pipeline.dead = 0 =>
        /\ IsChain(Accepted)
        /\ Len(Accepted) = chain_block_count

(* While a reorg is pending, the pending blocks are the top of what the    *)
(* source handed over and the rest of it is indexed; nothing is queued and *)
(* no worker runs that could commit behind the main thread's back.         *)
PendingReorgLinked ==
    pending_reorg # {} =>
        /\ batch = <<>> /\ in_flight = {} /\ pipeline = NoPipeline
        /\ Len(stream) <= chain_block_count \/ pc = "finish_reorg"
        /\ \E n \in 1..Len(stream) :
            /\ pending_reorg = {stream[i] : i \in n..Len(stream)}
            /\ \A i \in 1..n - 1 : ActiveChain[i] = stream[i]

(* Outside a reorg, everything the source handed over is accepted: the     *)
(* caller's view of the node and the store's agree.                        *)
AcceptsStream ==
    pc = "idle" /\ pending_reorg = {} /\ pipeline.dead = 0 =>
        /\ Len(stream) <= chain_block_count
        /\ stream = SubSeq(Accepted, 1, Len(stream))

(* The assertions of the code: a block below the top is in the database    *)
(* once the workers stopped; nothing is in flight then; the writer finds   *)
(* its hashes in flight; a reorg adds consecutive blocks and at least one  *)
(* that was never indexed.                                                 *)
AssertionsHold ==
    /\ pc = "compare" /\ Drained => DbHashes(Height[block_arg]) # {}
    /\ pc \in {"compare", "restart_workers"} /\ Drained => in_flight = {}
    /\ BlocksOf(pipeline.written) \subseteq in_flight
    /\ pc = "finish_reorg" =>
        /\ Unindexed # <<>>
        /\ {Height[b] : b \in ArrivingBlocks} = FirstDifferentHeight..chain_block_count
        /\ \A a, b \in ArrivingBlocks : Height[a] = Height[b] => a = b

(* The schema is the one of the recorded mode, whatever a crash in the     *)
(* midst of a switch left behind: between operations both are those of the *)
(* store's mode, and once a block is indexed nobody, the mempool indexer   *)
(* that looks at bulk_mode included, finds normal mode recorded before all *)
(* keys are there ("commit to the new mode in the db last").  Before the   *)
(* first block this does not hold: self_test records normal mode, and goes *)
(* back to a smaller schema before it records that.                        *)
SchemaIsRecorded ==
    /\ pc = "idle" => schema = mode /\ indexer_state = {IsBulk(mode)}
    /\ Rows # {} /\ indexer_state = {FALSE} => schema = "normal"

(* Readers see what ChainIndex promises: every commit moves to a longer    *)
(* chain in one step, and logs exactly the blocks that left and came,      *)
(* until the operator wipes the database.                                  *)
Index == INSTANCE ChainIndex WITH index <- ActiveChain, log <- event
IndexSpec == Index!Spec

(* A subscriber that follows the events from the start has the indexed     *)
(* chain after each commit, also across crashes.                           *)
EventsReplay == Replay(event) = ActiveChain

(* In normal mode a block handed to the store gets committed without       *)
(* another one having to come, unless the process or its writer fails: the *)
(* pipeline and the main thread never wait on each other for ever.         *)
EventuallyCommitted ==
    \A b \in Block :
        mode = "normal" /\ b \in BlocksOf(Queued)
            ~> block[b] = "active" \/ pc = "down" \/ pipeline.dead > 0

(* An operation of the store that has begun comes to an end.               *)
OperationsEnd == pc \notin {"idle", "down"} ~> pc \in {"idle", "down"}
-----------------------------------------------------------------------------
(* What the documentation says, and the code does not do: see README.md.   *)

(* README.md, "all indices are created only after reach the chain-head":   *)
(* once the store holds the block at the height the node's head had at     *)
(* start, or one above it, it is in normal mode (insert_when_at_tip).      *)
NormalAtHead ==
    pc = "idle" /\ pending_reorg = {} /\ Len(stream) > node_chain_head_height
        => mode = "normal"

(* pg.rs, "Shutting down, faults, etc. should leave the data in a         *)
(* consistent state": the keys that every later start, or the switch to    *)
(* normal mode, has to build can be built on the data (finish_reorg,       *)
(* set_schema_to_mode).                                                    *)
KeysCanBeBuilt == SchemaFits("normal")

(* mode_normal.sql, "txes in the mempool: select all txes that have null   *)
(* current_height"; README.md, "always-coherent state view (i.e. atomic    *)
(* reorgs)": where the views exist, the current_height of a transaction is *)
(* the height of the indexed block that has it, and null if there is none  *)
(* (finish_reorg).                                                         *)
CurrentHeightCoherent ==
    schema = "normal" =>
        \A t \in Tx : \A i \in DOMAIN tx[t] :
            {Height[b] : b \in {a \in Active : t \in Txs[a]}}
                = {tx[t][i]} \ {NoHeight}

(* README.md, "initial sync starts with no indices", also after a crash    *)
(* that left nothing indexed (self_test, read_indexer_state).              *)
InitialSyncIsBulk == pc = "idle" /\ chain_block_count = 0 => IsBulk(mode)
=============================================================================
