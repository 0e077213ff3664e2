------------------------------ MODULE UtxoCache ------------------------------
(***************************************************************************)
(* The cache of unspent outputs in the first thread of the pipeline        *)
(* (src/db/pg.rs, UtxoSetCache), beside the rest of IndexerStore.          *)
(*                                                                         *)
(* To compute fees, each input's output is looked up.  The thread caches   *)
(* the outputs of the blocks it has seen, and takes out what a batch       *)
(* spends; what it does not have it reads from the database, while older   *)
(* batches may still be on their way there.  The cache lives as long as    *)
(* its thread.                                                             *)
(***************************************************************************)
EXTENDS IndexerStore

CONSTANTS
    Out,        \* transaction outputs
    Creates,    \* the outputs each block's transactions create
    Spends      \* the outputs its transactions other than the coinbase spend

(* The node reports valid chains, and each block was asked for by a height *)
(* of one of them: what a block spends was created on the same chain, up   *)
(* to this block, and is spent once.                                       *)
ASSUME UtxoAssumption ==
    /\ Creates \in [Block -> SUBSET Out]
    /\ Spends \in [Block -> SUBSET Out]
    /\ \A b \in Block : \E c \in Chains : b \in {c[i] : i \in DOMAIN c}
    /\ \A c \in Chains : \A i \in DOMAIN c :
        /\ Spends[c[i]] \subseteq UNION {Creates[c[j]] : j \in 1..i}
        /\ \A j \in 1..i - 1 :
            /\ Spends[c[i]] \cap Spends[c[j]] = {}
            /\ Creates[c[i]] \cap Creates[c[j]] = {}

VARIABLES
    entries,    \* field of UtxoSetCache: the outputs cached
    missing,    \* spent by the batch at hand and not found in the cache
    utxo_step   \* where the thread is: "recv", "fetch" or "send"

cache == <<entries, missing, utxo_step>>
uvars == <<vars, cache>>

CreatedBy(S) == UNION {Creates[b] : b \in S}
SpentBy(S)   == UNION {Spends[b] : b \in S}

(* Rows of table output: none is ever removed, not even in a reorg.        *)
DbOutputs == CreatedBy(Rows)
-----------------------------------------------------------------------------
UInit == Init /\ entries = {} /\ missing = {} /\ utxo_step = "recv"

(* A new thread begins with UtxoSetCache::default().                       *)
NewCache == entries' = {} /\ missing' = {} /\ utxo_step' = "recv"

(* Mutants: an output that was used stays cached; only the outputs of the  *)
(* last batch do.                                                          *)
EntriesKept(blocks) == entries \cup CreatedBy(blocks)
EntriesOfBatch(blocks) == CreatedBy(blocks) \ SpentBy(blocks)

(* What a batch leaves in the cache: its outputs are added before any      *)
(* output is taken, so that it may spend its own.                          *)
EntriesAfter(blocks) == (entries \cup CreatedBy(blocks)) \ SpentBy(blocks)

(* Mutant: its outputs are added last.                                     *)
MissingBeforeInsert(blocks) == SpentBy(blocks) \ entries

MissingAfter(blocks) == SpentBy(blocks) \ (entries \cup CreatedBy(blocks))

(* process_blocks, first half: insert_new_utxos_from_blocks, then          *)
(* consume_spent_utxos_from_blocks.                                        *)
ConsumeUtxos ==
    /\ utxo_step = "recv"
    /\ pipeline.utxo # <<>>
    /\ entries' = EntriesAfter(BlocksOf(pipeline.utxo))
    /\ missing' = MissingAfter(BlocksOf(pipeline.utxo))
    /\ utxo_step' = "fetch"
    /\ UNCHANGED vars

(* Second half: fetch_missing_utxos, from the database as it is by now.    *)
(* It asserts that all are found (EveryInputFound).                        *)
FetchMissingUtxos ==
    /\ utxo_step = "fetch"
    /\ missing \subseteq DbOutputs
    /\ missing' = {}
    /\ utxo_step' = "send"
    /\ UNCHANGED <<vars, entries>>

(* The batch goes to the formatter, or the thread dies at its send.        *)
SendToFmt ==
    /\ utxo_step = "send"
    /\ PassToFmt \/ UtxoDies
    /\ utxo_step' = "recv"
    /\ UNCHANGED <<entries, missing>>

(* The pipeline is started again, or stopped, and the cache goes with it.  *)
NewThreads ==
    /\ \/ OpenStore \/ Compare \/ FinishReorg \/ RestartWorkers
       \/ Crash \/ OpenFails \/ PipelineGone \/ FinishReorgFails \/ EnterNormalFails
    /\ NewCache

OtherMainStep ==
    \/ Start \/ Wipe \/ Insert
    \/ SelfTestSchema \/ SelfTestState \/ SelfTestDone
    \/ FlushAtTip \/ FlushBelowTip
    \/ SetMode \/ CheckInFlight \/ EnterNormal \/ SaveMode

OtherThreads ==
    \/ PassToWriter \/ WriterCommit \/ WriterDone
    \/ WriterFails \/ WriterDisconnected \/ FmtDies

UNext ==
    \/ ConsumeUtxos \/ FetchMissingUtxos \/ SendToFmt
    \/ NewThreads
    \/ (OtherMainStep \/ OtherThreads) /\ UNCHANGED cache

USpec == UInit /\ [][UNext]_uvars
-----------------------------------------------------------------------------
(* The blocks on the indexed chain and those the first thread has seen.    *)
Processed ==
    Active \cup BlocksOf(pipeline.writer) \cup BlocksOf(pipeline.fmt)
           \cup IF utxo_step = "recv" THEN {} ELSE BlocksOf(pipeline.utxo)

(* The assertion `missing_len == out.len()` of fetch_missing_utxos cannot  *)
(* fail: an output that is not cached is in the database, in the pipeline  *)
(* (whatever the writer has committed by then) and inside finish_reorg,    *)
(* which begins with an empty cache and commits nothing before.            *)
EveryInputFound ==
    /\ missing \subseteq DbOutputs
    /\ pc = "finish_reorg" =>
        SpentBy(BlocksOf(Unindexed)) \subseteq
            DbOutputs \cup CreatedBy(BlocksOf(Unindexed))

(* The cache holds unspent outputs of the chain only: what a block used    *)
(* is removed, nothing survives a reorg, and nothing of a batch that was   *)
(* lost with its threads is left.  So it grows with the UTXO set at most,  *)
(* and an entry is never taken for an output that was replaced.            *)
CacheIsUnspent ==
    pipeline.dead = 0 => entries \subseteq CreatedBy(Processed) \ SpentBy(Processed)

(* Whatever the next block spends, the thread will find it: each unspent   *)
(* output of the blocks it has seen is cached or in the database already.  *)
(* A cache dropped before the batches behind it are written would lose     *)
(* some.                                                                   *)
UnspentIsReachable ==
    CreatedBy(Processed) \ SpentBy(Processed) \subseteq entries \cup DbOutputs
=============================================================================
