------------------------------- MODULE Mempool --------------------------------
(***************************************************************************)
(* The mempool indexer (src/bin/mempool-indexer.rs; src/db/pg.rs,          *)
(* MempoolStore), a second process that writes to the database of          *)
(* IndexerStore.                                                           *)
(*                                                                         *)
(* It scans the node's mempool again and again and inserts transactions    *)
(* that are in no block yet, without a height: the rows of tx, output and  *)
(* input in three statements, each a transaction of its own.  Between any  *)
(* two of them the indexer may commit a block with the same transaction,   *)
(* the node may drop it, and either process may stop.                      *)
(*                                                                         *)
(* Abstracted: a transaction's outputs and inputs are there or not.        *)
(***************************************************************************)
EXTENDS IndexerStore

CONSTANTS
    Parents,    \* the transactions whose outputs each transaction spends
    DoneLimit   \* the size at which the set of done transactions is cleared

ASSUME MempoolAssumption ==
    /\ Parents \in [Tx -> SUBSET Tx]
    /\ \A b \in Block : \E c \in Chains : b \in {c[i] : i \in DOMAIN c}
    /\ DoneLimit \in Nat

VARIABLES
    mempool,    \* the node's: unconfirmed transactions
    output,     \* transactions whose rows in table output exist
    input,      \* transactions whose rows in table input exist
    \* the mempool indexer
    done,       \* transactions it will not insert again
    skipped,    \* those of them that it did not insert (not in the code)
    todo,       \* the rest of the list it scans
    current,    \* the transaction it inserts
    connected,  \* does it have its database connection?
    step        \* where it is

NoTx == NoBlock

mempoolIndexer == <<done, skipped, todo, current, connected, step>>
mvars == <<vars, mempool, output, input, mempoolIndexer>>

(* `step` is "down", "sleep" between two scans, "scan" when the next       *)
(* transaction of the list is due, then "lookup", and "tx", "output" and   *)
(* "input" before the statement of this name.                              *)
-----------------------------------------------------------------------------
MInit ==
    /\ Init
    /\ mempool = {} /\ output = {} /\ input = {}
    /\ done = {} /\ skipped = {} /\ todo = {}
    /\ current = NoTx
    /\ connected = FALSE
    /\ step = "down"

(* The node: a transaction enters its mempool, after those it spends from, *)
(* or leaves it, because it is in a block or was dropped.                  *)
Confirmed == TxsOf(stream) \cup UNION {Txs[b] : b \in Active}

MempoolChange ==
    /\ \E t \in Tx :
        \/ /\ t \notin mempool \cup Confirmed
           /\ Parents[t] \subseteq mempool \cup Confirmed
           /\ mempool' = mempool \cup {t}
        \/ t \in mempool /\ mempool' = mempool \ {t}
    /\ UNCHANGED <<vars, output, input, mempoolIndexer>>
-----------------------------------------------------------------------------
(* Mutant: nothing is inserted for a transaction that has a row.           *)
IndexNewTxs(txs) ==
    LET new == {t \in txs : tx[t] = <<>>}
    IN  output' = output \cup new /\ input' = input \cup new

(* The indexer's transactions, with the outputs and inputs of the blocks.  *)
IndexTxs(txs) == output' = output \cup txs /\ input' = input \cup txs

CommitBlocks ==
    /\ \/ WriterCommit /\ IndexTxs(TxsOf(pipeline.writer))
       \/ FinishReorg /\ IndexTxs(TxsOf(Unindexed))
    /\ UNCHANGED <<mempool, mempoolIndexer>>

(* The operator wipes the database with both programs stopped.             *)
WipeAll ==
    /\ Wipe
    /\ step = "down"
    /\ output' = {} /\ input' = {}
    /\ UNCHANGED <<mempool, mempoolIndexer>>

OtherStoreStep ==
    /\ \/ Start \/ Insert \/ Crash
       \/ SelfTestSchema \/ SelfTestState \/ SelfTestDone
       \/ OpenStore \/ OpenFails
       \/ FlushAtTip \/ FlushBelowTip \/ Compare \/ PipelineGone
       \/ FinishReorgFails
       \/ SetMode \/ CheckInFlight \/ RestartWorkers
       \/ EnterNormal \/ EnterNormalFails \/ SaveMode
       \/ PassToFmt \/ PassToWriter \/ WriterDone
       \/ WriterFails \/ WriterDisconnected \/ FmtDies \/ UtxoDies
    /\ UNCHANGED <<mempool, output, input, mempoolIndexer>>
-----------------------------------------------------------------------------
indexerFrame == <<block, event, schema, indexer_state, memory, pc, block_arg,
                  test_step, feed>>

(* Mutant: the mode is not checked.                                        *)
AnyMode == TRUE

(* MempoolStore::new gives up in bulk mode.                                *)
ModeAllows == StoredMode = "normal"

(* The operator starts it after the initial sync (README.md), so not while *)
(* the self test of an empty database tries normal mode.                   *)
MempoolStart ==
    /\ step = "down"
    /\ Rows # {}
    /\ ModeAllows
    /\ connected' = TRUE
    /\ step' = "sleep"
    /\ UNCHANGED <<indexerFrame, faults, tx, mempool, output, input, done, skipped,
                   todo, current>>

(* get_raw_mempool; what is done is passed over.                           *)
Scan ==
    /\ step = "sleep"
    /\ IF Cardinality(done) > DoneLimit
       THEN done' = {} /\ skipped' = {}
       ELSE UNCHANGED <<done, skipped>>
    /\ todo' = mempool \ done'
    /\ step' = "scan"
    /\ UNCHANGED <<indexerFrame, faults, tx, mempool, output, input, current,
                   connected>>

(* The list is at its end: sleep.                                          *)
ScanEnds ==
    /\ step = "scan"
    /\ todo = {}
    /\ step' = "sleep"
    /\ UNCHANGED <<indexerFrame, faults, tx, mempool, output, input, done, skipped,
                   todo, current, connected>>

(* The node answers with the transaction, if it still knows it.            *)
FetchTx ==
    /\ step = "scan"
    /\ \E t \in todo :
        /\ t \in mempool \cup Confirmed
        /\ current' = t
        /\ todo' = todo \ {t}
    /\ step' = "lookup"
    /\ UNCHANGED <<indexerFrame, faults, tx, mempool, output, input, done,
                   skipped, connected>>

(* Or it fails: nothing is inserted, and the transaction is done.          *)
FetchFails ==
    /\ step = "scan"
    /\ \E t \in todo :
        /\ done' = done \cup {t}
        /\ skipped' = skipped \cup {t}
        /\ todo' = todo \ {t}
    /\ UNCHANGED <<indexerFrame, faults, tx, mempool, output, input, current,
                   connected, step>>

(* Mutant: outputs of unconfirmed transactions do not count.               *)
ConfirmedOutputs == {t \in output : \E i \in DOMAIN tx[t] : tx[t][i] # NoHeight}

(* fetch_outputs: the outputs to spend are looked up in the database.      *)
KnownOutputs == output

(* insert: all outputs it spends are there; or the transaction has failed  *)
(* and stays to be done; or the query itself fails, which counts as done.  *)
Lookup ==
    /\ step = "lookup"
    /\ IF connected
       THEN /\ step' = IF Parents[current] \subseteq KnownOutputs THEN "tx" ELSE "scan"
            /\ UNCHANGED <<done, skipped>>
       ELSE /\ step' = "scan"
            /\ done' = done \cup {current}
            /\ skipped' = skipped \cup {current}
    /\ UNCHANGED <<indexerFrame, faults, tx, mempool, output, input, todo, current,
                   connected>>

(* Mutants: a row that is there is updated; nothing else is inserted then. *)
RowUpdated(rows) ==
    IF schema = "normal" THEN <<NoHeight>> ELSE Append(rows, NoHeight)
AllThere == tx[current] # <<>>

(* INSERT INTO tx ... ON CONFLICT DO NOTHING, which needs the key.         *)
RowInserted(rows) ==
    IF schema = "normal" /\ rows # <<>> THEN rows ELSE Append(rows, NoHeight)

(* Whether anything is left to insert after the row of tx.                 *)
NothingLeft == FALSE

InsertTx ==
    /\ step = "tx"
    /\ connected
    /\ tx' = [tx EXCEPT ![current] = RowInserted(@)]
    /\ IF NothingLeft
       THEN step' = "scan" /\ done' = done \cup {current}
       ELSE step' = "output" /\ UNCHANGED done
    /\ UNCHANGED <<indexerFrame, faults, mempool, output, input, skipped, todo,
                   current, connected>>

InsertOutputs ==
    /\ step = "output"
    /\ connected
    /\ output' = output \cup {current}
    /\ step' = "input"
    /\ UNCHANGED <<indexerFrame, faults, tx, mempool, input, done, skipped, todo,
                   current, connected>>

InsertInputs ==
    /\ step = "input"
    /\ connected
    /\ input' = input \cup {current}
    /\ done' = done \cup {current}
    /\ step' = "scan"
    /\ UNCHANGED <<indexerFrame, faults, tx, mempool, output, skipped, todo, current,
                   connected>>

(* A statement fails: the transaction has failed and stays to be done.     *)
StatementFails ==
    /\ step \in {"tx", "output", "input"}
    /\ ~connected
    /\ step' = "scan"
    /\ UNCHANGED <<indexerFrame, faults, tx, mempool, output, input, done, skipped,
                   todo, current, connected>>

(* The connection is lost, and nobody opens another.                       *)
LoseConnection ==
    /\ connected
    /\ faults < MaxFaults
    /\ faults' = faults + 1
    /\ connected' = FALSE
    /\ UNCHANGED <<indexerFrame, tx, mempool, output, input, done, skipped, todo,
                   current, step>>

(* The process is killed, or ends because get_raw_mempool failed.          *)
MempoolCrash ==
    /\ step # "down"
    /\ faults < MaxFaults
    /\ faults' = faults + 1
    /\ step' = "down"
    /\ done' = {} /\ skipped' = {} /\ todo' = {} /\ current' = NoTx /\ connected' = FALSE
    /\ UNCHANGED <<indexerFrame, tx, mempool, output, input>>

MempoolStep ==
    \/ Scan \/ ScanEnds \/ FetchTx \/ FetchFails \/ Lookup
    \/ InsertTx \/ InsertOutputs \/ InsertInputs \/ StatementFails

MNext ==
    \/ MempoolChange
    \/ CommitBlocks \/ WipeAll \/ OtherStoreStep
    \/ MempoolStart \/ MempoolStep \/ LoseConnection \/ MempoolCrash

(* The mempool indexer runs, and takes up every transaction of its list.   *)
MSpec ==
    /\ MInit /\ [][MNext]_mvars
    /\ WF_mvars(MempoolStep)
-----------------------------------------------------------------------------
Complete(t) == t \in output /\ t \in input

(* Readers find a transaction's outputs and inputs with its row, if a      *)
(* block has it or the mempool indexer has inserted it, whatever crash,    *)
(* retry or block came in between the three statements; without a fault,   *)
(* always, but for the moment between the statements.  And never an input  *)
(* without the outputs, or outputs without the row.                        *)
RowsComplete ==
    \A t \in Tx :
        /\ t \in input => t \in output
        /\ t \in output => tx[t] # <<>>
        /\ t \in done \ skipped => tx[t] # <<>> /\ Complete(t)
        /\ tx[t] # <<>> =>
            \/ Complete(t)
            \/ /\ t \notin UNION {Txs[b] : b \in Active}
               /\ faults > 0 \/ (t = current /\ step \in {"output", "input"})

(* Where keys exist, and up to the first reorg (see CurrentHeightCoherent  *)
(* for what a reorg does), the height of a transaction's row is that of    *)
(* the block that has it, and none while it is in the mempool: neither     *)
(* process overwrites what the other one wrote later.                      *)
HeightCoherentUntilReorg ==
    {b \in Block : block[b] = "extinct"} = {} => CurrentHeightCoherent

(* While the mempool indexer runs, the keys its ON CONFLICT relies on are  *)
(* there, through any crash, restart and mode switch of the indexer,       *)
(* although the mode is checked only once.                                 *)
KeysThereForMempool == step # "down" => schema = "normal"

(* Rows of the mempool indexer make a batch of blocks fail on a key only   *)
(* in a pipeline that flush_workers kept across the switch to normal mode. *)
(* In any other a batch fails only in bulk mode, because a transaction of  *)
(* it was in a block that a reorg took out.                                *)
OnlyStalePipelineFails ==
    pipeline.writer # <<>> /\ InsertConflict(pipeline.writer, pipeline.mode) =>
        \/ pipeline.mode # mode
        \/ /\ mode = "bulk"
           /\ \E b \in Block :
                block[b] = "extinct" /\ Txs[b] \cap TxsOf(pipeline.writer) # {}

(* A transaction that stays in the mempool, while what it spends is in the *)
(* database, gets all its rows, even if it failed before for want of an    *)
(* output, or was interrupted between two statements; or the mempool       *)
(* indexer takes it for done, because it could not fetch it or lost its    *)
(* connection.                                                             *)
EventuallyIndexed ==
    \A t \in Tx :
        <>[](/\ step # "down"
             /\ t \in mempool
             /\ Parents[t] \subseteq output)
            => <>(Complete(t) \/ t \in skipped)
=============================================================================
