--------------------------- MODULE MempoolProofs -----------------------------
(***************************************************************************)
(* Theorems about Mempool, for every block tree, every set of transactions *)
(* and any number of faults.                                               *)
(*                                                                         *)
(* KeysThere: the keys that its statements rely on exist while it runs.    *)
(* What it reads, bulk_mode = false in indexer_state, and what it relies   *)
(* on, the schema, change in different transactions.  ModeInv says how the *)
(* two are related at every step of the indexer, its self test, its switch *)
(* to normal mode and its restarts.                                        *)
(*                                                                         *)
(* The store's own invariant Inv holds beside the mempool indexer too,     *)
(* which changes no row it speaks of.  On top of it stand RowsAreComplete, *)
(* ConflictsAreStale and HeightsAreCoherent.                               *)
(***************************************************************************)
EXTENDS Mempool, IndexerStoreProofs

(* Before the store is open nothing is in the pipeline, and a self test    *)
(* runs on an empty database and ends as it found it, in fresh mode.       *)
StartingUp ==
    /\ test_step \in 0..10
    /\ pc = "down" => test_step = 0
    /\ pc \in {"down", "self_test", "set_schema"} => pipeline = NoPipeline
    /\ pc = "self_test" =>
        /\ Rows = {}
        /\ test_step = 9 => mode = "fresh"
        /\ test_step = 10 => indexer_state # {FALSE}

(* The switch to normal mode is recorded last, after the schema is there.  *)
SwitchingMode ==
    /\ pc \in {"check_in_flight", "restart_workers", "enter_normal", "save_mode"}
        => mode = "normal"
    /\ pc = "save_mode" => schema = "normal"

(* Where normal mode is recorded, the running process is in it once it has *)
(* read the record; the schema is in place once a block is indexed, or the *)
(* store is open.                                                          *)
RecordedMode ==
    indexer_state = {FALSE} =>
        /\ pc \notin {"down", "self_test"} => mode = "normal"
        /\ Rows # {} \/ Open => schema = "normal"

ModeInv == StartingUp /\ SwitchingMode /\ RecordedMode

(* While the mempool indexer runs, what it read at its start still holds.  *)
StillNormal == step # "down" => Rows # {} /\ indexer_state = {FALSE}

(* What the variables of the mempool indexer hold.                         *)
MTypeOK ==
    /\ mempool \in SUBSET Tx /\ todo \in SUBSET Tx
    /\ current \in Tx \cup {NoTx}
    /\ connected \in BOOLEAN
    /\ step \in {"down", "sleep", "scan", "lookup", "tx", "output", "input"}
    /\ step \in {"lookup", "tx", "output", "input"} => current \in Tx

(* Between two statements: what the ones before have inserted.             *)
InsertInv ==
    /\ step \in {"output", "input"} => tx[current] # <<>>
    /\ step = "input" => current \in output
    /\ step = "down" => done = {}
    /\ step # "down" /\ ~connected => faults > 0

TxsOfRows == UNION {Txs[b] : b \in Rows}

(* RowsComplete, for the blocks that a reorg took out as well: it may      *)
(* bring them back.                                                        *)
CompleteInv ==
    /\ \A t \in Tx :
        /\ t \in input => t \in output
        /\ t \in output => tx[t] # <<>>
        /\ t \in done \ skipped => Complete(t)
        /\ tx[t] # <<>> =>
            Complete(t) \/ faults > 0 \/ (t = current /\ step \in {"output", "input"})
    /\ \A t \in TxsOfRows : tx[t] # <<>> /\ Complete(t)

(* Only the mempool indexer makes rows for transactions without a block,   *)
(* and it does so in normal mode.                                          *)
UnconfirmedInv ==
    \A t \in Tx : tx[t] # <<>> /\ t \notin TxsOfRows => indexer_state = {FALSE} /\ Rows # {}

(* An open store has the schema of its mode, but for the switch, which     *)
(* begins in another mode; a pipeline made for normal mode is younger than *)
(* the switch, and gets nothing before the keys are there.                 *)
SwitchInv ==
    /\ Open /\ mode # "normal" => schema = mode
    /\ Open /\ mode = "normal" =>
        schema = "normal" \/ pc \in {"check_in_flight", "restart_workers", "enter_normal"}
    /\ pc = "set_mode" => mode # "normal"
    /\ pipeline.mode = "normal" =>
        /\ mode = "normal"
        /\ pc \notin {"check_in_flight", "restart_workers"}
        /\ pc = "enter_normal" =>
            pipeline.writer = <<>> /\ pipeline.fmt = <<>> /\ pipeline.utxo = <<>>

(* The heights of the active blocks that have t, and what its row says.    *)
HeightsOf(t) == {Height[b] : b \in {a \in Active : t \in Txs[a]}}
HeightFits(t) == \A i \in DOMAIN tx[t] : HeightsOf(t) = {tx[t][i]} \ {NoHeight}

NoExtinct == \A b \in Block : block[b] # "extinct"

(* In every schema: after a reorg, one block at least stays extinct.       *)
HeightsInv == NoExtinct => \A t \in Tx : HeightFits(t)
-----------------------------------------------------------------------------
(* Only bulk_mode = false is recorded as such.                             *)
LEMMA RecordedValue ==
    /\ {TRUE} # {FALSE}
    /\ {IsBulk("fresh")} # {FALSE}
    /\ {IsBulk("normal")} = {FALSE}
<1>1. TRUE \in {TRUE} /\ TRUE \notin {FALSE}
  OBVIOUS
<1>2. IsBulk("fresh") = TRUE /\ IsBulk("normal") = FALSE
  BY DEF IsBulk
<1> QED BY <1>1, <1>2

(* The self test ends in fresh mode.                                       *)
LEMMA LastTestMode == SelfTestModes[8 \div 2 + 1] = "fresh"
<1>1. 8 \div 2 + 1 = 5
  OBVIOUS
<1>2. SelfTestModes[5] = "fresh"
  BY DEF SelfTestModes
<1> QED BY <1>1, <1>2

(* No transaction of the indexer removes a row of table block.             *)
LEMMA RowsStay ==
    ASSUME WriterCommit \/ FinishReorg \/ UNCHANGED block, Rows # {}
    PROVE  Rows' # {}
<1>1. PICK b \in Block : block[b] # "none"
  BY DEF Rows
<1>2. block'[b] # "none"
  BY <1>1 DEF WriterCommit, FinishReorg
<1> QED BY <1>1, <1>2 DEF Rows

(* The process is gone, and the database is as it was.                     *)
LEMMA ForgetModeInv ==
    ASSUME ModeInv, Forget, UNCHANGED db
    PROVE  ModeInv'
<1>1. Rows' = Rows /\ indexer_state' = indexer_state /\ schema' = schema
  BY DEF db, Rows
<1>2. pc' = "down" /\ test_step' = 0 /\ pipeline' = NoPipeline
  BY DEF Forget
<1>3. StartingUp'
  BY <1>2 DEF StartingUp, NoPipeline, NewPipeline
<1>4. SwitchingMode'
  BY <1>2 DEF SwitchingMode
<1>5. RecordedMode'
  BY <1>1, <1>2 DEF ModeInv, RecordedMode, Open
<1> QED BY <1>3, <1>4, <1>5 DEF ModeInv

(* At first no mode is recorded, and nothing runs.                         *)
LEMMA InitModeInv == Init => ModeInv
<1> SUFFICES ASSUME Init PROVE ModeInv
  OBVIOUS
<1>1. pc = "down" /\ test_step = 0 /\ pipeline = NoPipeline /\ indexer_state = {}
  BY DEF Init
<1>2. indexer_state # {FALSE}
  <2>1. FALSE \in {FALSE} /\ FALSE \notin {}
    OBVIOUS
  <2> QED BY <1>1, <2>1
<1>3. StartingUp
  BY <1>1 DEF StartingUp
<1>4. SwitchingMode
  BY <1>1 DEF SwitchingMode
<1> QED BY <1>2, <1>3, <1>4 DEF ModeInv, RecordedMode
-----------------------------------------------------------------------------
(* Starting up: the record is read, the self test writes it, the schema    *)
(* is put in place.                                                        *)
LEMMA StartModeInv == ASSUME ModeInv, Start PROVE ModeInv'
<1>1. /\ pc = "down" /\ block' = block /\ schema' = schema
      /\ pipeline' = pipeline /\ test_step' = test_step
      /\ mode' = StoredMode
      /\ indexer_state' = IF indexer_state = {} THEN {TRUE} ELSE indexer_state
      /\ pc' = IF StoredMode = "fresh" THEN "self_test" ELSE "set_schema"
  BY DEF Start
<1>2. test_step = 0 /\ pipeline = NoPipeline /\ NoPipeline' = NoPipeline
  BY <1>1 DEF ModeInv, StartingUp, NoPipeline, NewPipeline
<1>3. Rows' = Rows
  BY <1>1 DEF Rows
<1>4. StoredMode = "fresh" => Rows = {}
  BY DEF StoredMode
<1>5. StartingUp'
  BY <1>1, <1>2, <1>3, <1>4 DEF StartingUp
<1>6. SwitchingMode'
  BY <1>1 DEF SwitchingMode
<1>7. indexer_state' = {FALSE} => indexer_state = {FALSE}
  BY <1>1, RecordedValue
<1>8. ~Open'
  BY <1>1 DEF Open
<1>9. RecordedMode'
  BY <1>1, <1>3, <1>7, <1>8 DEF ModeInv, RecordedMode, StoredMode
<1> QED BY <1>5, <1>6, <1>9 DEF ModeInv

(* The self test passes through normal mode, with no rows and no mempool   *)
(* indexer.                                                                *)
LEMMA SelfTestModeInv ==
    ASSUME ModeInv, SelfTestSchema \/ SelfTestState \/ SelfTestDone
    PROVE  ModeInv'
<1>1. /\ pc = "self_test" /\ Rows = {} /\ block' = block
      /\ test_step \in 0..10 /\ pipeline' = pipeline /\ pipeline = NoPipeline
  BY DEF ModeInv, StartingUp, SelfTestSchema, SelfTestState, SelfTestDone, memory, db
<1>2. Rows' = {} /\ NoPipeline' = NoPipeline
  BY <1>1 DEF Rows, NoPipeline, NewPipeline
<1>3. CASE SelfTestSchema
  <2>1. /\ pc' = pc /\ test_step' = test_step + 1 /\ test_step < 10
        /\ test_step % 2 = 0 /\ mode' = SelfTestModes[test_step \div 2 + 1]
    BY <1>3 DEF SelfTestSchema
  <2>2. test_step' \in 0..10 /\ test_step' # 10
    BY <1>1, <2>1
  <2>3. test_step' = 9 => mode' = "fresh"
    BY <1>1, <2>1, LastTestMode
  <2>4. ~Open'
    BY <1>1, <2>1 DEF Open
  <2> QED
    BY <1>1, <1>2, <2>1, <2>2, <2>3, <2>4
    DEF ModeInv, StartingUp, SwitchingMode, RecordedMode
<1>4. CASE SelfTestState
  <2>1. /\ pc' = pc /\ test_step' = test_step + 1 /\ test_step % 2 = 1
        /\ mode' = mode /\ indexer_state' = {IsBulk(mode)}
    BY <1>4 DEF SelfTestState, memory
  <2>2. test_step' \in 0..10 /\ test_step' # 9
    BY <1>1, <2>1
  <2>3. ASSUME test_step' = 10 PROVE indexer_state' # {FALSE}
    <3>1. test_step = 9
      BY <1>1, <2>1, <2>3
    <3>2. mode = "fresh"
      BY <1>1, <3>1 DEF ModeInv, StartingUp
    <3> QED BY <2>1, <3>2, RecordedValue
  <2>4. ~Open'
    BY <1>1, <2>1 DEF Open
  <2> QED
    BY <1>1, <1>2, <2>1, <2>2, <2>3, <2>4
    DEF ModeInv, StartingUp, SwitchingMode, RecordedMode
<1>5. CASE SelfTestDone
  <2>1. /\ pc' = "set_schema" /\ test_step = 10 /\ test_step' = test_step
        /\ indexer_state' = indexer_state
    BY <1>5 DEF SelfTestDone, db
  <2>2. indexer_state' # {FALSE}
    BY <1>1, <2>1 DEF ModeInv, StartingUp
  <2> QED
    BY <1>1, <1>2, <2>1, <2>2 DEF ModeInv, StartingUp, SwitchingMode, RecordedMode
<1> QED BY <1>3, <1>4, <1>5

(* Opening the store puts the schema of its mode in place.                 *)
LEMMA OpenStoreModeInv == ASSUME ModeInv, OpenStore PROVE ModeInv'
<1>1. /\ pc = "set_schema" /\ pc' = "idle" /\ test_step' = 0
      /\ mode' = mode /\ schema' = mode /\ indexer_state' = indexer_state
  BY DEF OpenStore
<1>2. StartingUp'
  BY <1>1 DEF StartingUp
<1>3. SwitchingMode'
  BY <1>1 DEF SwitchingMode
<1>4. RecordedMode'
  BY <1>1 DEF ModeInv, RecordedMode
<1> QED BY <1>2, <1>3, <1>4 DEF ModeInv
-----------------------------------------------------------------------------
(* An open store: what concerns mode, schema and their record.             *)
OpenFrame ==
    /\ Open /\ Open'
    /\ indexer_state' = indexer_state
    /\ schema' = schema
    /\ mode' = mode

(* A step that leaves them alone keeps ModeInv, if it is careful where it  *)
(* goes.                                                                   *)
LEMMA OpenFrameModeInv ==
    ASSUME ModeInv, OpenFrame, test_step' = test_step,
           pc' = pc \/ pc' \in {"idle", "flush", "flush_below", "compare",
                               "finish_reorg", "set_mode"}
    PROVE  ModeInv'
<1>1. pc \notin {"down", "self_test", "set_schema"}
  BY DEF OpenFrame, Open
<1>2. pc' \notin {"down", "self_test", "set_schema"}
  BY DEF OpenFrame, Open
<1>3. StartingUp'
  BY <1>2 DEF ModeInv, StartingUp
<1>4. SwitchingMode'
  BY DEF ModeInv, SwitchingMode, OpenFrame
<1>5. RecordedMode'
  BY <1>1 DEF ModeInv, RecordedMode, OpenFrame
<1> QED BY <1>3, <1>4, <1>5 DEF ModeInv

(* Blocks come, are flushed and compared.                                  *)
LEMMA BlocksModeInv ==
    ASSUME ModeInv, Insert \/ FlushAtTip \/ FlushBelowTip \/ Compare \/ FinishReorg
    PROVE  ModeInv'
<1>1. ASSUME NEW b \in Block, InsertAtTip(b) \/ InsertBelowTip(b) \/ InsertInReorg(b)
      PROVE  ModeInv'
  <2>1. /\ pc = "idle" /\ indexer_state' = indexer_state /\ schema' = schema
        /\ mode' = mode /\ test_step' = test_step
    BY <1>1 DEF InsertAtTip, InsertBelowTip, InsertInReorg, Receive, db
  <2>2. pc' \in {"idle", "flush", "flush_below", "finish_reorg", "set_mode"}
    BY <1>1 DEF InsertAtTip, InsertBelowTip, InsertInReorg, AfterTip
  <2> QED BY <2>1, <2>2, OpenFrameModeInv DEF OpenFrame, Open
<1>2. CASE FlushAtTip
  <2>1. /\ pc = "flush" /\ indexer_state' = indexer_state /\ schema' = schema
        /\ mode' = mode /\ test_step' = test_step
    BY <1>2 DEF FlushAtTip, flushFrame, db
  <2>2. pc' \in {"idle", "set_mode"}
    BY <1>2 DEF FlushAtTip, AfterTip
  <2> QED BY <2>1, <2>2, OpenFrameModeInv DEF OpenFrame, Open
<1>3. CASE FlushBelowTip
  <2>1. /\ pc = "flush_below" /\ pc' = "compare"
        /\ indexer_state' = indexer_state /\ schema' = schema
        /\ mode' = mode /\ test_step' = test_step
    BY <1>3 DEF FlushBelowTip, flushFrame, db
  <2> QED BY <2>1, OpenFrameModeInv DEF OpenFrame, Open
<1>4. CASE Compare
  <2>1. /\ pc = "compare" /\ pc' = "idle"
        /\ indexer_state' = indexer_state /\ schema' = schema
        /\ mode' = mode /\ test_step' = test_step
    BY <1>4 DEF Compare, db
  <2> QED BY <2>1, OpenFrameModeInv DEF OpenFrame, Open
<1>5. CASE FinishReorg
  <2>1. /\ pc = "finish_reorg" /\ pc' = "idle"
        /\ indexer_state' = indexer_state /\ schema' = schema
        /\ mode' = mode /\ test_step' = test_step
    BY <1>5 DEF FinishReorg
  <2> QED BY <2>1, OpenFrameModeInv DEF OpenFrame, Open
<1> QED BY <1>1, <1>2, <1>3, <1>4, <1>5 DEF Insert

(* set_mode: memory first, then the schema, then the record.               *)
LEMMA SwitchModeInv ==
    ASSUME ModeInv,
           SetMode \/ CheckInFlight \/ RestartWorkers \/ EnterNormal \/ SaveMode
    PROVE  ModeInv'
<1>1. pc \in {"set_mode", "check_in_flight", "restart_workers", "enter_normal", "save_mode"}
  BY DEF SetMode, CheckInFlight, RestartWorkers, EnterNormal, SaveMode
<1>2. pc' \in {"check_in_flight", "restart_workers", "enter_normal", "save_mode", "idle"}
  BY DEF SetMode, CheckInFlight, RestartWorkers, EnterNormal, SaveMode
<1>3. test_step' = test_step
  BY DEF SetMode, CheckInFlight, RestartWorkers, EnterNormal, SaveMode, flushFrame
<1>4. StartingUp'
  BY <1>2, <1>3 DEF ModeInv, StartingUp
<1>5. mode' = "normal"
  BY DEF ModeInv, SwitchingMode, SetMode, CheckInFlight, RestartWorkers,
    EnterNormal, SaveMode, memory
<1>6. pc' = "save_mode" => schema' = "normal"
  BY DEF SetMode, CheckInFlight, RestartWorkers, EnterNormal, SaveMode
<1>7. SwitchingMode'
  BY <1>5, <1>6 DEF SwitchingMode
<1>8. indexer_state' = {FALSE} => schema' = "normal"
  <2>1. CASE SaveMode
    BY <2>1 DEF SaveMode, ModeInv, SwitchingMode
  <2>2. CASE EnterNormal
    BY <2>2 DEF EnterNormal
  <2>3. CASE SetMode \/ CheckInFlight \/ RestartWorkers
    <3>1. indexer_state' = indexer_state /\ schema' = schema
      BY <2>3 DEF SetMode, CheckInFlight, RestartWorkers, flushFrame, db
    <3> QED BY <1>1, <3>1 DEF ModeInv, RecordedMode, Open
  <2> QED BY <2>1, <2>2, <2>3
<1>9. RecordedMode'
  BY <1>5, <1>8 DEF RecordedMode
<1> QED BY <1>4, <1>7, <1>9 DEF ModeInv

(* The threads of the pipeline, which is there only while the store is     *)
(* open, change neither mode nor schema.                                   *)
LEMMA PipelineModeInv == ASSUME ModeInv, PipelineStep PROVE ModeInv'
<1>1. /\ indexer_state' = indexer_state /\ schema' = schema /\ mode' = mode
      /\ pc' = pc /\ test_step' = test_step
  BY DEF PipelineStep, PassToFmt, PassToWriter, WriterCommit, WriterDone, WriterFails,
    WriterDisconnected, WriterDies, FmtDies, UtxoDies, pipelineFrame
<1>2. pipeline # NoPipeline
  <2>1. /\ NoPipeline.utxo = <<>> /\ NoPipeline.fmt = <<>>
        /\ NoPipeline.writer = <<>> /\ NoPipeline.written = <<>>
    BY DEF NoPipeline, NewPipeline
  <2> QED
    BY <2>1 DEF PipelineStep, PassToFmt, PassToWriter, WriterCommit, WriterDone,
      WriterFails, WriterDisconnected, FmtDies, UtxoDies
<1>3. Open
  BY <1>2 DEF ModeInv, StartingUp, Open
<1> QED BY <1>1, <1>3, OpenFrameModeInv DEF OpenFrame, Open

(* A wipe takes the record of the mode back, with everything else.         *)
LEMMA WipeModeInv == ASSUME ModeInv, Wipe PROVE ModeInv'
<1>1. /\ pc = "down" /\ pc' = "down" /\ test_step' = test_step
      /\ pipeline' = pipeline /\ indexer_state' = {}
  BY DEF Wipe, memory
<1>2. indexer_state' # {FALSE}
  <2>1. FALSE \in {FALSE} /\ FALSE \notin {}
    OBVIOUS
  <2> QED BY <1>1, <2>1
<1>3. NoPipeline' = NoPipeline
  BY DEF NoPipeline, NewPipeline
<1>4. StartingUp'
  BY <1>1, <1>3 DEF ModeInv, StartingUp
<1> QED BY <1>1, <1>2, <1>4 DEF ModeInv, SwitchingMode, RecordedMode

(* Every step of the indexer keeps ModeInv.                                *)
LEMMA NextModeInv == ASSUME ModeInv, Next PROVE ModeInv'
<1>1. CASE Start
  BY <1>1, StartModeInv
<1>2. CASE SelfTestSchema \/ SelfTestState \/ SelfTestDone
  BY <1>2, SelfTestModeInv
<1>3. CASE OpenStore
  BY <1>3, OpenStoreModeInv
<1>4. CASE Insert \/ FlushAtTip \/ FlushBelowTip \/ Compare \/ FinishReorg
  BY <1>4, BlocksModeInv
<1>5. CASE SetMode \/ CheckInFlight \/ RestartWorkers \/ EnterNormal \/ SaveMode
  BY <1>5, SwitchModeInv
<1>6. CASE PipelineStep
  BY <1>6, PipelineModeInv
<1>7. CASE Crash \/ OpenFails \/ PipelineGone \/ FinishReorgFails \/ EnterNormalFails
  BY <1>7, ForgetModeInv
  DEF Crash, OpenFails, PipelineGone, FinishReorgFails, EnterNormalFails, ExitWithError
<1>8. CASE Wipe
  BY <1>8, WipeModeInv
<1> QED
  BY <1>1, <1>2, <1>3, <1>4, <1>5, <1>6, <1>7, <1>8 DEF Next, MainStep
-----------------------------------------------------------------------------
(* The mempool indexer writes to none of the indexer's variables that      *)
(* ModeInv is about.                                                       *)
LEMMA FrameModeInv ==
    ASSUME ModeInv, UNCHANGED <<block, indexer_state, schema, memory, pc, test_step>>
    PROVE  ModeInv'
<1>1. /\ Rows' = Rows /\ indexer_state' = indexer_state /\ schema' = schema
      /\ pc' = pc /\ test_step' = test_step /\ mode' = mode /\ pipeline' = pipeline
  BY DEF memory, Rows
<1>2. NoPipeline' = NoPipeline
  BY DEF NoPipeline, NewPipeline
<1>3. Open' = Open
  BY <1>1 DEF Open
<1> QED
  BY <1>1, <1>2, <1>3 DEF ModeInv, StartingUp, SwitchingMode, RecordedMode

(* No step of the indexer takes back what the mempool indexer has read,    *)
(* but for the wipe.                                                       *)
LEMMA NextStillNormal ==
    ASSUME ModeInv, Start \/ MainStep \/ Insert \/ PipelineStep \/ Crash,
           Rows # {}, indexer_state = {FALSE}
    PROVE  Rows' # {} /\ indexer_state' = {FALSE}
<1>1. CASE Start
  BY <1>1, RowsStay, RecordedValue DEF Start
<1>2. CASE SelfTestSchema \/ SelfTestState \/ SelfTestDone
  BY <1>2 DEF SelfTestSchema, SelfTestState, SelfTestDone, ModeInv, StartingUp
<1>3. CASE Insert
  BY <1>3, RowsStay DEF Insert, InsertAtTip, InsertBelowTip, InsertInReorg, Receive, db
<1>4. CASE SaveMode
  BY <1>4, RowsStay DEF SaveMode
<1>5. CASE PipelineStep
  <2>1. indexer_state' = indexer_state /\ (WriterCommit \/ UNCHANGED block)
    BY <1>5 DEF PipelineStep, PassToFmt, PassToWriter, WriterDone, WriterFails,
      WriterDisconnected, WriterDies, FmtDies, UtxoDies, WriterCommit, pipelineFrame
  <2> QED BY <2>1, RowsStay
<1>6. CASE Crash \/ OpenFails \/ PipelineGone \/ FinishReorgFails \/ EnterNormalFails
  BY <1>6, RowsStay
  DEF Crash, OpenFails, PipelineGone, FinishReorgFails, EnterNormalFails, ExitWithError, db
<1>7. CASE OpenStore \/ FlushAtTip \/ FlushBelowTip \/ Compare \/ FinishReorg
  BY <1>7, RowsStay
  DEF OpenStore, FlushAtTip, FlushBelowTip, Compare, FinishReorg, flushFrame, db
<1>8. CASE SetMode \/ CheckInFlight \/ RestartWorkers \/ EnterNormal
  BY <1>8, RowsStay DEF SetMode, CheckInFlight, RestartWorkers, EnterNormal, flushFrame, db
<1> QED
  BY <1>1, <1>2, <1>3, <1>4, <1>5, <1>6, <1>7, <1>8 DEF MainStep

(* Both invariants hold after every step of either process.                *)
LEMMA MNextInv ==
    ASSUME ModeInv, StillNormal, [MNext]_mvars
    PROVE  ModeInv' /\ StillNormal'
<1>1. CASE CommitBlocks
  <2>1. MainStep \/ PipelineStep
    BY <1>1 DEF CommitBlocks, MainStep, PipelineStep
  <2>2. Next
    BY <2>1 DEF Next
  <2>3. step' = step
    BY <1>1 DEF CommitBlocks, mempoolIndexer
  <2>4. step # "down" => Rows' # {} /\ indexer_state' = {FALSE}
    BY <2>1, NextStillNormal DEF StillNormal
  <2> QED BY <2>2, <2>3, <2>4, NextModeInv DEF StillNormal
<1>2. CASE OtherStoreStep
  <2>1. Start \/ MainStep \/ Insert \/ PipelineStep \/ Crash
    BY <1>2 DEF OtherStoreStep, MainStep, PipelineStep
  <2>2. Next
    BY <2>1 DEF Next
  <2>3. step' = step
    BY <1>2 DEF OtherStoreStep, mempoolIndexer
  <2>4. step # "down" => Rows' # {} /\ indexer_state' = {FALSE}
    BY <2>1, NextStillNormal DEF StillNormal
  <2> QED BY <2>2, <2>3, <2>4, NextModeInv DEF StillNormal
<1>3. CASE WipeAll
  <2>1. Wipe /\ step = "down" /\ step' = "down"
    BY <1>3 DEF WipeAll, mempoolIndexer
  <2> QED BY <2>1, WipeModeInv DEF StillNormal
<1>4. CASE MempoolStart
  <2>1. /\ Rows # {} /\ indexer_state = {FALSE}
        /\ UNCHANGED <<block, indexer_state, schema, memory, pc, test_step>>
    BY <1>4 DEF MempoolStart, ModeAllows, StoredMode, indexerFrame
  <2>2. Rows' # {}
    BY <2>1, RowsStay
  <2> QED BY <2>1, <2>2, FrameModeInv DEF StillNormal
<1>5. CASE MempoolStep
  <2>1. UNCHANGED <<block, indexer_state, schema, memory, pc, test_step>>
    BY <1>5 DEF MempoolStep, Scan, ScanEnds, FetchTx, FetchFails, Lookup, InsertTx,
      InsertOutputs, InsertInputs, StatementFails, indexerFrame
  <2>2. step # "down"
    BY <1>5 DEF MempoolStep, Scan, ScanEnds, FetchTx, FetchFails, Lookup, InsertTx,
      InsertOutputs, InsertInputs, StatementFails
  <2>3. Rows # {} => Rows' # {}
    BY <2>1, RowsStay
  <2> QED BY <2>1, <2>2, <2>3, FrameModeInv DEF StillNormal
<1>6. CASE MempoolChange \/ LoseConnection \/ MempoolCrash \/ UNCHANGED mvars
  <2>1. UNCHANGED <<block, indexer_state, schema, memory, pc, test_step>>
    BY <1>6 DEF MempoolChange, LoseConnection, MempoolCrash, indexerFrame, mvars, vars,
      memory
  <2>2. step' = step \/ step' = "down"
    BY <1>6 DEF MempoolChange, LoseConnection, MempoolCrash, mvars, mempoolIndexer
  <2>3. Rows # {} => Rows' # {}
    BY <2>1, RowsStay
  <2> QED BY <2>1, <2>2, <2>3, FrameModeInv DEF StillNormal
<1> QED BY <1>1, <1>2, <1>3, <1>4, <1>5, <1>6 DEF MNext

(* MempoolStore::new checks the mode once and then inserts in normal mode: *)
(* the keys its ON CONFLICT DO NOTHING needs are there at every later      *)
(* moment, whatever the indexer does in between.                           *)
THEOREM KeysThere == MSpec => []KeysThereForMempool
<1>1. MInit => ModeInv /\ StillNormal
  BY InitModeInv DEF MInit, StillNormal
<1>2. ModeInv /\ StillNormal /\ [MNext]_mvars => (ModeInv /\ StillNormal)'
  BY MNextInv
<1>3. ModeInv /\ StillNormal => KeysThereForMempool
  BY DEF ModeInv, RecordedMode, StillNormal, KeysThereForMempool
<1> QED BY <1>1, <1>2, <1>3, PTL DEF MSpec
-----------------------------------------------------------------------------
(* What the mempool indexer and the node do; the other steps are the       *)
(* indexer's, with the rows of output and input.                           *)
Unconfirmed == MempoolChange \/ MempoolStart \/ MempoolStep \/ LoseConnection \/ MempoolCrash

(* The mempool indexer writes to no table of blocks, and to tx in one      *)
(* statement only.                                                         *)
LEMMA UnconfirmedFrame ==
    ASSUME Unconfirmed
    PROVE  /\ UNCHANGED <<block, event, schema, indexer_state, memory, pc, block_arg,
                          test_step, feed>>
           /\ tx' = tx \/ InsertTx
           /\ faults' = faults \/ (faults < MaxFaults /\ faults' = faults + 1)
<1>1. CASE MempoolChange
  BY <1>1 DEF MempoolChange, vars, memory, feed
<1>2. CASE MempoolStart \/ LoseConnection \/ MempoolCrash
  BY <1>2 DEF MempoolStart, LoseConnection, MempoolCrash, indexerFrame
<1>3. CASE MempoolStep
  BY <1>3 DEF MempoolStep, Scan, ScanEnds, FetchTx, FetchFails, Lookup, InsertTx,
    InsertOutputs, InsertInputs, StatementFails, indexerFrame
<1> QED BY <1>1, <1>2, <1>3 DEF Unconfirmed

(* It inserts a row without a height, or none: where there was one it      *)
(* stays, and afterwards there is one.                                     *)
LEMMA InsertTxRows ==
    ASSUME Inv, MTypeOK, InsertTx
    PROVE  /\ tx' \in [Tx -> Seq(Nat \cup {NoHeight})]
           /\ current \in Tx /\ tx'[current] # <<>>
           /\ \A t \in Tx : t # current => tx'[t] = tx[t]
           /\ \A t \in Tx : tx[t] # <<>> => tx'[t] # <<>>
<1> DEFINE N == Nat \cup {NoHeight}
<1>1. current \in Tx /\ tx \in [Tx -> Seq(N)]
  BY DEF InsertTx, MTypeOK, Inv, TypeOK, DbTypeOK
<1>2. NoHeight \in N
  OBVIOUS
<1>3. ASSUME NEW rows \in Seq(N)
      PROVE  Append(rows, NoHeight) \in Seq(N) /\ Append(rows, NoHeight) # <<>>
  <2> HIDE DEF N
  <2>1. Append(rows, NoHeight) \in Seq(N) /\ Len(Append(rows, NoHeight)) = Len(rows) + 1
    BY <1>2, AppendProperties
  <2>2. Len(rows) \in Nat /\ Len(<<>>) = 0
    OBVIOUS
  <2> QED BY <2>1, <2>2
<1>4. ASSUME NEW rows \in Seq(N)
      PROVE  RowInserted(rows) \in Seq(N) /\ RowInserted(rows) # <<>>
  BY <1>3 DEF RowInserted
<1>5. tx' = [tx EXCEPT ![current] = RowInserted(tx[current])]
  BY DEF InsertTx
<1> HIDE DEF N
<1>6. tx[current] \in Seq(N)
  BY <1>1
<1>7. RowInserted(tx[current]) \in Seq(N) /\ RowInserted(tx[current]) # <<>>
  BY <1>4, <1>6
<1>8. tx' \in [Tx -> Seq(N)] /\ tx'[current] # <<>> /\ \A t \in Tx : t # current => tx'[t] = tx[t]
  BY <1>1, <1>5, <1>7
<1>9. \A t \in Tx : tx[t] # <<>> => tx'[t] # <<>>
  BY <1>8
<1> QED BY <1>1, <1>8, <1>9 DEF N

(* The indexer's invariant holds beside the mempool indexer.               *)
LEMMA MStoreInv == ASSUME Inv, MTypeOK, [MNext]_mvars PROVE Inv'
<1>1. CASE CommitBlocks \/ OtherStoreStep \/ WipeAll
  <2>1. Next
    BY <1>1 DEF CommitBlocks, OtherStoreStep, WipeAll, Next, MainStep, PipelineStep
  <2> QED BY <2>1, NextInv
<1>2. CASE UNCHANGED mvars
  BY <1>2, StutterInv DEF mvars
<1>3. CASE Unconfirmed
  <2>1. tx' \in [Tx -> Seq(Nat \cup {NoHeight})]
    BY <1>3, UnconfirmedFrame, InsertTxRows DEF Inv, TypeOK, DbTypeOK
  <2>2. faults \in 0..MaxFaults /\ MaxFaults \in Nat
    BY StoreAssumption DEF Inv, TypeOK, ControlTypeOK
  <2>3. faults' \in 0..MaxFaults
    BY <1>3, <2>2, UnconfirmedFrame
  <2> QED BY <1>3, <2>1, <2>3, UnconfirmedFrame, OutsideInv
<1> QED BY <1>1, <1>2, <1>3 DEF MNext, Unconfirmed

(* The mempool indexer's variables, after every step of either process.    *)
LEMMA MTypeInv == ASSUME MTypeOK, [MNext]_mvars PROVE MTypeOK'
<1>1. CASE CommitBlocks \/ OtherStoreStep \/ WipeAll \/ UNCHANGED mvars
  BY <1>1 DEF MTypeOK, CommitBlocks, OtherStoreStep, WipeAll, mvars, mempoolIndexer
<1>2. CASE MempoolChange
  BY <1>2 DEF MTypeOK, MempoolChange, mempoolIndexer
<1>3. CASE MempoolStart \/ LoseConnection \/ MempoolCrash
  BY <1>3 DEF MTypeOK, MempoolStart, LoseConnection, MempoolCrash
<1>4. CASE Scan \/ ScanEnds \/ StatementFails
  BY <1>4 DEF MTypeOK, Scan, ScanEnds, StatementFails
<1>5. CASE FetchTx
  BY <1>5 DEF MTypeOK, FetchTx
<1>6. CASE FetchFails
  BY <1>6 DEF MTypeOK, FetchFails
<1>7. CASE Lookup
  BY <1>7 DEF MTypeOK, Lookup
<1>8. CASE InsertTx \/ InsertOutputs \/ InsertInputs
  BY <1>8 DEF MTypeOK, InsertTx, NothingLeft, InsertOutputs, InsertInputs
<1> QED BY <1>1, <1>2, <1>3, <1>4, <1>5, <1>6, <1>7, <1>8 DEF MNext, MempoolStep
-----------------------------------------------------------------------------
(* The rows of tx after a batch: what is in it has one, and the others     *)
(* keep theirs.                                                            *)
LEMMA RowsAfterInsert ==
    ASSUME NEW rows \in [Tx -> Seq(Nat \cup {NoHeight})], NEW s \in Seq(Block), NEW m,
           NEW t \in Tx
    PROVE  /\ t \in TxsOf(s) => TxAfterInsert(rows, s, m)[t] # <<>>
           /\ t \notin TxsOf(s) => TxAfterInsert(rows, s, m)[t] = rows[t]
<1> DEFINE h == Height[CHOOSE b \in BlocksOf(s) : t \in Txs[b]]
           N == Nat \cup {NoHeight}
<1>1. CASE t \notin TxsOf(s)
  BY <1>1 DEF TxAfterInsert
<1>2. CASE t \in TxsOf(s)
  <2>1. TxAfterInsert(rows, s, m)[t] =
            IF ~IsBulk(m) /\ rows[t] # <<>> THEN <<h>> ELSE Append(rows[t], h)
    BY <1>2 DEF TxAfterInsert
  <2>2. h \in N
    <3>1. \E b \in BlocksOf(s) : t \in Txs[b]
      BY <1>2 DEF TxsOf
    <3>2. (CHOOSE b \in BlocksOf(s) : t \in Txs[b]) \in BlocksOf(s)
      BY <3>1
    <3>3. BlocksOf(s) \subseteq Block
      BY DEF BlocksOf
    <3> QED BY <3>2, <3>3, BlockTreeAssumption
  <2>3. rows[t] \in Seq(N)
    OBVIOUS
  <2> HIDE DEF h, N
  <2>4. Len(Append(rows[t], h)) = Len(rows[t]) + 1 /\ Len(rows[t]) \in Nat
    BY <2>2, <2>3, AppendProperties
  <2>5. Len(<<>>) = 0 /\ Len(<<h>>) = 1
    OBVIOUS
  <2>6. Append(rows[t], h) # <<>> /\ <<h>> # <<>>
    BY <2>4, <2>5
  <2> QED BY <1>2, <2>1, <2>6, Zenon
<1> QED BY <1>1, <1>2

(* A revived block's transactions lose their height, never their rows.     *)
LEMMA RowsAfterRevival ==
    ASSUME tx \in [Tx -> Seq(Nat \cup {NoHeight})], NEW t \in Tx
    PROVE  TxAfterRevival[t] = <<>> <=> tx[t] = <<>>
<1>1. DOMAIN TxAfterRevival[t] = DOMAIN tx[t] /\ TxAfterRevival[t] \in Seq(Nat \cup {NoHeight})
  BY TxAfterRevivalType DEF TxAfterRevival
<1>2. \A u \in Seq(Nat \cup {NoHeight}) : u = <<>> <=> DOMAIN u = {}
  <2> TAKE u \in Seq(Nat \cup {NoHeight})
  <2>1. DOMAIN u = 1..Len(u) /\ Len(u) \in Nat
    OBVIOUS
  <2>2. Len(u) # 0 => 1 \in DOMAIN u
    BY <2>1
  <2> QED BY <2>1, <2>2
<1>3. tx[t] \in Seq(Nat \cup {NoHeight})
  OBVIOUS
<1> QED BY <1>1, <1>2, <1>3

(* What both kinds of commit do with the rows of a batch s.                *)
Commits(s) ==
    /\ s \in Seq(Block)
    /\ IndexTxs(TxsOf(s))
    /\ Rows' = Rows \cup BlocksOf(s)
    /\ \A t \in Tx : t \in TxsOf(s) => tx'[t] # <<>>
    /\ \A t \in Tx : t \notin TxsOf(s) => (tx'[t] = <<>> <=> tx[t] = <<>>)
    /\ UNCHANGED <<mempool, mempoolIndexer, faults, indexer_state, schema>>

(* The blocks of a reorg that had no rows have them now, and no other.     *)
LEMMA ReorgRows ==
    ASSUME Inv, FinishReorg
    PROVE  Unindexed \in Seq(Block) /\ Rows' = Rows \cup BlocksOf(Unindexed)
<1> DEFINE k == FirstDifferentHeight
           d == stream
           n == Len(stream)
<1>1. PICK j \in k..Len(ActiveChain) :
            /\ Unindexed = SubSeq(d, j + 1, n)
            /\ \A i \in k + 1..j : d[i] \in Rows
  BY ArrivingInOrder DEF FinishReorg
<1>2. /\ k \in 0..Len(ActiveChain) /\ Len(ActiveChain) \in Nat
      /\ IsChain(d) /\ n = Len(ActiveChain) + 1 /\ Agree(ActiveChain, d, k)
  BY ReorgFacts DEF FinishReorg
<1> HIDE DEF k
<1>3. j \in 0..n /\ n \in j..n /\ j \in Nat /\ n \in Nat
  BY <1>2
<1>4. /\ Unindexed \in Seq(Block) /\ Len(Unindexed) = n - j
      /\ \A i \in 1..n - j : Unindexed[i] = d[j + i]
  BY <1>1, <1>2, <1>3, ByHeightOfSegment
<1>5. BlocksOf(Unindexed) = {d[i] : i \in j + 1..n}
  <2>1. BlocksOf(Unindexed) = {Unindexed[i] : i \in 1..n - j}
    <3>1. DOMAIN Unindexed = 1..Len(Unindexed)
      BY <1>4
    <3> QED BY <1>4, <3>1 DEF BlocksOf
  <2>2. ASSUME NEW i \in 1..n - j PROVE j + i \in j + 1..n /\ Unindexed[i] = d[j + i]
    BY <1>3, <1>4
  <2>3. ASSUME NEW i \in j + 1..n PROVE i - j \in 1..n - j /\ Unindexed[i - j] = d[i]
    <3>1. i - j \in 1..n - j /\ j + (i - j) = i
      BY <1>3
    <3> QED BY <1>4, <3>1
  <2> QED BY <2>1, <2>2, <2>3
<1>6. Rows' = Rows \cup BlocksOf(stream) /\ BlocksOf(stream) = {d[i] : i \in 1..n}
  <2>1. Rows' = Rows \cup BlocksOf(stream)
    BY ReorgCommitFacts
  <2>2. DOMAIN d = 1..n
    BY <1>2 DEF IsChain
  <2> QED BY <2>1, <2>2 DEF BlocksOf
<1>7. ASSUME NEW i \in 1..n, i <= j PROVE d[i] \in Rows
  <2>1. CASE i <= k
    <3>1. ActiveChain[i] = d[i] /\ i \in 1..Len(ActiveChain)
      BY <1>2, <2>1 DEF Agree
    <3>2. ActiveChain[i] \in BlocksOf(ActiveChain)
      BY <3>1, QueueTypes DEF BlocksOf
    <3> QED BY <3>1, <3>2 DEF Inv, RowsInv, Active, Rows
  <2>2. CASE ~(i <= k)
    BY <1>1, <1>2, <1>7, <2>2
  <2> QED BY <2>1, <2>2
<1>8. ASSUME NEW i \in 1..n, ~(i <= j) PROVE d[i] \in BlocksOf(Unindexed)
  BY <1>3, <1>5, <1>8
<1>9. BlocksOf(Unindexed) \subseteq BlocksOf(stream)
  BY <1>3, <1>5, <1>6
<1>10. BlocksOf(stream) \subseteq Rows \cup BlocksOf(Unindexed)
  BY <1>6, <1>7, <1>8
<1> QED BY <1>4, <1>6, <1>9, <1>10

(* Both kinds of commit, with the rows of outputs and inputs.              *)
LEMMA CommitsAre == ASSUME Inv, CommitBlocks PROVE \E s : Commits(s)
<1>0. tx \in [Tx -> Seq(Nat \cup {NoHeight})]
  BY DEF Inv, TypeOK, DbTypeOK
<1>1. CASE WriterCommit /\ IndexTxs(TxsOf(pipeline.writer))
  <2> DEFINE w == pipeline.writer
  <2>1. w \in Seq(Block)
    BY QueueTypes
  <2>2. /\ tx' = TxAfterInsert(tx, w, pipeline.mode)
        /\ UNCHANGED <<faults, indexer_state, schema>>
    BY <1>1 DEF WriterCommit, pipelineFrame
  <2>3. Rows' = Rows \cup BlocksOf(w)
    <3>1. BlocksOf(w) \subseteq Block
      BY <2>1 DEF BlocksOf
    <3>2. \A b \in Block : block'[b] = IF b \in BlocksOf(w) /\ block[b] = "none"
                                       THEN "active" ELSE block[b]
      BY <1>1 DEF WriterCommit
    <3> QED BY <3>1, <3>2 DEF Rows
  <2>4. UNCHANGED <<mempool, mempoolIndexer>>
    BY DEF CommitBlocks
  <2> HIDE DEF w
  <2>5. \A t \in Tx : /\ t \in TxsOf(w) => tx'[t] # <<>>
                      /\ t \notin TxsOf(w) => tx'[t] = tx[t]
    BY <1>0, <2>1, <2>2, RowsAfterInsert
  <2> QED BY <1>1, <2>1, <2>2, <2>3, <2>4, <2>5 DEF Commits, w
<1>2. CASE FinishReorg /\ IndexTxs(TxsOf(Unindexed))
  <2>1. Unindexed \in Seq(Block) /\ Rows' = Rows \cup BlocksOf(Unindexed)
    BY <1>2, ReorgRows
  <2>2. /\ tx' = TxAfterInsert(TxAfterRevival, Unindexed, mode)
        /\ UNCHANGED <<faults, indexer_state, schema>>
    BY <1>2 DEF FinishReorg
  <2>3. TxAfterRevival \in [Tx -> Seq(Nat \cup {NoHeight})]
    BY <1>0, TxAfterRevivalType
  <2>4. \A t \in Tx : /\ t \in TxsOf(Unindexed) => tx'[t] # <<>>
                      /\ t \notin TxsOf(Unindexed) => tx'[t] = TxAfterRevival[t]
    BY <2>1, <2>2, <2>3, RowsAfterInsert
  <2>5. \A t \in Tx : TxAfterRevival[t] = <<>> <=> tx[t] = <<>>
    BY <1>0, RowsAfterRevival
  <2>6. UNCHANGED <<mempool, mempoolIndexer>>
    BY DEF CommitBlocks
  <2>7. Commits(Unindexed)
    BY <1>2, <2>1, <2>2, <2>4, <2>5, <2>6 DEF Commits
  <2> QED BY <2>7
<1> QED BY <1>1, <1>2 DEF CommitBlocks
-----------------------------------------------------------------------------
(* Every other step of the indexer leaves the tables of the index alone.   *)
LEMMA OtherFrame ==
    ASSUME OtherStoreStep
    PROVE  /\ UNCHANGED <<block, tx, mempool, output, input, mempoolIndexer>>
           /\ Rows' = Rows /\ Active' = Active
           /\ faults' = faults \/ (faults < MaxFaults /\ faults' = faults + 1)
<1>1. UNCHANGED <<mempool, output, input, mempoolIndexer>>
  BY DEF OtherStoreStep
<1>2. CASE Start \/ Crash \/ OpenFails \/ PipelineGone \/ FinishReorgFails \/ EnterNormalFails
  BY <1>1, <1>2, SameRows DEF Start, Crash, OpenFails, PipelineGone, FinishReorgFails,
    EnterNormalFails, ExitWithError, db
<1>3. CASE Insert
  BY <1>1, <1>3, SameRows DEF Insert, InsertAtTip, InsertBelowTip, InsertInReorg, Receive, db
<1>4. CASE SelfTestSchema \/ SelfTestState \/ SelfTestDone \/ OpenStore
  BY <1>1, <1>4, SameRows DEF SelfTestSchema, SelfTestState, SelfTestDone, OpenStore, db
<1>5. CASE FlushAtTip \/ FlushBelowTip \/ Compare
  BY <1>1, <1>5, SameRows DEF FlushAtTip, FlushBelowTip, Compare, flushFrame, db
<1>6. CASE SetMode \/ CheckInFlight \/ RestartWorkers \/ EnterNormal \/ SaveMode
  BY <1>1, <1>6, SameRows DEF SetMode, CheckInFlight, RestartWorkers, EnterNormal, SaveMode,
    flushFrame, db
<1>7. CASE PassToFmt \/ PassToWriter \/ WriterDone
  BY <1>1, <1>7, SameRows DEF PassToFmt, PassToWriter, WriterDone
<1>8. CASE WriterFails \/ WriterDisconnected \/ FmtDies \/ UtxoDies
  BY <1>1, <1>8, SameRows DEF WriterFails, WriterDisconnected, WriterDies, FmtDies, UtxoDies
<1> QED BY <1>2, <1>3, <1>4, <1>5, <1>6, <1>7, <1>8 DEF OtherStoreStep

(* Any number of faults is at least none.                                  *)
LEMMA FaultsGrow ==
    ASSUME Inv, faults' = faults \/ (faults < MaxFaults /\ faults' = faults + 1)
    PROVE  /\ faults > 0 => faults' > 0
           /\ faults' = faults + 1 => faults' > 0
<1>1. faults \in Nat
  BY StoreAssumption DEF Inv, TypeOK, ControlTypeOK
<1> QED BY <1>1

(* A wipe empties the tables, with no program running.                     *)
LEMMA WipeTables ==
    ASSUME WipeAll
    PROVE  /\ Rows' = {} /\ Active' = {} /\ \A t \in Tx : tx'[t] = <<>>
           /\ output' = {} /\ input' = {} /\ faults' = faults
           /\ \A b \in Block : block'[b] = "none"
           /\ UNCHANGED mempoolIndexer /\ step = "down"
  BY DEF WipeAll, Wipe, Rows, Active

(* The transaction at hand goes through its three statements, and every    *)
(* commit of blocks only adds.                                             *)
LEMMA MInsertInv ==
    ASSUME Inv, MTypeOK, InsertInv, [MNext]_mvars
    PROVE  InsertInv'
<1>1. CASE CommitBlocks
  <2>1. PICK s : Commits(s)
    BY <1>1, CommitsAre
  <2>2. UNCHANGED <<mempoolIndexer, faults>> /\ output \subseteq output'
    BY <2>1 DEF Commits, IndexTxs
  <2>3. \A t \in Tx : tx[t] # <<>> => tx'[t] # <<>>
    BY <2>1 DEF Commits
  <2> QED BY <2>2, <2>3 DEF InsertInv, mempoolIndexer, MTypeOK
<1>2. CASE OtherStoreStep
  BY <1>2, OtherFrame, FaultsGrow DEF InsertInv, mempoolIndexer
<1>3. CASE WipeAll
  BY <1>3, WipeTables DEF InsertInv, mempoolIndexer
<1>4. CASE MempoolChange \/ UNCHANGED mvars
  BY <1>4 DEF MempoolChange, InsertInv, mvars, vars, mempoolIndexer
<1>5. CASE MempoolStart
  BY <1>5 DEF MempoolStart, InsertInv
<1>6. CASE Scan \/ ScanEnds \/ StatementFails
  BY <1>6 DEF Scan, ScanEnds, StatementFails, InsertInv
<1>7. CASE FetchTx \/ FetchFails \/ Lookup
  BY <1>7 DEF FetchTx, FetchFails, Lookup, InsertInv
<1>8. CASE InsertTx
  BY <1>8, InsertTxRows DEF InsertTx, NothingLeft, InsertInv
<1>9. CASE InsertOutputs \/ InsertInputs
  BY <1>9 DEF InsertOutputs, InsertInputs, InsertInv
<1>10. CASE LoseConnection \/ MempoolCrash
  <2>1. faults' > 0
    BY <1>10, FaultsGrow DEF LoseConnection, MempoolCrash
  <2> QED BY <1>10, <2>1 DEF LoseConnection, MempoolCrash, InsertInv
<1> QED BY <1>1, <1>2, <1>3, <1>4, <1>5, <1>6, <1>7, <1>8, <1>9, <1>10 DEF MNext, MempoolStep

(* Whoever inserts a row goes on to the end, or has met a fault; blocks    *)
(* bring all rows at once, and keep them when they leave.                  *)
LEMMA MCompleteInv ==
    ASSUME Inv, MTypeOK, InsertInv, CompleteInv, [MNext]_mvars
    PROVE  CompleteInv'
<1> USE DEF Complete
<1>1. CASE CommitBlocks
  <2>1. PICK s : Commits(s)
    BY <1>1, CommitsAre
  <2>2. /\ UNCHANGED <<done, skipped, current, step, faults>>
        /\ output' = output \cup TxsOf(s) /\ input' = input \cup TxsOf(s)
    BY <2>1 DEF Commits, IndexTxs, mempoolIndexer
  <2>3. \A t \in Tx : /\ t \in TxsOf(s) => tx'[t] # <<>>
                      /\ t \notin TxsOf(s) => (tx'[t] = <<>> <=> tx[t] = <<>>)
    BY <2>1 DEF Commits
  <2>4. \A t \in TxsOfRows' : t \in TxsOfRows \/ t \in TxsOf(s)
    BY <2>1 DEF Commits, TxsOfRows, TxsOf
  <2>5. \A t \in TxsOfRows' : t \in Tx
    BY StoreAssumption DEF TxsOfRows, Rows
  <2>6. \A t \in Tx : tx[t] # <<>> => tx'[t] # <<>>
    BY <2>3
  <2>7. \A t \in TxsOfRows' : tx'[t] # <<>> /\ t \in output' /\ t \in input'
    BY <2>2, <2>3, <2>4, <2>5, <2>6 DEF CompleteInv
  <2> QED BY <2>2, <2>3, <2>6, <2>7 DEF CompleteInv
<1>2. CASE OtherStoreStep
  BY <1>2, OtherFrame, FaultsGrow DEF CompleteInv, TxsOfRows, mempoolIndexer
<1>3. CASE WipeAll
  BY <1>3, WipeTables DEF CompleteInv, TxsOfRows, InsertInv, mempoolIndexer
<1>4. ASSUME UNCHANGED <<block, tx, output, input>>,
             faults > 0 => faults' > 0,
             \A t \in done' \ skipped' : t \in done \ skipped \/ Complete(t),
             \A t \in Tx : t = current /\ step \in {"output", "input"} /\ ~Complete(t) =>
                faults' > 0 \/ (t = current' /\ step' \in {"output", "input"})
      PROVE  CompleteInv'
  <2>1. TxsOfRows' = TxsOfRows
    BY <1>4, SameRows DEF TxsOfRows
  <2> QED BY <1>4, <2>1 DEF CompleteInv
<1>5. CASE MempoolChange \/ UNCHANGED mvars
  BY <1>4, <1>5 DEF MempoolChange, mvars, vars, mempoolIndexer
<1>6. CASE MempoolStart \/ Scan \/ ScanEnds \/ FetchTx \/ FetchFails \/ Lookup
  BY <1>4, <1>6 DEF MempoolStart, Scan, ScanEnds, FetchTx, FetchFails, Lookup, indexerFrame
<1>7. CASE StatementFails
  BY <1>4, <1>7 DEF StatementFails, InsertInv, indexerFrame
<1>8. CASE InsertTx
  <2>1. TxsOfRows' = TxsOfRows
    BY <1>8, SameRows DEF TxsOfRows, InsertTx, indexerFrame
  <2>2. \A t \in TxsOfRows : t \in Tx
    BY StoreAssumption DEF TxsOfRows, Rows
  <2>3. /\ UNCHANGED <<output, input, skipped, done, current, faults>>
        /\ step = "tx" /\ step' = "output"
    BY <1>8 DEF InsertTx, NothingLeft
  <2> QED BY <1>8, <2>1, <2>2, <2>3, InsertTxRows DEF CompleteInv
<1>9. CASE InsertOutputs \/ InsertInputs
  <2>1. TxsOfRows' = TxsOfRows
    BY <1>9, SameRows DEF TxsOfRows, InsertOutputs, InsertInputs, indexerFrame
  <2>2. CASE InsertOutputs
    BY <2>1, <2>2 DEF InsertOutputs, CompleteInv, InsertInv
  <2>3. CASE InsertInputs
    BY <2>1, <2>3 DEF InsertInputs, CompleteInv, InsertInv
  <2> QED BY <1>9, <2>2, <2>3
<1>10. CASE LoseConnection \/ MempoolCrash
  <2>1. faults' > 0
    BY <1>10, FaultsGrow DEF LoseConnection, MempoolCrash
  <2> QED BY <1>4, <1>10, <2>1 DEF LoseConnection, MempoolCrash, indexerFrame
<1> QED BY <1>1, <1>2, <1>3, <1>5, <1>6, <1>7, <1>8, <1>9, <1>10 DEF MNext, MempoolStep

(* Nothing is there at first.                                              *)
LEMMA MInitInv ==
    ASSUME MInit
    PROVE  Inv /\ MTypeOK /\ InsertInv /\ CompleteInv
<1>1. Inv
  BY InitInv DEF MInit
<1>2. MTypeOK /\ InsertInv
  BY DEF MInit, MTypeOK, InsertInv
<1>3. Rows = {} /\ \A t \in Tx : tx[t] = <<>>
  BY DEF MInit, Init, Rows
<1>4. CompleteInv
  BY <1>3 DEF MInit, CompleteInv, TxsOfRows, Complete
<1> QED BY <1>1, <1>2, <1>4

(* A transaction's rows are complete whenever a block has it or the        *)
(* mempool indexer has done it (pg.rs, MempoolStore::insert), unless       *)
(* something failed between its three statements; an input is never there  *)
(* without the outputs, nor these without the row in tx.                   *)
THEOREM RowsAreComplete == MSpec => []RowsComplete
<1> DEFINE I == Inv /\ MTypeOK /\ InsertInv /\ CompleteInv
<1>1. MInit => I
  BY MInitInv
<1>2. I /\ [MNext]_mvars => I'
  BY MStoreInv, MTypeInv, MInsertInv, MCompleteInv
<1>3. I => RowsComplete
  <2>1. \A t \in UNION {Txs[b] : b \in Active} : t \in TxsOfRows
    BY DEF TxsOfRows, Active, Rows
  <2> SUFFICES ASSUME I, NEW t \in Tx
               PROVE  /\ t \in input => t \in output
                      /\ t \in output => tx[t] # <<>>
                      /\ t \in done \ skipped => tx[t] # <<>> /\ Complete(t)
                      /\ tx[t] # <<>> =>
                          \/ Complete(t)
                          \/ /\ t \notin UNION {Txs[b] : b \in Active}
                             /\ faults > 0 \/ (t = current /\ step \in {"output", "input"})
    BY DEF RowsComplete
  <2> QED BY <2>1 DEF CompleteInv, Complete
<1> HIDE DEF I
<1> QED BY <1>1, <1>2, <1>3, PTL DEF MSpec
-----------------------------------------------------------------------------
(* The schema of an open store is that of its mode, except in the middle   *)
(* of the switch; a pipeline made for normal mode is there only after it.  *)
(* Nothing is handed to such a pipeline before the keys are built.         *)
LEMMA OpenSwitchInv ==
    ASSUME Inv, ModeInv, SwitchInv, OpenStore \/ Compare \/ FinishReorg
    PROVE  SwitchInv'
<1>1. /\ pc' = "idle" /\ mode' = mode /\ mode \in Mode
      /\ pipeline' = NewPipeline(mode) \/ pipeline' = NoPipeline
      /\ NoPipeline.mode = "none" /\ NewPipeline(mode).mode = mode
  BY DEF OpenStore, Compare, FinishReorg, NoPipeline, NewPipeline, Inv, TypeOK, MemoryTypeOK
<1>2. schema' = mode
  <2>1. CASE OpenStore
    BY <2>1 DEF OpenStore
  <2>2. CASE Compare \/ FinishReorg
    <3>1. pc \in {"compare", "finish_reorg"} /\ schema' = schema
      BY <2>2 DEF Compare, FinishReorg, db
    <3> QED BY <3>1 DEF SwitchInv, Open
  <2> QED BY <2>1, <2>2
<1> QED BY <1>1, <1>2 DEF SwitchInv, Mode

(* Blocks come and are handed to the pipeline there is.                    *)
LEMMA BlocksSwitchInv ==
    ASSUME Inv, ModeInv, SwitchInv, Insert \/ FlushAtTip \/ FlushBelowTip
    PROVE  SwitchInv'
<1>1. /\ mode' = mode /\ schema' = schema
      /\ pc \in {"idle", "flush", "flush_below"}
      /\ pc' \in {"idle", "flush", "flush_below", "compare", "finish_reorg", "set_mode"}
      /\ pc' = "set_mode" => mode # "normal"
  <2>1. CASE Insert
    BY <2>1 DEF Insert, InsertAtTip, InsertBelowTip, InsertInReorg, Receive, AfterTip, db
  <2>2. CASE FlushAtTip \/ FlushBelowTip
    BY <2>2 DEF FlushAtTip, FlushBelowTip, AfterTip, flushFrame, db
  <2> QED BY <2>1, <2>2
<1>2. pipeline'.mode = pipeline.mode
  BY DEF Insert, InsertAtTip, InsertBelowTip, InsertInReorg, Receive, FlushAtTip,
    FlushBelowTip, FlushBatch, Inv, TypeOK, PipelineTypeOK
<1> QED BY <1>1, <1>2 DEF SwitchInv, Open

(* The switch: the pipeline of the old mode may survive it, one of the new *)
(* mode begins empty.                                                      *)
LEMMA SetModeSwitchInv ==
    ASSUME Inv, ModeInv, SwitchInv,
           SetMode \/ CheckInFlight \/ RestartWorkers \/ EnterNormal \/ SaveMode
    PROVE  SwitchInv'
<1>1. CASE SetMode
  <2>1. mode' = "normal" /\ pc = "set_mode" /\ pc' = "check_in_flight"
    BY <1>1 DEF SetMode
  <2>2. pipeline'.mode = pipeline.mode
    BY <1>1 DEF SetMode, FlushBatch, Inv, TypeOK, PipelineTypeOK
  <2> QED BY <2>1, <2>2 DEF SwitchInv
<1>2. CASE CheckInFlight
  BY <1>2 DEF CheckInFlight, memory, SwitchInv, ModeInv, SwitchingMode, Open
<1>3. CASE RestartWorkers
  BY <1>3 DEF RestartWorkers, NewPipeline, SwitchInv, ModeInv, SwitchingMode
<1>4. CASE EnterNormal
  BY <1>4 DEF EnterNormal, memory, SwitchInv, ModeInv, SwitchingMode
<1>5. CASE SaveMode
  BY <1>5 DEF SaveMode, memory, SwitchInv, ModeInv, SwitchingMode, Open
<1> QED BY <1>1, <1>2, <1>3, <1>4, <1>5

(* The threads pass on what they were handed.                              *)
LEMMA ThreadsSwitchInv ==
    ASSUME Inv, ModeInv, SwitchInv, PipelineStep
    PROVE  SwitchInv'
<1>1. UNCHANGED <<mode, schema, pc>> /\ Open' = Open
  BY DEF PipelineStep, PassToFmt, PassToWriter, WriterCommit, WriterDone, WriterFails,
    WriterDisconnected, WriterDies, FmtDies, UtxoDies, pipelineFrame, Open
<1>2. /\ pipeline'.mode = pipeline.mode
      /\ pipeline'.utxo \in {pipeline.utxo, <<>>}
      /\ pipeline'.fmt \in {pipeline.utxo, pipeline.fmt, <<>>}
      /\ pipeline'.writer \in {pipeline.fmt, pipeline.writer, <<>>}
  BY DEF PipelineStep, PassToFmt, PassToWriter, WriterCommit, WriterDone, WriterFails,
    WriterDisconnected, WriterDies, FmtDies, UtxoDies, Inv, TypeOK, PipelineTypeOK
<1> QED BY <1>1, <1>2 DEF SwitchInv

(* Before the store is open, and after the process has gone.               *)
LEMMA ClosedSwitchInv ==
    ASSUME pc' \in {"down", "self_test", "set_schema"}, pipeline' = NoPipeline
    PROVE  SwitchInv'
<1>1. pipeline'.mode = "none" /\ ~Open'
  BY DEF NoPipeline, NewPipeline, Open
<1> QED BY <1>1 DEF SwitchInv

(* After every step of either process.                                     *)
LEMMA MSwitchInv ==
    ASSUME Inv, ModeInv, SwitchInv, [MNext]_mvars
    PROVE  SwitchInv'
<1>1. ASSUME Next PROVE SwitchInv'
  <2>1. CASE Start \/ SelfTestSchema \/ SelfTestState \/ SelfTestDone \/ Wipe
    <3>1. pc \in {"down", "self_test", "set_schema"} /\ pipeline' = pipeline
      BY <2>1 DEF Start, SelfTestSchema, SelfTestState, SelfTestDone, Wipe, memory
    <3>2. pc' \in {"down", "self_test", "set_schema"}
      BY <2>1 DEF Start, SelfTestSchema, SelfTestState, SelfTestDone, Wipe
    <3>3. pipeline = NoPipeline
      BY <3>1 DEF ModeInv, StartingUp
    <3> QED BY <3>1, <3>2, <3>3, ClosedSwitchInv
  <2>2. CASE Crash \/ OpenFails \/ PipelineGone \/ FinishReorgFails \/ EnterNormalFails
    BY <2>2, ClosedSwitchInv DEF Crash, OpenFails, PipelineGone, FinishReorgFails,
      EnterNormalFails, ExitWithError, Forget
  <2>3. CASE OpenStore \/ Compare \/ FinishReorg
    BY <2>3, OpenSwitchInv
  <2>4. CASE Insert \/ FlushAtTip \/ FlushBelowTip
    BY <2>4, BlocksSwitchInv
  <2>5. CASE SetMode \/ CheckInFlight \/ RestartWorkers \/ EnterNormal \/ SaveMode
    BY <2>5, SetModeSwitchInv
  <2>6. CASE PipelineStep
    BY <2>6, ThreadsSwitchInv
  <2> QED BY <1>1, <2>1, <2>2, <2>3, <2>4, <2>5, <2>6 DEF Next, MainStep
<1>2. CASE CommitBlocks \/ OtherStoreStep \/ WipeAll
  <2>1. Next
    BY <1>2 DEF CommitBlocks, OtherStoreStep, WipeAll, Next, MainStep, PipelineStep
  <2> QED BY <1>1, <2>1
<1>3. CASE Unconfirmed \/ UNCHANGED mvars
  <2>1. UNCHANGED <<mode, schema, pc, pipeline>>
    BY <1>3, UnconfirmedFrame DEF memory, mvars, vars
  <2> QED BY <2>1 DEF SwitchInv, Open
<1> QED BY <1>2, <1>3 DEF MNext, Unconfirmed
-----------------------------------------------------------------------------
(* Transactions without a block are inserted in normal mode only, and      *)
(* that mode lasts as long as their rows.                                  *)
LEMMA MUnconfirmedInv ==
    ASSUME Inv, ModeInv, StillNormal, MTypeOK, UnconfirmedInv, [MNext]_mvars
    PROVE  UnconfirmedInv'
<1> SUFFICES ASSUME NEW t \in Tx, tx'[t] # <<>>, t \notin TxsOfRows'
             PROVE  indexer_state' = {FALSE} /\ Rows' # {}
  BY DEF UnconfirmedInv
<1>1. CASE CommitBlocks
  <2>1. PICK s : Commits(s)
    BY <1>1, CommitsAre
  <2>2. t \notin TxsOfRows /\ t \notin TxsOf(s)
    BY <2>1 DEF Commits, TxsOfRows, TxsOf
  <2>3. tx[t] # <<>>
    BY <2>1, <2>2 DEF Commits
  <2> QED BY <2>1, <2>2, <2>3 DEF Commits, UnconfirmedInv
<1>2. CASE OtherStoreStep
  <2>1. tx[t] # <<>> /\ t \notin TxsOfRows
    BY <1>2, OtherFrame DEF TxsOfRows
  <2>2. Start \/ MainStep \/ Insert \/ PipelineStep \/ Crash
    BY <1>2 DEF OtherStoreStep, MainStep, PipelineStep
  <2> QED BY <2>1, <2>2, NextStillNormal DEF UnconfirmedInv
<1>3. CASE WipeAll
  BY <1>3, WipeTables
<1>4. CASE Unconfirmed \/ UNCHANGED mvars
  <2>1. UNCHANGED <<block, indexer_state>> /\ (tx' = tx \/ InsertTx)
    BY <1>4, UnconfirmedFrame DEF mvars, vars
  <2>2. Rows' = Rows /\ TxsOfRows' = TxsOfRows
    BY <2>1, SameRows DEF TxsOfRows
  <2>3. CASE tx' = tx
    BY <2>1, <2>2, <2>3 DEF UnconfirmedInv
  <2>4. CASE InsertTx
    BY <2>1, <2>2, <2>4 DEF InsertTx, StillNormal
  <2> QED BY <2>1, <2>3, <2>4
<1> QED BY <1>1, <1>2, <1>3, <1>4 DEF MNext, Unconfirmed

(* What each block of a chain has, no other block of it has: it is the     *)
(* chain the node reported with its top.                                   *)
LEMMA TxInOneBlock ==
    ASSUME NEW d, IsChain(d), NEW i \in 1..Len(d), NEW j \in 1..Len(d), NEW t,
           t \in Txs[d[i]], t \in Txs[d[j]]
    PROVE  d[i] = d[j]
<1> DEFINE n == Len(d)
<1>1. n \in Nat \ {0} /\ d[n] \in Block /\ n \in 1..n
  BY DEF IsChain
<1>2. PICK c \in Chains : \E m \in DOMAIN c : d[n] = c[m]
  BY <1>1, MempoolAssumption
<1>3. IsChain(c)
  BY BlockTreeAssumption
<1>4. PICK m \in DOMAIN c : d[n] = c[m]
  BY <1>2
<1>5. DOMAIN c = 1..Len(c) /\ Len(c) \in Nat
  BY <1>3 DEF IsChain
<1>6. m = n
  <2>1. Height[c[m]] = m - 1 /\ Height[d[n]] = n - 1
    BY <1>1, <1>3, <1>5 DEF IsChain
  <2> QED BY <1>1, <1>4, <1>5, <2>1
<1>7. n \in 1..Len(c) /\ d[n] = c[n]
  BY <1>4, <1>5, <1>6
<1>8. \A k \in 1..n : c[k] = d[k]
  BY <1>1, <1>3, <1>7, SameBelow
<1>9. i \in DOMAIN c /\ j \in DOMAIN c
  BY <1>1, <1>5, <1>7
<1>10. c[i] = d[i] /\ c[j] = d[j]
  BY <1>8
<1>11. i # j => Txs[c[i]] \cap Txs[c[j]] = {}
  BY <1>9, StoreAssumption
<1> QED BY <1>10, <1>11

(* A batch that the writer holds: none of its transactions is in an active *)
(* block.                                                                  *)
LEMMA WriterTxsAreNew ==
    ASSUME Inv, pipeline.writer # <<>>, NEW t \in TxsOf(pipeline.writer), NEW b \in Active
    PROVE  t \notin Txs[b]
<1> DEFINE w == pipeline.writer
           d == ActiveChain \o w
<1>1. PICK a \in BlocksOf(w) : t \in Txs[a]
  BY DEF TxsOf
<1>2. IsChain(d) /\ a \in BlocksOf(d) /\ b \in BlocksOf(d) /\ block[a] = "none"
  BY <1>1, WriterOnTop
<1>3. a # b
  BY <1>2 DEF Active
<1> HIDE DEF d
<1>4. BlocksOf(d) = {d[i] : i \in 1..Len(d)}
  <2>1. DOMAIN d = 1..Len(d)
    BY <1>2 DEF IsChain
  <2> QED BY <2>1 DEF BlocksOf
<1> QED BY <1>1, <1>2, <1>3, <1>4, TxInOneBlock

(* A batch meets a key only in a stale pipeline, or because a reorg in     *)
(* bulk mode has left the row of one of its transactions: never because of *)
(* the mempool indexer's rows in a pipeline made for the mode at hand      *)
(* (pg.rs, flush_workers and TxFormatter).                                 *)
THEOREM ConflictsAreStale == MSpec => []OnlyStalePipelineFails
<1> DEFINE I == /\ Inv /\ ModeInv /\ StillNormal /\ MTypeOK
                /\ SwitchInv /\ UnconfirmedInv
<1>1. MInit => I
  <2> SUFFICES ASSUME MInit PROVE I
    OBVIOUS
  <2>1. SwitchInv /\ UnconfirmedInv
    BY DEF MInit, Init, SwitchInv, UnconfirmedInv, Open, NoPipeline, NewPipeline
  <2> QED BY <2>1, MInitInv, InitModeInv DEF MInit, StillNormal
<1>2. I /\ [MNext]_mvars => I'
  BY MStoreInv, MTypeInv, MNextInv, MSwitchInv, MUnconfirmedInv
<1>3. I => OnlyStalePipelineFails
  <2> DEFINE w == pipeline.writer
             m == mode
  <2> SUFFICES ASSUME I, w # <<>>, InsertConflict(w, m), pipeline.mode = m
               PROVE  /\ m = "bulk"
                      /\ \E b \in Block : block[b] = "extinct" /\ Txs[b] \cap TxsOf(w) # {}
    BY DEF OnlyStalePipelineFails
  <2>1. Open /\ \A b \in BlocksOf(w) : b \in Block /\ block[b] = "none"
    BY WriterOnTop
  <2>2. m # "normal"
    <3>1. CASE m = "normal"
      <4>1. pc \notin {"check_in_flight", "restart_workers", "enter_normal"}
        BY <3>1 DEF SwitchInv
      <4>2. schema = "normal"
        BY <2>1, <3>1, <4>1 DEF SwitchInv
      <4> QED BY <3>1, <4>2 DEF InsertConflict, IsBulk
    <3> QED BY <3>1
  <2>3. schema = m /\ m \in Mode
    BY <2>1, <2>2 DEF SwitchInv, Inv, TypeOK, MemoryTypeOK
  <2>4. PICK t \in TxsOf(w) : tx[t] # <<>> /\ schema # "fresh"
    BY <2>1, <2>2 DEF InsertConflict, IsBulk
  <2>5. m = "bulk"
    BY <2>2, <2>3, <2>4 DEF Mode
  <2>6. t \in Tx
    BY <2>1, StoreAssumption DEF TxsOf
  <2>7. t \in TxsOfRows
    <3>1. indexer_state # {FALSE}
      BY <2>1, <2>2 DEF ModeInv, RecordedMode, Open
    <3> QED BY <2>4, <2>6, <3>1 DEF UnconfirmedInv
  <2>8. PICK b \in Rows : t \in Txs[b]
    BY <2>7 DEF TxsOfRows
  <2>9. b \notin Active
    BY <2>4, <2>8, WriterTxsAreNew
  <2>10. block[b] = "extinct" /\ b \in Block
    BY <2>8, <2>9 DEF Rows, Active, Inv, TypeOK, DbTypeOK
  <2> QED BY <2>4, <2>5, <2>8, <2>10
<1> HIDE DEF I
<1> QED BY <1>1, <1>2, <1>3, PTL DEF MSpec
-----------------------------------------------------------------------------
(* The rows of tx after a batch s on top of the index, if those in its way *)
(* can only be those of unconfirmed transactions: each has the height of   *)
(* the one block of the chain d that has its transaction.                  *)
LEMMA BatchHeights ==
    ASSUME NEW s \in Seq(Block), NEW m, NEW d, IsChain(d),
           tx \in [Tx -> Seq(Nat \cup {NoHeight})],
           tx' = TxAfterInsert(tx, s, m),
           BlocksOf(d) = Active \cup BlocksOf(s), Active' = BlocksOf(d),
           IsBulk(m) => \A t \in TxsOf(s) : tx[t] = <<>>,
           \A t \in Tx : HeightFits(t)
    PROVE  \A t \in Tx : HeightFits(t)'
<1> TAKE t \in Tx
<1>1. tx'[t] = IF t \notin TxsOf(s) THEN tx[t]
               ELSE LET h == Height[CHOOSE b \in BlocksOf(s) : t \in Txs[b]]
                    IN IF ~IsBulk(m) /\ tx[t] # <<>> THEN <<h>> ELSE Append(tx[t], h)
  BY DEF TxAfterInsert
<1>2. CASE t \notin TxsOf(s)
  <2>1. {a \in Active' : t \in Txs[a]} = {a \in Active : t \in Txs[a]}
    BY <1>2 DEF TxsOf
  <2>2. HeightsOf(t)' = HeightsOf(t)
    BY <2>1 DEF HeightsOf
  <2>3. tx'[t] = tx[t]
    BY <1>1, <1>2
  <2> QED BY <2>2, <2>3 DEF HeightFits
<1>3. CASE t \in TxsOf(s)
  <2> DEFINE a == CHOOSE b \in BlocksOf(s) : t \in Txs[b]
  <2>1. a \in BlocksOf(s) /\ t \in Txs[a]
    <3>1. \E b \in BlocksOf(s) : t \in Txs[b]
      BY <1>3 DEF TxsOf
    <3> QED BY <3>1
  <2>2. a \in Block /\ Height[a] \in Nat
    <3>1. BlocksOf(s) \subseteq Block
      BY DEF BlocksOf
    <3> HIDE DEF a
    <3> QED BY <2>1, <3>1, BlockTreeAssumption
  <2>3. tx'[t] = <<Height[a]>>
    <3>1. CASE tx[t] = <<>>
      <4>1. tx'[t] = Append(<<>>, Height[a])
        BY <1>1, <1>3, <3>1
      <4> HIDE DEF a
      <4> QED BY <4>1
    <3>2. CASE tx[t] # <<>>
      BY <1>1, <1>3, <3>2
    <3> QED BY <3>1, <3>2
  <2> HIDE DEF a
  <2>4. ASSUME NEW b \in Active', t \in Txs[b] PROVE b = a
    <3>1. BlocksOf(d) = {d[i] : i \in 1..Len(d)}
      <4>1. DOMAIN d = 1..Len(d)
        BY DEF IsChain
      <4> QED BY <4>1 DEF BlocksOf
    <3>2. a \in BlocksOf(d) /\ b \in BlocksOf(d)
      BY <2>1
    <3> QED BY <2>1, <2>4, <3>1, <3>2, TxInOneBlock
  <2>5. {b \in Active' : t \in Txs[b]} = {a}
    BY <2>1, <2>4
  <2>6. HeightsOf(t)' = {Height[a]}
    BY <2>5 DEF HeightsOf
  <2>7. \A i \in DOMAIN tx'[t] : tx'[t][i] = Height[a]
    BY <2>3
  <2>8. {Height[a]} \ {NoHeight} = {Height[a]}
    BY <2>2 DEF NoHeight
  <2> QED BY <2>6, <2>7, <2>8 DEF HeightFits
<1> QED BY <1>2, <1>3

(* With no reorg before, no row is in the way of a bulk insert that meets  *)
(* no key.                                                                 *)
LEMMA NoRowInTheWay ==
    ASSUME Inv, ModeInv, UnconfirmedInv, NoExtinct, NEW s, NEW m,
           \A t \in TxsOf(s) : t \in Tx,
           IsBulk(m), ~InsertConflict(s, m),
           \A t \in TxsOf(s) : \A b \in Active : t \notin Txs[b]
    PROVE  \A t \in TxsOf(s) : tx[t] = <<>>
<1> SUFFICES ASSUME NEW t \in TxsOf(s), tx[t] # <<>> PROVE FALSE
  OBVIOUS
<1>1. schema = "fresh" /\ t \in Tx
  BY DEF InsertConflict
<1>2. t \in TxsOfRows
  BY <1>1 DEF UnconfirmedInv, ModeInv, RecordedMode
<1>3. PICK b \in Rows : t \in Txs[b]
  BY <1>2 DEF TxsOfRows
<1>4. b \in Active
  BY DEF NoExtinct, Rows, Active, Inv, TypeOK, DbTypeOK
<1> QED BY <1>3, <1>4

(* The writer's batch.                                                     *)
LEMMA CommitHeights ==
    ASSUME Inv, ModeInv, UnconfirmedInv, HeightsInv, WriterCommit
    PROVE  HeightsInv'
<1> DEFINE w == pipeline.writer
           m == pipeline.mode
           d == ActiveChain \o w
<1> SUFFICES ASSUME NoExtinct' PROVE \A t \in Tx : HeightFits(t)'
  BY DEF HeightsInv
<1>1. NoExtinct
  BY DEF NoExtinct, WriterCommit
<1>2. w # <<>> /\ ~InsertConflict(w, m) /\ tx' = TxAfterInsert(tx, w, m)
  BY DEF WriterCommit
<1>3. /\ w \in Seq(Block) /\ IsChain(d) /\ BlocksOf(d) = Active \cup BlocksOf(w)
      /\ Active' = BlocksOf(d)
  BY CommitFacts, <1>2, WriterOnTop
<1>4. tx \in [Tx -> Seq(Nat \cup {NoHeight})]
  BY DEF Inv, TypeOK, DbTypeOK
<1>5. \A t \in TxsOf(w) : t \in Tx
  BY <1>2, WriterOnTop, StoreAssumption DEF TxsOf
<1>6. \A t \in TxsOf(w) : \A b \in Active : t \notin Txs[b]
  BY <1>2, WriterTxsAreNew
<1>7. \A t \in Tx : HeightFits(t)
  BY <1>1 DEF HeightsInv
<1> HIDE DEF w, m, d
<1>8. IsBulk(m) => \A t \in TxsOf(w) : tx[t] = <<>>
  BY <1>1, <1>2, <1>5, <1>6, NoRowInTheWay
<1> QED BY <1>2, <1>3, <1>4, <1>7, <1>8, BatchHeights

(* A reorg after which there is no extinct block: the caller's chain has   *)
(* grown by one block, and nothing has left or come back.                  *)
LEMMA ReorgOnTop ==
    ASSUME Inv, FinishReorg, NoExtinct'
    PROVE  /\ NoExtinct
           /\ TxAfterRevival = tx
           /\ \A b \in BlocksOf(Unindexed) : b \in Block /\ b \notin Rows
           /\ IsChain(stream) /\ BlocksOf(stream) = Active \cup BlocksOf(Unindexed)
           /\ Active' = BlocksOf(stream)
<1> DEFINE k == FirstDifferentHeight
           L == Len(ActiveChain)
           c == ActiveChain
           d == stream
<1>1. /\ k \in 0..L /\ L \in Nat /\ IsChain(d) /\ Len(d) = L + 1 /\ Agree(c, d, k)
      /\ k < L => c[k + 1] # d[k + 1]
      /\ LeavingRows = {c[i] : i \in k + 1..L} /\ ArrivingBlocks = {d[i] : i \in k + 1..L + 1}
  BY ReorgFacts DEF FinishReorg
<1>2. /\ \A i \in 1..L : c[i] \in Block /\ Height[c[i]] = i - 1
      /\ \A i \in 1..L + 1 : d[i] \in Block /\ Height[d[i]] = i - 1
      /\ Active = {c[i] : i \in 1..L} /\ BlocksOf(d) = {d[i] : i \in 1..L + 1}
  <2>1. IsChain(c) /\ BlocksOf(c) = Active
    BY DEF Inv, RowsInv
  <2>2. DOMAIN c = 1..L /\ DOMAIN d = 1..L + 1
    BY <1>1, <2>1 DEF IsChain
  <2>3. \A i \in 1..L : c[i] \in Block /\ Height[c[i]] = i - 1
    BY <2>1, <2>2 DEF IsChain
  <2>4. \A i \in 1..L + 1 : d[i] \in Block /\ Height[d[i]] = i - 1
    BY <1>1, <2>2 DEF IsChain
  <2>5. Active = {c[i] : i \in 1..L} /\ BlocksOf(d) = {d[i] : i \in 1..L + 1}
    BY <2>1, <2>2 DEF BlocksOf
  <2> QED BY <2>3, <2>4, <2>5
<1>3. \A b \in Block : block'[b] = IF b \in ArrivingBlocks THEN "active"
                                   ELSE IF b \in LeavingRows THEN "extinct" ELSE block[b]
  BY DEF FinishReorg
<1>4. PICK j \in k..L : /\ Revived = SubSeq(d, k + 1, j)
                        /\ Unindexed = SubSeq(d, j + 1, Len(d))
  BY ArrivingInOrder DEF FinishReorg
<1> HIDE DEF k, c, d, L
<1>5. k = L
  <2>1. CASE k < L
    <3>1. c[k + 1] \in LeavingRows /\ c[k + 1] \in Block /\ k + 1 \in 1..L
      BY <1>1, <1>2, <2>1
    <3>2. c[k + 1] \notin ArrivingBlocks
      <4>1. ASSUME NEW i \in k + 1..L + 1, c[k + 1] = d[i] PROVE FALSE
        <5>1. Height[c[k + 1]] = k /\ Height[d[i]] = i - 1
          BY <1>1, <1>2, <3>1
        <5> QED BY <1>1, <2>1, <4>1, <5>1
      <4> QED BY <1>1, <4>1
    <3>3. block'[c[k + 1]] = "extinct"
      BY <1>3, <3>1, <3>2
    <3> QED BY <3>1, <3>3 DEF NoExtinct
  <2> QED BY <1>1, <2>1
<1>6. ArrivingBlocks = {d[L + 1]} /\ LeavingRows = {} /\ Height[d[L + 1]] = L
  BY <1>1, <1>2, <1>5
<1>7. d[L + 1] \notin Rows /\ d[L + 1] \in Block
  <2>1. \A b \in Rows : Height[b] < L
    BY DEF Inv, RowsInv, L
  <2> QED BY <1>1, <1>2, <1>6, <2>1
<1>8. NoExtinct
  <2>1. ASSUME NEW e \in Block, block[e] = "extinct" PROVE FALSE
    <3>1. e \in Rows
      BY <2>1 DEF Rows
    <3>2. block'[e] = "extinct"
      BY <1>3, <1>6, <1>7, <2>1, <3>1
    <3> QED BY <3>2 DEF NoExtinct
  <2> QED BY <2>1 DEF NoExtinct
<1>9. Revived = <<>> /\ Unindexed = <<d[L + 1]>>
  <2>1. j = L /\ Len(d) = L + 1
    BY <1>1, <1>4, <1>5
  <2>2. SubSeq(d, L + 1, L) = <<>> /\ SubSeq(d, L + 1, L + 1) = <<d[L + 1]>>
    <3> DEFINE x == SubSeq(d, L + 1, L)
               y == SubSeq(d, L + 1, L + 1)
    <3>1. /\ IsChain(d) /\ L \in 0..Len(d) /\ L \in L..Len(d) /\ L + 1 \in L..Len(d)
      BY <1>1, <2>1
    <3>2. x \in Seq(Block) /\ Len(x) = L - L
      BY <3>1, ByHeightOfSegment
    <3>3. /\ y \in Seq(Block) /\ Len(y) = (L + 1) - L
          /\ \A i \in 1..(L + 1) - L : y[i] = d[L + i]
      BY <3>1, ByHeightOfSegment
    <3> HIDE DEF x, y
    <3>4. Len(x) = 0 /\ Len(y) = 1 /\ y[1] = d[L + 1]
      BY <1>1, <3>2, <3>3
    <3>5. x = <<>>
      BY <3>2, <3>4, EmptySeq
    <3>6. y = <<d[L + 1]>>
      <4> DEFINE e == d[L + 1]
      <4>1. e \in Block
        BY <1>7
      <4> HIDE DEF e
      <4>2. /\ <<e>> \in Seq(Block) /\ Len(<<e>>) = 1 /\ <<e>>[1] = e
        BY <4>1
      <4>3. \A i \in 1..Len(y) : y[i] = <<e>>[i]
        BY <3>4, <4>2 DEF e
      <4> QED BY <3>3, <3>4, <4>2, <4>3, SeqEqual DEF e
    <3> QED BY <3>5, <3>6 DEF x, y
  <2> QED BY <1>4, <1>5, <2>1, <2>2
<1>10. TxAfterRevival = tx
  <2>1. BlocksOf(Revived) = {}
    BY <1>9 DEF BlocksOf
  <2>2. tx \in [Tx -> Seq(Nat \cup {NoHeight})]
    BY DEF Inv, TypeOK, DbTypeOK
  <2>3. \A t \in Tx : [i \in DOMAIN tx[t] |-> tx[t][i]] = tx[t]
    <3> TAKE t \in Tx
    <3>1. tx[t] \in Seq(Nat \cup {NoHeight})
      BY <2>2
    <3> QED BY <3>1
  <2>4. TxAfterRevival = [t \in Tx |-> [i \in DOMAIN tx[t] |-> tx[t][i]]]
    BY <2>1 DEF TxAfterRevival
  <2> QED BY <2>2, <2>3, <2>4
<1>11. BlocksOf(Unindexed) = {d[L + 1]}
  BY <1>9 DEF BlocksOf
<1>12. BlocksOf(d) = Active \cup {d[L + 1]}
  <2>1. \A i \in 1..L : c[i] = d[i]
    BY <1>1, <1>5 DEF Agree
  <2> QED BY <1>1, <1>2, <2>1
<1>13. Active' = BlocksOf(stream)
  BY ReorgCommitFacts DEF RowsInv
<1> QED BY <1>1, <1>7, <1>8, <1>10, <1>11, <1>12, <1>13 DEF d

(* The blocks of a reorg.                                                  *)
LEMMA ReorgHeights ==
    ASSUME Inv, ModeInv, UnconfirmedInv, HeightsInv, FinishReorg
    PROVE  HeightsInv'
<1> DEFINE s == Unindexed
           d == stream
<1> SUFFICES ASSUME NoExtinct' PROVE \A t \in Tx : HeightFits(t)'
  BY DEF HeightsInv
<1>1. /\ NoExtinct /\ TxAfterRevival = tx
      /\ \A b \in BlocksOf(s) : b \in Block /\ b \notin Rows
      /\ IsChain(d) /\ BlocksOf(d) = Active \cup BlocksOf(s) /\ Active' = BlocksOf(d)
  BY ReorgOnTop
<1>2. ~InsertConflict(s, mode) /\ tx' = TxAfterInsert(tx, s, mode)
  BY <1>1 DEF FinishReorg
<1>3. s \in Seq(Block) /\ tx \in [Tx -> Seq(Nat \cup {NoHeight})]
  BY ReorgRows DEF Inv, TypeOK, DbTypeOK
<1>4. \A t \in TxsOf(s) : t \in Tx
  BY <1>1, StoreAssumption DEF TxsOf
<1> HIDE DEF s, d
<1>5. ASSUME NEW t \in TxsOf(s), NEW b \in Active PROVE t \notin Txs[b]
  <2>1. PICK a \in BlocksOf(s) : t \in Txs[a]
    BY DEF TxsOf
  <2>2. a # b
    BY <1>1, <2>1 DEF Active, Rows
  <2>3. BlocksOf(d) = {d[i] : i \in 1..Len(d)}
    <3>1. DOMAIN d = 1..Len(d)
      BY <1>1 DEF IsChain
    <3> QED BY <3>1 DEF BlocksOf
  <2> QED BY <1>1, <2>1, <2>2, <2>3, TxInOneBlock
<1>6. \A t \in Tx : HeightFits(t)
  BY <1>1 DEF HeightsInv
<1>7. IsBulk(mode) => \A t \in TxsOf(s) : tx[t] = <<>>
  BY <1>1, <1>2, <1>4, <1>5, NoRowInTheWay
<1> QED BY <1>1, <1>2, <1>3, <1>6, <1>7, BatchHeights

(* The mempool indexer adds a row only where there is none, so where no    *)
(* block has the transaction.                                              *)
LEMMA InsertTxHeights ==
    ASSUME Inv, ModeInv, StillNormal, MTypeOK, CompleteInv, HeightsInv, InsertTx
    PROVE  HeightsInv'
<1>1. schema = "normal" /\ UNCHANGED block /\ current \in Tx
  BY InsertTxRows DEF InsertTx, indexerFrame, ModeInv, RecordedMode, StillNormal
<1>2. Active' = Active
  BY <1>1, SameRows
<1>3. tx' = [tx EXCEPT ![current] = IF tx[current] # <<>> THEN tx[current]
                                    ELSE Append(tx[current], NoHeight)]
  BY <1>1 DEF InsertTx, RowInserted
<1>4. tx \in [Tx -> Seq(Nat \cup {NoHeight})]
  BY DEF Inv, TypeOK, DbTypeOK
<1> SUFFICES ASSUME NoExtinct', NEW t \in Tx PROVE HeightFits(t)'
  BY DEF HeightsInv
<1>5. HeightFits(t)
  BY <1>1 DEF HeightsInv, NoExtinct
<1>6. CASE tx'[t] = tx[t]
  BY <1>2, <1>5, <1>6 DEF HeightFits, HeightsOf
<1>7. CASE tx'[t] # tx[t]
  <2>1. t = current /\ tx[t] = <<>> /\ tx'[t] = <<NoHeight>>
    <3>1. t = current /\ tx[t] = <<>> /\ tx'[t] = Append(<<>>, NoHeight)
      BY <1>1, <1>3, <1>4, <1>7
    <3> QED BY <3>1
  <2>2. HeightsOf(t)' = {}
    <3>1. \A b \in Active : t \notin Txs[b]
      BY <2>1 DEF CompleteInv, TxsOfRows, Active, Rows
    <3> QED BY <1>2, <3>1 DEF HeightsOf
  <2> QED BY <2>1, <2>2 DEF HeightFits
<1> QED BY <1>6, <1>7

(* After every step of either process.                                     *)
LEMMA MHeightsInv ==
    ASSUME Inv, ModeInv, StillNormal, MTypeOK, CompleteInv, UnconfirmedInv, HeightsInv,
           [MNext]_mvars
    PROVE  HeightsInv'
<1>1. CASE CommitBlocks
  BY <1>1, CommitHeights, ReorgHeights DEF CommitBlocks
<1>2. CASE WipeAll
  BY <1>2, WipeTables DEF HeightsInv, HeightFits
<1>3. ASSUME UNCHANGED <<block, tx>> PROVE HeightsInv'
  <2>1. Active' = Active /\ NoExtinct' = NoExtinct
    BY <1>3, SameRows DEF NoExtinct
  <2> QED BY <1>3, <2>1 DEF HeightsInv, HeightFits, HeightsOf
<1>4. CASE OtherStoreStep
  BY <1>3, <1>4, OtherFrame
<1>5. CASE Unconfirmed \/ UNCHANGED mvars
  BY <1>3, <1>5, UnconfirmedFrame, InsertTxHeights DEF mvars, vars
<1> QED BY <1>1, <1>2, <1>4, <1>5 DEF MNext, Unconfirmed

(* Up to the first reorg the height in a transaction's row is that of the  *)
(* block that has it, and none while no block does, whichever of the two   *)
(* processes wrote the row first (pg.rs, TxFormatter).                     *)
THEOREM HeightsAreCoherent == MSpec => []HeightCoherentUntilReorg
<1> DEFINE I == /\ Inv /\ ModeInv /\ StillNormal /\ MTypeOK /\ InsertInv
                /\ CompleteInv /\ UnconfirmedInv /\ HeightsInv
<1>1. MInit => I
  <2> SUFFICES ASSUME MInit PROVE I
    OBVIOUS
  <2>1. \A t \in Tx : tx[t] = <<>>
    BY DEF MInit, Init
  <2>2. DOMAIN <<>> = {}
    OBVIOUS
  <2>3. HeightsInv /\ UnconfirmedInv
    BY <2>1, <2>2 DEF HeightsInv, HeightFits, UnconfirmedInv
  <2> QED BY <2>3, MInitInv, InitModeInv DEF MInit, StillNormal
<1>2. I /\ [MNext]_mvars => I'
  BY MStoreInv, MTypeInv, MNextInv, MInsertInv, MCompleteInv, MUnconfirmedInv, MHeightsInv
<1>3. I => HeightCoherentUntilReorg
  BY DEF HeightsInv, NoExtinct, HeightFits, HeightsOf, HeightCoherentUntilReorg,
    CurrentHeightCoherent
<1> HIDE DEF I
<1> QED BY <1>1, <1>2, <1>3, PTL DEF MSpec
=============================================================================
