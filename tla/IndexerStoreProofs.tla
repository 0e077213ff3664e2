------------------------- MODULE IndexerStoreProofs --------------------------
(***************************************************************************)
(* Safety of the indexer's store, for every block tree, every set of       *)
(* transactions, any depth of blocks fetched again and any number of       *)
(* crashes and lost connections.                                           *)
(*                                                                         *)
(* The invariants TLC checks speak of the moments at which the main thread *)
(* is idle, or compares, or finishes a reorg.  Inv says what holds between *)
(* them: what the rows are like, what the threads hold, and where exactly  *)
(* the caller's chain and the accepted one part.                           *)
(***************************************************************************)
EXTENDS IndexerStore, EventLogProofs

(* The rows of table block: the active ones are a chain, no row lies above *)
(* its top, and a row's parent has a row.                                  *)
RowsInv ==
    /\ IsChain(ActiveChain)
    /\ BlocksOf(ActiveChain) = Active
    /\ \A b \in Rows : Height[b] < Len(ActiveChain)
    /\ \A b \in Rows : Height[b] > 0 => Parent[b] \in Rows

(* Until the store is open it holds no blocks.                             *)
ClosedInv ==
    /\ ~Open => /\ batch = <<>> /\ pending_reorg = {} /\ in_flight = {}
                /\ pipeline = NoPipeline
    /\ pc \in {"self_test", "set_schema"} => chain_block_count = Len(ActiveChain)

(* in_flight is what the threads hold, until one of them dies with some.   *)
InPipeline ==
    BlocksOf(pipeline.utxo) \cup BlocksOf(pipeline.fmt)
        \cup BlocksOf(pipeline.writer) \cup BlocksOf(pipeline.written)

PipelineInv ==
    /\ InPipeline \subseteq in_flight
    /\ pipeline.dead = 0 => in_flight = InPipeline
    /\ pipeline.dead > 0 => pipeline.writer = <<>> /\ pipeline.written = <<>>
    /\ pipeline.writer = <<>> \/ pipeline.written = <<>>
    /\ BlocksOf(pipeline.written) \subseteq Active

(* Sequences s and t have the same first n elements.                       *)
Agree(s, t, n) == \A i \in 1..n : s[i] = t[i]

(* Where the caller's chain and the accepted one part: nowhere; above the  *)
(* block that is being compared; or above the lowest pending block.        *)
StreamInv ==
    Open /\ pipeline.dead = 0 /\ pending_reorg = {} =>
        IF pc \in {"flush_below", "compare"}
        THEN /\ Height[block_arg] < chain_block_count
             /\ Agree(stream, Accepted, Height[block_arg])
        ELSE /\ Len(stream) <= chain_block_count
             /\ Agree(stream, Accepted, Len(stream))

(* The block being compared is the top of the caller's chain.              *)
CompareInv ==
    /\ pc \in {"flush_below", "compare"} =>
        /\ block_arg \in Block
        /\ Len(stream) = Height[block_arg] + 1
        /\ stream[Len(stream)] = block_arg
    /\ pc = "compare" => batch = <<>>

ReorgInv ==
    /\ pending_reorg # {} => pc \in {"idle", "finish_reorg"}
    /\ pc = "finish_reorg" =>
        pending_reorg # {} /\ Len(stream) = chain_block_count + 1

Inv ==
    /\ TypeOK
    /\ RowsInv
    /\ ClosedInv
    /\ PipelineInv
    /\ AcceptedIsChain
    /\ StreamInv
    /\ CompareInv
    /\ ReorgInv
    /\ PendingReorgLinked
-----------------------------------------------------------------------------
(* Blocks of consecutive heights, in the order of their heights.           *)
LEMMA ByHeightOfSequence ==
    ASSUME NEW s \in Seq(Block), NEW low \in Int,
           \A i \in 1..Len(s) : Height[s[i]] = low + i - 1
    PROVE  ByHeight(BlocksOf(s)) = s
<1> DEFINE S == BlocksOf(s)
           n == Len(s)
           Ranked(b, i) ==
               /\ Cardinality({a \in S : Height[a] < Height[b]}) < i
               /\ i <= Cardinality({a \in S : Height[a] <= Height[b]})
<1>1. n \in Nat /\ s \in [1..n -> Block] /\ S = {s[i] : i \in 1..n}
  BY DEF BlocksOf
<1>2. \A i, j \in 1..n : s[i] = s[j] => i = j
  OBVIOUS
<1>3. Cardinality(S) = n
  <2>1. n \in 0..Len(s)
    BY <1>1
  <2> QED BY <1>1, <1>2, <2>1, CardinalityOfPrefix
<1>4. ASSUME NEW j \in 1..n, NEW i \in Int
      PROVE  Ranked(s[j], i) <=> i = j
  <2>0. \A k \in 1..n : /\ Height[s[k]] < Height[s[j]] <=> k \in 1..j - 1
                       /\ Height[s[k]] <= Height[s[j]] <=> k \in 1..j
    BY <1>1
  <2>1. {a \in S : Height[a] < Height[s[j]]} = {s[k] : k \in 1..j - 1}
    <3>1. \A a \in S : Height[a] < Height[s[j]] => \E k \in 1..j - 1 : a = s[k]
      BY <1>1, <2>0
    <3>2. \A k \in 1..j - 1 : s[k] \in S /\ Height[s[k]] < Height[s[j]]
      BY <1>1, <2>0
    <3> QED BY <3>1, <3>2
  <2>2. {a \in S : Height[a] <= Height[s[j]]} = {s[k] : k \in 1..j}
    <3>1. \A a \in S : Height[a] <= Height[s[j]] => \E k \in 1..j : a = s[k]
      BY <1>1, <2>0
    <3>2. \A k \in 1..j : s[k] \in S /\ Height[s[k]] <= Height[s[j]]
      BY <1>1, <2>0
    <3> QED BY <3>1, <3>2
  <2>3. j - 1 \in 0..Len(s) /\ j \in 0..Len(s) /\ j \in Int
    BY <1>1
  <2>4. Cardinality({s[k] : k \in 1..j - 1}) = j - 1
    BY <1>2, <2>3, CardinalityOfPrefix
  <2>5. Cardinality({s[k] : k \in 1..j}) = j
    BY <1>2, <2>3, CardinalityOfPrefix
  <2>6. Ranked(s[j], i) <=> j - 1 < i /\ i <= j
    BY <2>1, <2>2, <2>4, <2>5
  <2> QED BY <2>3, <2>6
<1> HIDE DEF Ranked
<1>5. ASSUME NEW i \in 1..n
      PROVE  (CHOOSE b \in S : Ranked(b, i)) = s[i]
  <2>1. i \in Int /\ s[i] \in S /\ Ranked(s[i], i)
    BY <1>1, <1>4
  <2>2. \A b \in S : Ranked(b, i) => b = s[i]
    BY <1>1, <1>4
  <2> QED BY <2>1, <2>2
<1>6. ByHeight(S) = [i \in 1..n |-> CHOOSE b \in S : Ranked(b, i)]
  BY <1>3 DEF ByHeight, Ranked
<1> HIDE DEF S
<1>7. ByHeight(S) = [i \in 1..n |-> s[i]]
  BY <1>5, <1>6
<1>8. [i \in 1..n |-> s[i]] = s
  BY <1>1
<1> QED BY <1>7, <1>8 DEF S

(* A set of blocks that is a chain: in the order of heights it is that one.*)
LEMMA ByHeightOfChain ==
    ASSUME NEW c, IsChain(c)
    PROVE  ByHeight(BlocksOf(c)) = c
<1>1. c \in Seq(Block) /\ 0 \in Int /\ \A i \in 1..Len(c) : Height[c[i]] = 0 + i - 1
  BY DEF IsChain
<1> QED BY <1>1, ByHeightOfSequence

(* The index of an empty database.                                         *)
LEMMA ByHeightOfNothing == ByHeight({}) = <<>> /\ IsChain(<<>>) /\ BlocksOf(<<>>) = {}
<1>1. IsChain(<<>>) /\ BlocksOf(<<>>) = {}
  BY DEF IsChain, BlocksOf
<1> QED BY <1>1, ByHeightOfChain

(* The whole queue is empty, or only the batch is not.                     *)
LEMMA NothingQueued ==
    ASSUME NEW c \in Seq(Block)
    PROVE  c \o (<<>> \o <<>> \o <<>> \o <<>>) = c
  BY ConcatEmptySeq, EmptySeq

(* As long as the table block stays as it is.                              *)
LEMMA SameRows ==
    ASSUME UNCHANGED block
    PROVE  /\ Active' = Active
           /\ Rows' = Rows
           /\ ActiveChain' = ActiveChain
           /\ RowsInv => RowsInv'
<1>1. Active' = Active /\ Rows' = Rows
  BY DEF Active, Rows
<1>2. ActiveChain' = ActiveChain
  BY <1>1 DEF ActiveChain, ByHeight
<1> QED BY <1>1, <1>2 DEF RowsInv

(* The index as a sequence, and its length as the queries have it.         *)
LEMMA IndexLength ==
    ASSUME RowsInv
    PROVE  /\ ActiveChain \in Seq(Block)
           /\ Len(ActiveChain) \in Nat
           /\ CountOf(Active) = Len(ActiveChain)
           /\ CountOf(Rows) = Len(ActiveChain)
<1> DEFINE n == Len(ActiveChain)
<1>1. /\ ActiveChain \in Seq(Block) /\ n \in Nat
      /\ Active = {ActiveChain[i] : i \in 1..n}
      /\ \A i \in 1..n : ActiveChain[i] \in Active /\ Height[ActiveChain[i]] = i - 1
  BY DEF RowsInv, IsChain, BlocksOf
<1>2. Active \subseteq Rows /\ \A b \in Rows : Height[b] \in Nat /\ Height[b] < n
  BY BlockTreeAssumption DEF RowsInv, Active, Rows
<1> HIDE DEF n
<1>3. ASSUME NEW S, Active \subseteq S, S \subseteq Rows
      PROVE  CountOf(S) = n
  <2>1. CASE n = 0
    BY <1>2, <1>3, <2>1 DEF CountOf
  <2>2. CASE n > 0
    <3> DEFINE H == {Height[b] : b \in S}
    <3>1. n \in 1..n /\ Height[ActiveChain[n]] = n - 1 /\ ActiveChain[n] \in S
      BY <1>1, <1>3, <2>2
    <3>2. n - 1 \in H /\ \A h \in H : h \in Int /\ h <= n - 1
      BY <1>1, <1>2, <1>3, <3>1
    <3> HIDE DEF H
    <3>3. Max(H) = n - 1
      BY <1>1, <3>2 DEF Max
    <3> QED BY <1>1, <3>1, <3>3 DEF CountOf, H
  <2> QED BY <1>1, <2>1, <2>2
<1> QED BY <1>1, <1>2, <1>3 DEF n
-----------------------------------------------------------------------------
(* Nothing is indexed at first.                                            *)
LEMMA InitInv == Init => Inv
<1> SUFFICES ASSUME Init PROVE Inv
  OBVIOUS
<1>1. RowsInv
  <2>1. Active = {} /\ Rows = {}
    BY DEF Init, Active, Rows
  <2> QED BY <2>1, ByHeightOfNothing DEF RowsInv, ActiveChain
<1>2. /\ pipeline.utxo = <<>> /\ pipeline.fmt = <<>> /\ pipeline.writer = <<>>
      /\ pipeline.written = <<>> /\ pipeline.dead = 0 /\ pipeline.mode = "none"
      /\ pipeline = NoPipeline
  BY DEF Init, NoPipeline, NewPipeline
<1>3. TypeOK
  BY StoreAssumption DEF Init, TypeOK, DbTypeOK, MemoryTypeOK, PipelineTypeOK,
      ControlTypeOK, FeedTypeOK, Mode, PC, IsChain, NoPipeline, NewPipeline
<1>4. PipelineInv
  BY <1>2 DEF Init, PipelineInv, InPipeline, BlocksOf
<1>5. ~Open /\ pc = "down" /\ pending_reorg = {}
  BY DEF Init, Open
<1> QED
  BY <1>1, <1>2, <1>3, <1>4, <1>5
  DEF Init, Inv, ClosedInv, AcceptedIsChain, StreamInv, CompareInv, ReorgInv,
      PendingReorgLinked

(* The process is gone, and the database is as it was.                     *)
LEMMA ForgetInv ==
    ASSUME Inv, Forget, UNCHANGED db, faults' \in 0..MaxFaults
    PROVE  Inv'
<1>1. RowsInv'
  BY SameRows DEF Inv, db
<1>2. /\ pipeline'.utxo = <<>> /\ pipeline'.fmt = <<>> /\ pipeline'.writer = <<>>
      /\ pipeline'.written = <<>> /\ pipeline'.dead = 0 /\ pipeline'.mode = "none"
      /\ pipeline' = NoPipeline /\ NoPipeline' = NoPipeline
  BY DEF Forget, NoPipeline, NewPipeline
<1>3. /\ pc' = "down" /\ batch' = <<>> /\ pending_reorg' = {} /\ in_flight' = {}
      /\ ~Open'
  BY DEF Forget, Open
<1>4. TypeOK'
  <2>1. PipelineTypeOK'
    BY <1>2 DEF PipelineTypeOK, NoPipeline, NewPipeline
  <2>2. FeedTypeOK'
    BY DEF Forget, FeedTypeOK, IsChain
  <2>3. DbTypeOK'
    BY DEF Inv, TypeOK, DbTypeOK, db
  <2>4. MemoryTypeOK'
    BY DEF Forget, MemoryTypeOK, Mode
  <2>5. ControlTypeOK'
    BY DEF Forget, ControlTypeOK, PC
  <2> QED BY <2>1, <2>2, <2>3, <2>4, <2>5 DEF TypeOK
<1>5. PipelineInv'
  BY <1>2, <1>3 DEF PipelineInv, InPipeline, BlocksOf
<1> QED
  BY <1>1, <1>2, <1>3, <1>4, <1>5
  DEF Inv, ClosedInv, AcceptedIsChain, StreamInv, CompareInv, ReorgInv,
      PendingReorgLinked

(* Before the store is open and after it has gone.                         *)
LEMMA ClosedStepInv ==
    ASSUME Inv, ~Open, ~Open', RowsInv', TypeOK',
           UNCHANGED <<batch, pending_reorg, in_flight, pipeline>>,
           BlocksOf(pipeline.written) \subseteq Active',
           pc' \in {"self_test", "set_schema"} => chain_block_count' = Len(ActiveChain')
    PROVE  Inv'
<1>1. /\ batch' = <<>> /\ pending_reorg' = {} /\ in_flight' = {}
      /\ pipeline' = NoPipeline /\ NoPipeline' = NoPipeline
  BY DEF Inv, ClosedInv, NoPipeline, NewPipeline
<1>2. ClosedInv'
  BY <1>1 DEF ClosedInv
<1>3. PipelineInv'
  BY DEF Inv, PipelineInv, InPipeline
<1>4. pc' \notin {"flush_below", "compare", "finish_reorg"}
  BY DEF Open
<1> QED
  BY <1>1, <1>2, <1>3, <1>4
  DEF Inv, AcceptedIsChain, StreamInv, CompareInv, ReorgInv, PendingReorgLinked
-----------------------------------------------------------------------------
(* A start reads the database, and changes none of the blocks' rows.       *)
LEMMA StartInv == ASSUME Inv, Start PROVE Inv'
<1>1. RowsInv' /\ ActiveChain' = ActiveChain /\ Active' = Active
  BY SameRows DEF Inv, Start
<1>2. chain_block_count' = Len(ActiveChain) /\ Len(ActiveChain) \in Nat
  BY IndexLength DEF Inv, Start
<1>3. node_chain_head_height' \in Nat
  <2>1. PICK c \in Chains : node_chain_head_height' = TipHeight(c)
    BY DEF Start
  <2> QED BY <2>1, ChainsAreChains DEF TipHeight
<1>4. mode' \in Mode
  BY DEF Start, StoredMode, Mode
<1>5. indexer_state' \in {{}, {TRUE}, {FALSE}}
  BY DEF Inv, TypeOK, DbTypeOK, Start
<1>6. TypeOK'
  BY <1>2, <1>3, <1>4, <1>5 DEF Inv, TypeOK, DbTypeOK, MemoryTypeOK, PipelineTypeOK,
      ControlTypeOK, FeedTypeOK, Start, feed, PC
<1>7. ~Open /\ ~Open'
  BY DEF Start, Open
<1>8. BlocksOf(pipeline.written) \subseteq Active'
  BY <1>1 DEF Inv, PipelineInv
<1> QED BY <1>1, <1>2, <1>6, <1>7, <1>8, ClosedStepInv DEF Start

(* The self test changes modes while nothing is queued.                    *)
LEMMA SelfTestInv ==
    ASSUME Inv, SelfTestSchema \/ SelfTestState \/ SelfTestDone
    PROVE  Inv'
<1>1. /\ pc = "self_test" /\ pc' \in {"self_test", "set_schema"}
      /\ UNCHANGED <<block, event, tx, node_chain_head_height, chain_block_count, batch,
                     pending_reorg, in_flight, pipeline, block_arg, stream, floor, faults>>
  BY DEF SelfTestSchema, SelfTestState, SelfTestDone, db, memory, feed
<1>2. RowsInv' /\ ActiveChain' = ActiveChain /\ Active' = Active
  BY <1>1, SameRows DEF Inv
<1>3. mode' \in Mode /\ schema' \in Mode /\ test_step' \in 0..10
  <2>1. CASE SelfTestSchema
    <3>1. test_step \in 0..10 /\ test_step < 10 /\ test_step \div 2 + 1 \in 1..5
      BY <2>1 DEF SelfTestSchema, Inv, TypeOK, ControlTypeOK
    <3>2. \A i \in 1..5 : SelfTestModes[i] \in Mode
      BY DEF SelfTestModes, Mode
    <3> QED BY <2>1, <3>1, <3>2 DEF SelfTestSchema
  <2>2. CASE SelfTestState
    BY <2>2 DEF SelfTestState, memory, Inv, TypeOK, MemoryTypeOK, DbTypeOK, ControlTypeOK
  <2>3. CASE SelfTestDone
    BY <2>3 DEF SelfTestDone, memory, db, Inv, TypeOK, MemoryTypeOK, DbTypeOK, ControlTypeOK
  <2> QED BY <2>1, <2>2, <2>3
<1>4. indexer_state' \in {{}, {TRUE}, {FALSE}}
  <2>1. IsBulk(mode) = TRUE \/ IsBulk(mode) = FALSE
    BY DEF IsBulk
  <2> QED BY <2>1 DEF SelfTestSchema, SelfTestState, SelfTestDone, db, Inv, TypeOK, DbTypeOK
<1>5. TypeOK'
  BY <1>1, <1>3, <1>4 DEF Inv, TypeOK, DbTypeOK, MemoryTypeOK, PipelineTypeOK,
      ControlTypeOK, FeedTypeOK, PC
<1>6. ~Open /\ ~Open'
  BY <1>1 DEF Open
<1>7. BlocksOf(pipeline.written) \subseteq Active'
  BY <1>2 DEF Inv, PipelineInv
<1>8. chain_block_count' = Len(ActiveChain')
  BY <1>1, <1>2 DEF Inv, ClosedInv
<1> QED BY <1>1, <1>2, <1>5, <1>6, <1>7, <1>8, ClosedStepInv

(* A wiped database is an index without blocks.                            *)
LEMMA WipeInv == ASSUME Inv, Wipe PROVE Inv'
<1>1. Active' = {} /\ Rows' = {}
  BY DEF Wipe, Active, Rows
<1>2. RowsInv'
  BY <1>1, ByHeightOfNothing DEF RowsInv, ActiveChain
<1>3. TypeOK'
  BY DEF Inv, TypeOK, DbTypeOK, MemoryTypeOK, PipelineTypeOK,
      ControlTypeOK, FeedTypeOK, Wipe, memory, feed, Mode
<1>4. ~Open /\ ~Open' /\ pc' = "down"
  BY DEF Wipe, Open
<1>5. pipeline.written = <<>> /\ BlocksOf(<<>>) = {}
  BY <1>4, ByHeightOfNothing DEF Inv, ClosedInv, NoPipeline, NewPipeline
<1> QED BY <1>1, <1>2, <1>3, <1>4, <1>5, ClosedStepInv DEF Wipe, memory

(* The height to start from is below the top of the index.                 *)
LEMMA OpenStoreInv == ASSUME Inv, OpenStore PROVE Inv'
<1>1. /\ RowsInv' /\ ActiveChain' = ActiveChain /\ Active' = Active
      /\ IsChain(ActiveChain) /\ ActiveChain \in Seq(Block)
      /\ chain_block_count = Len(ActiveChain) /\ Len(ActiveChain) \in Nat
  BY SameRows, IndexLength DEF Inv, OpenStore, RowsInv, ClosedInv
<1>2. /\ batch = <<>> /\ pending_reorg = {} /\ in_flight = {} /\ mode \in Mode
      /\ batch' = <<>> /\ pending_reorg' = {} /\ in_flight' = {} /\ pc' = "idle"
      /\ chain_block_count' = chain_block_count
  BY DEF OpenStore, Inv, ClosedInv, Open, TypeOK, MemoryTypeOK
<1>3. /\ StartFloor \in Nat \cup {-1} /\ StartFloor + 1 \in 0..Len(ActiveChain)
  BY <1>1, StoreAssumption DEF StartFloor
<1>4. /\ IsChain(stream') /\ Len(stream') = StartFloor + 1
      /\ stream' = SubSeq(ActiveChain, 1, StartFloor + 1)
  BY <1>1, <1>3, PrefixIsChain DEF OpenStore
<1>5. /\ pipeline'.utxo = <<>> /\ pipeline'.fmt = <<>> /\ pipeline'.writer = <<>>
      /\ pipeline'.written = <<>> /\ pipeline'.dead = 0
      /\ PipelineTypeOK'
  BY <1>2 DEF OpenStore, NewPipeline, PipelineTypeOK
<1>6. Accepted' = ActiveChain
  BY <1>1, <1>2, <1>5, NothingQueued DEF Accepted, Queued
<1>7. TypeOK'
  <2>1. FeedTypeOK'
    BY <1>3, <1>4 DEF OpenStore, FeedTypeOK
  <2>2. DbTypeOK'
    BY <1>2 DEF OpenStore, Inv, TypeOK, DbTypeOK
  <2>3. MemoryTypeOK'
    BY <1>2 DEF OpenStore, Inv, TypeOK, MemoryTypeOK
  <2>4. ControlTypeOK'
    BY <1>2 DEF OpenStore, Inv, TypeOK, ControlTypeOK, PC
  <2> QED BY <1>5, <2>1, <2>2, <2>3, <2>4 DEF TypeOK
<1>8. PipelineInv'
  BY <1>2, <1>5, ByHeightOfNothing DEF PipelineInv, InPipeline
<1>9. StreamInv'
  <2>1. \A i \in 1..Len(stream') : stream'[i] = ActiveChain[i]
    BY <1>1, <1>3, <1>4
  <2> QED BY <1>1, <1>2, <1>3, <1>4, <1>6, <2>1 DEF StreamInv, Agree
<1>10. Open'
  BY <1>2 DEF Open
<1> QED
  BY <1>1, <1>2, <1>6, <1>7, <1>8, <1>9, <1>10
  DEF Inv, ClosedInv, AcceptedIsChain, CompareInv, ReorgInv, PendingReorgLinked
-----------------------------------------------------------------------------
(* What is queued, and the chain it makes with the index.                  *)
LEMMA QueueTypes ==
    ASSUME Inv
    PROVE  /\ pipeline.utxo \in Seq(Block) /\ pipeline.fmt \in Seq(Block)
           /\ pipeline.writer \in Seq(Block) /\ pipeline.written \in Seq(Block)
           /\ pipeline.dead \in 0..3 /\ batch \in Seq(Block)
           /\ Queued \in Seq(Block)
           /\ ActiveChain \in Seq(Block)
           /\ Accepted \in Seq(Block)
<1>1. /\ pipeline.utxo \in Seq(Block) /\ pipeline.fmt \in Seq(Block)
      /\ pipeline.writer \in Seq(Block) /\ pipeline.written \in Seq(Block)
      /\ pipeline.dead \in 0..3 /\ batch \in Seq(Block)
  BY DEF Inv, TypeOK, PipelineTypeOK, MemoryTypeOK
<1>2. ActiveChain \in Seq(Block)
  BY DEF Inv, RowsInv, IsChain
<1>3. Queued \in Seq(Block)
  BY <1>1, ConcatProperties DEF Queued
<1> QED BY <1>1, <1>2, <1>3, ConcatProperties DEF Accepted

(* The steps of an open store outside a reorg that neither take a block    *)
(* nor finish a comparison move the accepted blocks along, if anything.    *)
LEMMA SameAcceptedInv ==
    ASSUME Inv, Open, Open', TypeOK', RowsInv', PipelineInv', CompareInv',
           pending_reorg = {}, pc' # "finish_reorg",
           UNCHANGED <<pending_reorg, chain_block_count, stream>>,
           pipeline'.dead = 0 => pipeline.dead = 0 /\ Accepted' = Accepted,
           \/ {pc, pc'} \cap {"flush_below", "compare"} = {}
           \/ /\ pc \in {"flush_below", "compare"} /\ pc' \in {"flush_below", "compare"}
              /\ block_arg' = block_arg
    PROVE  Inv'
<1>1. AcceptedIsChain'
  BY DEF Inv, AcceptedIsChain
<1>2. StreamInv'
  BY DEF Inv, StreamInv, Agree
<1>3. ClosedInv' /\ ReorgInv' /\ PendingReorgLinked'
  BY DEF ClosedInv, ReorgInv, PendingReorgLinked, Open
<1> QED BY <1>1, <1>2, <1>3 DEF Inv

(* What handing over a block does to the chain the caller holds.           *)
LEMMA DeliverFacts ==
    ASSUME Inv, NEW b \in Block, Receive(b)
    PROVE  /\ FeedTypeOK'
           /\ Height[b] \in Nat /\ Height[b] <= Len(stream) /\ Len(stream) \in Nat
           /\ Height[b] > 0 => Parent[b] = stream[Height[b]]
           /\ Len(stream') = Height[b] + 1
           /\ Agree(stream', stream, Height[b])
           /\ stream'[Height[b] + 1] = b
<1>1. IsChain(stream) /\ Len(stream) \in Nat /\ Height[b] \in Nat
  BY BlockTreeAssumption DEF Inv, TypeOK, FeedTypeOK, IsChain
<1>2. /\ Height[b] > floor \/ (Height[b] = 0 /\ floor = 0)
      /\ Height[b] \in 0..Len(stream)
      /\ Height[b] > 0 => Parent[b] = stream[Height[b]]
      /\ stream' = ChainInsert(stream, Height[b], b)
      /\ floor' = floor
  BY <1>1 DEF Receive, Source!Deliver, Source!ChainInsert, ChainInsert
<1>3. /\ IsChain(stream') /\ Len(stream') = Height[b] + 1
      /\ \A i \in 1..Height[b] : stream'[i] = stream[i]
      /\ stream'[Height[b] + 1] = b
  BY <1>1, <1>2, ChainInsertIsChain
<1>4. FeedTypeOK'
  BY <1>1, <1>2, <1>3 DEF Inv, TypeOK, FeedTypeOK
<1> QED BY <1>1, <1>2, <1>3, <1>4 DEF Agree

(* A block on top of everything accepted.                                  *)
LEMMA InsertAtTipInv == ASSUME Inv, NEW b \in Block, InsertAtTip(b) PROVE Inv'
<1>1. /\ FeedTypeOK' /\ Height[b] \in Nat /\ Height[b] <= Len(stream) /\ Len(stream) \in Nat
      /\ Height[b] > 0 => Parent[b] = stream[Height[b]]
      /\ Len(stream') = Height[b] + 1 /\ Agree(stream', stream, Height[b])
      /\ stream'[Height[b] + 1] = b
  BY DeliverFacts DEF InsertAtTip
<1>2. /\ pc = "idle" /\ pending_reorg = {} /\ pending_reorg' = {} /\ Open
      /\ Height[b] = chain_block_count /\ chain_block_count' = chain_block_count + 1
      /\ batch' = Append(batch, b)
      /\ UNCHANGED <<block, event, tx, schema, indexer_state, mode, node_chain_head_height,
                     in_flight, pipeline, test_step, faults>>
      /\ pc' \in {"flush", "idle", "set_mode"} /\ block_arg' \in {b, NoBlock}
  BY DEF InsertAtTip, Receive, Open, AfterTip, db
<1>3. TypeOK'
  <2>1. DbTypeOK' /\ PipelineTypeOK'
    BY <1>2 DEF Inv, TypeOK, DbTypeOK, PipelineTypeOK
  <2>2. MemoryTypeOK'
    BY <1>1, <1>2 DEF Inv, TypeOK, MemoryTypeOK
  <2>3. ControlTypeOK'
    BY <1>2 DEF Inv, TypeOK, ControlTypeOK, PC
  <2> QED BY <1>1, <2>1, <2>2, <2>3 DEF TypeOK
<1>4. RowsInv' /\ Active' = Active /\ ActiveChain' = ActiveChain
  BY <1>2, SameRows DEF Inv
<1>5. PipelineInv'
  BY <1>2, <1>4 DEF Inv, PipelineInv, InPipeline
<1>6. Open' /\ ClosedInv' /\ CompareInv' /\ ReorgInv' /\ PendingReorgLinked'
  BY <1>2 DEF Open, ClosedInv, CompareInv, ReorgInv, PendingReorgLinked
<1>7. ASSUME pipeline'.dead = 0
      PROVE  /\ IsChain(Accepted') /\ Len(Accepted') = chain_block_count'
             /\ Agree(stream', Accepted', Len(stream'))
  <2>1. /\ IsChain(Accepted) /\ Len(Accepted) = chain_block_count
        /\ Len(stream) <= chain_block_count /\ Agree(stream, Accepted, Len(stream))
        /\ Accepted \in Seq(Block)
    BY <1>2, <1>7, QueueTypes DEF Inv, AcceptedIsChain, StreamInv
  <2>2. Accepted' = Append(Accepted, b)
    <3> DEFINE p == pipeline.writer \o pipeline.fmt \o pipeline.utxo
    <3>1. p \in Seq(Block) /\ batch \in Seq(Block) /\ ActiveChain \in Seq(Block)
      BY QueueTypes, ConcatProperties
    <3>2. Queued = p \o batch /\ Queued' = p \o Append(batch, b)
      BY <1>2 DEF Queued
    <3> HIDE DEF p
    <3>3. /\ p \o Append(batch, b) = Append(p \o batch, b)
          /\ p \o batch \in Seq(Block)
      BY <3>1
    <3>4. ActiveChain \o Append(p \o batch, b) = Append(ActiveChain \o (p \o batch), b)
      BY <3>1, <3>3
    <3> QED BY <1>4, <3>2, <3>3, <3>4 DEF Accepted
  <2>3. Accepted' = ChainInsert(Accepted, Height[b], b)
    <3>1. SubSeq(Accepted, 1, Len(Accepted)) = Accepted
      BY <2>1
    <3> QED BY <1>2, <2>1, <2>2, <3>1 DEF ChainInsert
  <2>4. Len(stream) = chain_block_count /\ Height[b] \in 0..Len(Accepted)
        /\ (Height[b] > 0 => Parent[b] = Accepted[Height[b]])
    BY <1>1, <1>2, <2>1 DEF Agree
  <2>5. /\ IsChain(Accepted') /\ Len(Accepted') = Height[b] + 1
        /\ \A i \in 1..Height[b] : Accepted'[i] = Accepted[i]
        /\ Accepted'[Height[b] + 1] = b
    BY <2>1, <2>3, <2>4, ChainInsertIsChain
  <2>6. ASSUME NEW i \in 1..Len(stream') PROVE stream'[i] = Accepted'[i]
    <3>1. CASE i = Height[b] + 1
      BY <1>1, <2>5, <3>1
    <3>2. CASE i # Height[b] + 1
      <4>1. i \in 1..Height[b] /\ i \in 1..Len(stream)
        BY <1>1, <3>2
      <4> QED BY <1>1, <2>1, <2>5, <4>1 DEF Agree
    <3> QED BY <3>1, <3>2
  <2> QED BY <1>2, <2>5, <2>6 DEF Agree
<1>8. AcceptedIsChain'
  BY <1>7 DEF AcceptedIsChain
<1>9. StreamInv'
  BY <1>1, <1>2, <1>7 DEF StreamInv
<1> QED BY <1>3, <1>4, <1>5, <1>6, <1>8, <1>9 DEF Inv

(* A block below the top; the index is compared with it after the flush.   *)
LEMMA InsertBelowTipInv == ASSUME Inv, NEW b \in Block, InsertBelowTip(b) PROVE Inv'
<1>1. /\ FeedTypeOK' /\ Height[b] \in Nat /\ Height[b] <= Len(stream) /\ Len(stream) \in Nat
      /\ Len(stream') = Height[b] + 1 /\ Agree(stream', stream, Height[b])
      /\ stream'[Height[b] + 1] = b
  BY DeliverFacts DEF InsertBelowTip
<1>2. /\ pc = "idle" /\ pending_reorg = {} /\ pending_reorg' = {} /\ Open
      /\ Height[b] # chain_block_count /\ chain_block_count' = chain_block_count
      /\ UNCHANGED <<block, event, tx, schema, indexer_state, mode, node_chain_head_height,
                     in_flight, pipeline, test_step, faults, batch>>
      /\ pc' = "flush_below" /\ block_arg' = b
  BY DEF InsertBelowTip, Receive, Open, db
<1>3. TypeOK'
  <2>1. DbTypeOK' /\ PipelineTypeOK' /\ MemoryTypeOK'
    BY <1>2 DEF Inv, TypeOK, DbTypeOK, PipelineTypeOK, MemoryTypeOK
  <2>2. ControlTypeOK'
    BY <1>2 DEF Inv, TypeOK, ControlTypeOK, PC
  <2> QED BY <1>1, <2>1, <2>2 DEF TypeOK
<1>4. RowsInv' /\ Active' = Active /\ ActiveChain' = ActiveChain
  BY <1>2, SameRows DEF Inv
<1>5. PipelineInv' /\ Queued' = Queued /\ Accepted' = Accepted
  BY <1>2, <1>4 DEF Inv, PipelineInv, InPipeline, Queued, Accepted
<1>6. Open' /\ ClosedInv' /\ ReorgInv' /\ PendingReorgLinked'
  BY <1>2 DEF Open, ClosedInv, ReorgInv, PendingReorgLinked
<1>7. CompareInv'
  BY <1>1, <1>2 DEF CompareInv
<1>8. AcceptedIsChain'
  BY <1>2, <1>5 DEF Inv, AcceptedIsChain
<1>9. StreamInv'
  <2> SUFFICES ASSUME pipeline.dead = 0
               PROVE  /\ Height[b] < chain_block_count
                      /\ Agree(stream', Accepted, Height[b])
    BY <1>2, <1>5 DEF StreamInv
  <2>1. /\ Len(stream) <= chain_block_count /\ Agree(stream, Accepted, Len(stream))
        /\ chain_block_count \in Nat
    BY <1>2 DEF Inv, StreamInv, TypeOK, MemoryTypeOK
  <2>2. Height[b] < chain_block_count
    BY <1>1, <1>2, <2>1
  <2>3. \A i \in 1..Height[b] : i \in 1..Len(stream)
    BY <1>1
  <2> QED BY <1>1, <2>1, <2>2, <2>3 DEF Agree
<1> QED BY <1>3, <1>4, <1>5, <1>6, <1>7, <1>8, <1>9 DEF Inv

(* While a reorg is pending nothing is queued: the index is what is accepted.*)
LEMMA PendingFacts ==
    ASSUME Inv, pending_reorg # {}
    PROVE  /\ batch = <<>> /\ in_flight = {} /\ pipeline = NoPipeline /\ Open
           /\ pipeline.dead = 0 /\ pc \in {"idle", "finish_reorg"}
           /\ Accepted = ActiveChain
           /\ Len(ActiveChain) = chain_block_count
<1>1. /\ batch = <<>> /\ in_flight = {} /\ pipeline = NoPipeline /\ pc \in {"idle", "finish_reorg"}
  BY DEF Inv, PendingReorgLinked, ReorgInv
<1>2. Open /\ pipeline.dead = 0
  BY <1>1 DEF Open, NoPipeline, NewPipeline
<1>3. /\ pipeline.utxo = <<>> /\ pipeline.fmt = <<>> /\ pipeline.writer = <<>>
  BY <1>1 DEF NoPipeline, NewPipeline
<1>4. Accepted = ActiveChain
  BY <1>1, <1>3, QueueTypes, NothingQueued DEF Accepted, Queued
<1> QED BY <1>1, <1>2, <1>4 DEF Inv, AcceptedIsChain

(* A block of the pending branch.                                          *)
LEMMA InsertInReorgInv == ASSUME Inv, NEW b \in Block, InsertInReorg(b) PROVE Inv'
<1> DEFINE h == Height[b]
<1>1. /\ FeedTypeOK' /\ h \in Nat /\ h <= Len(stream) /\ Len(stream) \in Nat
      /\ Len(stream') = h + 1 /\ Agree(stream', stream, h)
      /\ stream'[h + 1] = b
  BY DeliverFacts DEF InsertInReorg
<1>2. /\ pc = "idle" /\ pending_reorg # {}
      /\ pending_reorg' = Below(pending_reorg, h) \cup {b}
      /\ UNCHANGED <<block, event, tx, schema, indexer_state, mode, node_chain_head_height,
                     in_flight, pipeline, test_step, faults, batch, chain_block_count, block_arg>>
      /\ pc' = IF h = chain_block_count THEN "finish_reorg" ELSE "idle"
  BY DEF InsertInReorg, Receive, Outgrows, db
<1>3. /\ batch = <<>> /\ in_flight = {} /\ pipeline = NoPipeline /\ pipeline.dead = 0
  BY <1>2, PendingFacts
<1>4. TypeOK'
  <2>1. DbTypeOK' /\ PipelineTypeOK'
    BY <1>2 DEF Inv, TypeOK, DbTypeOK, PipelineTypeOK
  <2>2. MemoryTypeOK'
    BY <1>2 DEF Inv, TypeOK, MemoryTypeOK, Below
  <2>3. ControlTypeOK'
    BY <1>2 DEF Inv, TypeOK, ControlTypeOK, PC
  <2> QED BY <1>1, <2>1, <2>2, <2>3 DEF TypeOK
<1>5. RowsInv' /\ Active' = Active /\ ActiveChain' = ActiveChain
  BY <1>2, SameRows DEF Inv
<1>6. PipelineInv' /\ Queued' = Queued /\ Accepted' = Accepted
  BY <1>2, <1>5 DEF Inv, PipelineInv, InPipeline, Queued, Accepted
<1>7. Open /\ Open' /\ pending_reorg' # {} /\ pc' \in {"idle", "finish_reorg"}
  BY <1>2 DEF Open
<1>8. ClosedInv' /\ CompareInv' /\ StreamInv'
  BY <1>7 DEF ClosedInv, CompareInv, StreamInv
<1>9. AcceptedIsChain'
  BY <1>2, <1>6, <1>7 DEF Inv, AcceptedIsChain
<1>10. ReorgInv'
  BY <1>1, <1>2, <1>7 DEF ReorgInv
<1>11. PendingReorgLinked'
  <2>1. PICK n \in 1..Len(stream) :
            /\ pending_reorg = {stream[i] : i \in n..Len(stream)}
            /\ \A i \in 1..n - 1 : ActiveChain[i] = stream[i]
    BY <1>2 DEF Inv, PendingReorgLinked
  <2>2. Len(stream) <= chain_block_count /\ chain_block_count \in Nat
    BY <1>2 DEF Inv, PendingReorgLinked, TypeOK, MemoryTypeOK
  <2> DEFINE m == IF n <= h THEN n ELSE h + 1
  <2>3. m \in 1..h + 1 /\ m \in 1..Len(stream')
    BY <1>1, <2>1
  <2>4. \A i \in 1..Len(stream) : Height[stream[i]] = i - 1
    BY DEF Inv, TypeOK, FeedTypeOK, IsChain
  <2>5. \A i \in 1..h : stream'[i] = stream[i] /\ i \in 1..Len(stream)
    BY <1>1 DEF Agree
  <2>6. Below(pending_reorg, h) = {stream[i] : i \in m..h}
    <3>1. ASSUME NEW p \in Below(pending_reorg, h) PROVE \E i \in m..h : p = stream[i]
      <4>1. PICK i \in n..Len(stream) : p = stream[i]
        BY <2>1 DEF Below
      <4>2. Height[p] < h /\ i \in 1..Len(stream)
        BY <2>1 DEF Below
      <4>3. i - 1 < h
        BY <2>4, <4>1, <4>2
      <4>4. i \in m..h
        BY <1>1, <2>1, <4>3
      <4> QED BY <4>1, <4>4
    <3>2. ASSUME NEW i \in m..h PROVE stream[i] \in Below(pending_reorg, h)
      <4>1. i \in n..Len(stream) /\ i \in 1..Len(stream) /\ i - 1 < h
        BY <1>1, <2>1
      <4> QED BY <2>1, <2>4, <4>1 DEF Below
    <3> QED BY <3>1, <3>2
  <2>7. pending_reorg' = {stream'[i] : i \in m..Len(stream')}
    <3>1. \A i \in m..h : i \in 1..h
      BY <1>1, <2>3
    <3>2. \A i \in m..h + 1 : i \in m..h \/ i = h + 1
      BY <1>1, <2>3
    <3>3. h + 1 \in m..h + 1 /\ \A i \in m..h : i \in m..h + 1
      BY <1>1, <2>3
    <3>4. pending_reorg' = {stream[i] : i \in m..h} \cup {b}
      BY <1>2, <2>6
    <3> HIDE DEF m, h
    <3>5. {stream[i] : i \in m..h} \cup {b} = {stream'[i] : i \in m..Len(stream')}
      BY <1>1, <2>5, <3>1, <3>2, <3>3
    <3> QED BY <3>4, <3>5
  <2>8. \A i \in 1..m - 1 : ActiveChain'[i] = stream'[i]
    <3>1. \A i \in 1..m - 1 : i \in 1..n - 1 /\ i \in 1..h
      BY <1>1, <2>1
    <3> HIDE DEF m, h
    <3> QED BY <1>5, <2>1, <2>5, <3>1
  <2>9. Len(stream') <= chain_block_count' \/ pc' = "finish_reorg"
    BY <1>1, <1>2, <2>2
  <2>10. batch' = <<>> /\ in_flight' = {} /\ pipeline' = NoPipeline'
    BY <1>2, <1>3 DEF NoPipeline, NewPipeline
  <2> HIDE DEF m
  <2> QED BY <2>3, <2>7, <2>8, <2>9, <2>10 DEF PendingReorgLinked
<1> QED BY <1>4, <1>5, <1>6, <1>8, <1>9, <1>10, <1>11 DEF Inv
-----------------------------------------------------------------------------
(* Handing the batch over: what is queued, in which order, is the same.    *)
LEMMA FlushBatchFacts ==
    ASSUME Inv, FlushBatch, UNCHANGED block
    PROVE  /\ PipelineTypeOK' /\ batch' \in Seq(Block) /\ in_flight' \in SUBSET Block
           /\ RowsInv' /\ Active' = Active /\ ActiveChain' = ActiveChain
           /\ PipelineInv'
           /\ pipeline'.dead = pipeline.dead
           /\ Accepted' = Accepted
           /\ batch' = <<>>
<1>1. RowsInv' /\ Active' = Active /\ ActiveChain' = ActiveChain
  BY SameRows DEF Inv
<1>2. CASE batch = <<>>
  <2>1. UNCHANGED <<batch, in_flight, pipeline>>
    BY <1>2 DEF FlushBatch
  <2>2. PipelineTypeOK' /\ batch' \in Seq(Block) /\ in_flight' \in SUBSET Block
    BY <2>1 DEF Inv, TypeOK, PipelineTypeOK, MemoryTypeOK
  <2>3. PipelineInv' /\ Accepted' = Accepted
    BY <1>1, <2>1 DEF Inv, PipelineInv, InPipeline, Accepted, Queued
  <2> QED BY <1>1, <1>2, <2>1, <2>2, <2>3
<1>3. CASE batch # <<>>
  <2>1. /\ pipeline.utxo = <<>>
        /\ pipeline' = [pipeline EXCEPT !.utxo = batch]
        /\ in_flight' = in_flight \cup BlocksOf(batch)
        /\ batch' = <<>>
    BY <1>3 DEF FlushBatch
  <2>2. /\ batch \in Seq(Block) /\ BlocksOf(batch) \subseteq Block
        /\ in_flight \in SUBSET Block /\ PipelineTypeOK
    BY DEF Inv, TypeOK, MemoryTypeOK, BlocksOf
  <2>3. /\ pipeline'.utxo = batch /\ pipeline'.fmt = pipeline.fmt
        /\ pipeline'.writer = pipeline.writer /\ pipeline'.written = pipeline.written
        /\ pipeline'.dead = pipeline.dead /\ PipelineTypeOK'
    BY <2>1, <2>2 DEF PipelineTypeOK
  <2>4. PipelineInv'
    <3>1. InPipeline' = InPipeline \cup BlocksOf(batch)
      BY <2>1, <2>3 DEF InPipeline, BlocksOf
    <3> QED BY <1>1, <2>1, <2>3, <3>1 DEF Inv, PipelineInv
  <2>5. Queued' = Queued
    <3> DEFINE p == pipeline.writer \o pipeline.fmt
    <3>1. p \in Seq(Block) /\ batch \in Seq(Block)
      BY QueueTypes, ConcatProperties
    <3>2. Queued = (p \o <<>>) \o batch /\ Queued' = (p \o batch) \o <<>>
      BY <2>1, <2>3 DEF Queued
    <3> HIDE DEF p
    <3>3. p \o <<>> = p /\ (p \o batch) \o <<>> = p \o batch
      BY <3>1, ConcatEmptySeq, ConcatProperties
    <3> QED BY <3>2, <3>3
  <2> QED BY <1>1, <2>1, <2>2, <2>3, <2>4, <2>5 DEF Accepted
<1> QED BY <1>2, <1>3

(* The three places that flush leave the accepted chain as it is.          *)
LEMMA FlushInv == ASSUME Inv, FlushAtTip \/ FlushBelowTip \/ SetMode PROVE Inv'
<1>1. /\ FlushBatch
      /\ UNCHANGED <<block, event, tx, schema, indexer_state, node_chain_head_height,
                     chain_block_count, pending_reorg, test_step, stream, floor, faults>>
      /\ pc \in {"flush", "flush_below", "set_mode"}
      /\ mode' \in {mode, "normal"} /\ block_arg' \in {block_arg, NoBlock}
      /\ pc' \in {"idle", "set_mode", "compare", "check_in_flight"}
      /\ \/ {pc, pc'} \cap {"flush_below", "compare"} = {}
         \/ pc = "flush_below" /\ pc' = "compare" /\ block_arg' = block_arg
  BY DEF FlushAtTip, FlushBelowTip, SetMode, flushFrame, db, feed, AfterTip
<1>2. /\ PipelineTypeOK' /\ batch' \in Seq(Block) /\ in_flight' \in SUBSET Block
      /\ RowsInv' /\ PipelineInv' /\ pipeline'.dead = pipeline.dead
      /\ Accepted' = Accepted /\ batch' = <<>>
  BY <1>1, FlushBatchFacts
<1>3. TypeOK'
  <2>1. DbTypeOK' /\ FeedTypeOK'
    BY <1>1 DEF Inv, TypeOK, DbTypeOK, FeedTypeOK
  <2>2. MemoryTypeOK'
    BY <1>1, <1>2 DEF Inv, TypeOK, MemoryTypeOK, Mode
  <2>3. ControlTypeOK'
    BY <1>1 DEF Inv, TypeOK, ControlTypeOK, PC
  <2> QED BY <1>2, <2>1, <2>2, <2>3 DEF TypeOK
<1>4. Open /\ Open' /\ pending_reorg = {} /\ pc' # "finish_reorg"
  BY <1>1 DEF Open, Inv, ReorgInv
<1>5. CompareInv'
  BY <1>1, <1>2 DEF Inv, CompareInv
<1> QED BY <1>1, <1>2, <1>3, <1>4, <1>5, SameAcceptedInv

(* Once the pipeline has drained, the index is all that is accepted.       *)
LEMMA DrainedFacts ==
    ASSUME Inv, Drained
    PROVE  /\ pipeline.dead = 0 /\ in_flight = {}
           /\ BlocksOf(pipeline.written) = {}
           /\ Queued = batch
           /\ batch = <<>> => Accepted = ActiveChain
<1>1. /\ pipeline.utxo = <<>> /\ pipeline.fmt = <<>> /\ pipeline.writer = <<>>
      /\ pipeline.written = <<>> /\ pipeline.dead = 0
  BY DEF Drained
<1>2. in_flight = {} /\ BlocksOf(pipeline.written) = {}
  BY <1>1, ByHeightOfNothing DEF Inv, PipelineInv, InPipeline
<1>3. Queued = ((<<>> \o <<>>) \o <<>>) \o batch
  BY <1>1 DEF Queued
<1>4. <<>> \o <<>> = <<>> /\ <<>> \in Seq(Block) /\ batch \in Seq(Block)
  BY QueueTypes, EmptySeq, ConcatEmptySeq
<1>5. Queued = batch
  BY <1>3, <1>4, ConcatEmptySeq
<1>6. batch = <<>> => Accepted = ActiveChain
  BY <1>5, QueueTypes, ConcatEmptySeq DEF Accepted
<1> QED BY <1>1, <1>2, <1>5, <1>6

(* New threads hold nothing.                                               *)
LEMMA NewPipelineFacts ==
    ASSUME Inv, NEW m \in Mode \cup {"none"}, pipeline' = NewPipeline(m),
           in_flight = {}, in_flight' = {}, batch' \in Seq(Block)
    PROVE  PipelineTypeOK' /\ PipelineInv' /\ pipeline'.dead = 0 /\ Queued' = batch'
<1>1. /\ pipeline'.utxo = <<>> /\ pipeline'.fmt = <<>> /\ pipeline'.writer = <<>>
      /\ pipeline'.written = <<>> /\ pipeline'.dead = 0 /\ PipelineTypeOK'
  BY DEF NewPipeline, PipelineTypeOK
<1>2. PipelineInv'
  BY <1>1, ByHeightOfNothing DEF PipelineInv, InPipeline
<1>3. <<>> \o <<>> = <<>> /\ <<>> \o batch' = batch'
  BY ConcatEmptySeq, EmptySeq
<1>4. Queued' = ((<<>> \o <<>>) \o <<>>) \o batch'
  BY <1>1 DEF Queued
<1> QED BY <1>1, <1>2, <1>3, <1>4

(* The one row at a height of the index.                                   *)
LEMMA RowAtHeight ==
    ASSUME RowsInv, NEW h \in Nat
    PROVE  DbHashes(h) = IF h < Len(ActiveChain) THEN {ActiveChain[h + 1]} ELSE {}
<1>1. /\ ActiveChain \in Seq(Block) /\ Active = {ActiveChain[i] : i \in 1..Len(ActiveChain)}
      /\ \A i \in 1..Len(ActiveChain) : Height[ActiveChain[i]] = i - 1
  BY DEF RowsInv, IsChain, BlocksOf
<1>2. ASSUME NEW b \in DbHashes(h) PROVE h < Len(ActiveChain) /\ b = ActiveChain[h + 1]
  <2>1. b \in Active /\ Height[b] = h
    BY DEF DbHashes
  <2>2. PICK i \in 1..Len(ActiveChain) : b = ActiveChain[i]
    BY <1>1, <2>1
  <2>3. i = h + 1
    BY <1>1, <2>1, <2>2
  <2> QED BY <2>2, <2>3
<1>3. ASSUME h < Len(ActiveChain) PROVE ActiveChain[h + 1] \in DbHashes(h)
  <2>1. h + 1 \in 1..Len(ActiveChain)
    BY <1>1, <1>3
  <2>2. ActiveChain[h + 1] \in Active /\ Height[ActiveChain[h + 1]] = h
    BY <1>1, <2>1
  <2> QED BY <2>2 DEF DbHashes
<1> QED BY <1>2, <1>3

(* The index when the workers have stopped and a block is compared.        *)
LEMMA CompareFacts ==
    ASSUME Inv, pc = "compare", Drained
    PROVE  /\ batch = <<>> /\ in_flight = {} /\ pending_reorg = {} /\ Open
           /\ Accepted = ActiveChain /\ IsChain(ActiveChain)
           /\ Len(ActiveChain) = chain_block_count /\ chain_block_count \in Nat
           /\ block_arg \in Block /\ Height[block_arg] \in Nat
           /\ Height[block_arg] < chain_block_count
           /\ Len(stream) = Height[block_arg] + 1 /\ stream[Len(stream)] = block_arg
           /\ Agree(stream, ActiveChain, Height[block_arg])
           /\ DbHashes(Height[block_arg]) = {ActiveChain[Height[block_arg] + 1]}
<1>1. pipeline.dead = 0 /\ in_flight = {} /\ batch = <<>> /\ Accepted = ActiveChain
  BY DrainedFacts DEF Inv, CompareInv
<1>2. Open /\ pending_reorg = {} /\ chain_block_count \in Nat
  BY DEF Open, Inv, ReorgInv, TypeOK, MemoryTypeOK
<1>3. IsChain(ActiveChain) /\ Len(ActiveChain) = chain_block_count
  BY <1>1, <1>2 DEF Inv, AcceptedIsChain
<1>4. /\ block_arg \in Block /\ Height[block_arg] \in Nat
      /\ Len(stream) = Height[block_arg] + 1 /\ stream[Len(stream)] = block_arg
  BY BlockTreeAssumption DEF Inv, CompareInv
<1>5. /\ Height[block_arg] < chain_block_count
      /\ Agree(stream, ActiveChain, Height[block_arg])
  BY <1>1, <1>2 DEF Inv, StreamInv
<1>6. DbHashes(Height[block_arg]) = {ActiveChain[Height[block_arg] + 1]}
  BY <1>3, <1>4, <1>5, RowAtHeight DEF Inv
<1> QED BY <1>1, <1>2, <1>3, <1>4, <1>5, <1>6

(* The block is found indexed, or is the first of a branch.                *)
LEMMA CompareStepInv == ASSUME Inv, Compare PROVE Inv'
<1> DEFINE h == Height[block_arg]
<1>1. pc = "compare" /\ Drained
  BY DEF Compare
<1>2. /\ batch = <<>> /\ in_flight = {} /\ pending_reorg = {} /\ Open
      /\ Accepted = ActiveChain /\ IsChain(ActiveChain)
      /\ Len(ActiveChain) = chain_block_count /\ chain_block_count \in Nat
      /\ block_arg \in Block /\ h \in Nat /\ h < chain_block_count
      /\ Len(stream) = h + 1 /\ stream[Len(stream)] = block_arg
      /\ Agree(stream, ActiveChain, h)
      /\ DbHashes(h) = {ActiveChain[h + 1]}
  BY <1>1, CompareFacts
<1>3. /\ UNCHANGED <<block, event, tx, schema, indexer_state, mode, node_chain_head_height,
                     chain_block_count, batch, in_flight, test_step, stream, floor, faults>>
      /\ pc' = "idle" /\ block_arg' = NoBlock
      /\ \/ /\ block_arg = ActiveChain[h + 1]
            /\ pipeline' = NewPipeline(mode) /\ pending_reorg' = {}
         \/ pipeline' = NewPipeline("none") /\ pending_reorg' = {block_arg}
  BY <1>2 DEF Compare, AlreadyIndexed, NoPipeline, db, feed
<1>4. /\ PipelineTypeOK' /\ PipelineInv' /\ pipeline'.dead = 0 /\ Queued' = <<>>
  BY <1>2, <1>3, NewPipelineFacts, EmptySeq DEF Inv, TypeOK, MemoryTypeOK
<1>5. RowsInv' /\ ActiveChain' = ActiveChain
  BY <1>3, SameRows DEF Inv
<1>6. Accepted' = ActiveChain
  BY <1>4, <1>5, QueueTypes, ConcatEmptySeq DEF Accepted
<1>7. TypeOK'
  <2>1. DbTypeOK' /\ FeedTypeOK'
    BY <1>3 DEF Inv, TypeOK, DbTypeOK, FeedTypeOK
  <2>2. MemoryTypeOK'
    BY <1>2, <1>3 DEF Inv, TypeOK, MemoryTypeOK
  <2>3. ControlTypeOK'
    BY <1>3 DEF Inv, TypeOK, ControlTypeOK, PC
  <2> QED BY <1>4, <2>1, <2>2, <2>3 DEF TypeOK
<1>8. ClosedInv' /\ CompareInv' /\ ReorgInv' /\ AcceptedIsChain'
  BY <1>2, <1>3, <1>6 DEF ClosedInv, CompareInv, ReorgInv, AcceptedIsChain, Open
<1>9. StreamInv'
  <2> SUFFICES ASSUME pending_reorg' = {}
               PROVE  /\ Len(stream) <= chain_block_count
                      /\ Agree(stream, ActiveChain, Len(stream))
    BY <1>3, <1>6 DEF StreamInv
  <2>1. block_arg = ActiveChain[h + 1]
    BY <1>3
  <2>2. \A i \in 1..Len(stream) : i \in 1..h \/ i = Len(stream)
    BY <1>2
  <2>3. Agree(stream, ActiveChain, Len(stream))
    BY <1>2, <2>1, <2>2 DEF Agree
  <2> QED BY <1>2, <2>3
<1>10. PendingReorgLinked'
  <2> SUFFICES ASSUME pending_reorg' # {} PROVE PendingReorgLinked'
    BY DEF PendingReorgLinked
  <2>1. pending_reorg' = {block_arg} /\ pipeline' = NoPipeline'
    BY <1>3 DEF NoPipeline, NewPipeline
  <2>2. h + 1 \in 1..Len(stream) /\ \A i : i \in h + 1..Len(stream) <=> i = h + 1
    BY <1>2
  <2>3. pending_reorg' = {stream[i] : i \in h + 1..Len(stream)}
    BY <1>2, <2>1, <2>2
  <2>4. \A i \in 1..(h + 1) - 1 : ActiveChain[i] = stream[i]
    BY <1>2 DEF Agree
  <2>5. Len(stream) <= chain_block_count
    BY <1>2
  <2> QED BY <1>2, <1>3, <1>5, <2>1, <2>2, <2>3, <2>4, <2>5 DEF PendingReorgLinked
<1> QED BY <1>4, <1>5, <1>7, <1>8, <1>9, <1>10 DEF Inv

(* The steps of the switch to normal mode but for its flush.               *)
LEMMA ModeStepInv ==
    ASSUME Inv, CheckInFlight \/ RestartWorkers \/ EnterNormal \/ SaveMode
    PROVE  Inv'
<1>1. /\ UNCHANGED <<block, event, tx, mode, node_chain_head_height, chain_block_count,
                     batch, pending_reorg, in_flight, block_arg, test_step, stream, floor,
                     faults>>
      /\ pc \in {"check_in_flight", "restart_workers", "enter_normal", "save_mode"}
      /\ pc' \in {"restart_workers", "enter_normal", "save_mode", "idle"}
      /\ schema' \in {schema, "normal"} /\ indexer_state' \in {indexer_state, {FALSE}}
      /\ UNCHANGED pipeline \/ (Drained /\ pipeline' = NewPipeline(mode))
  BY DEF CheckInFlight, RestartWorkers, EnterNormal, SaveMode, db, memory, feed
<1>2. RowsInv' /\ Active' = Active /\ ActiveChain' = ActiveChain
  BY <1>1, SameRows DEF Inv
<1>3. PipelineTypeOK' /\ PipelineInv' /\ (pipeline'.dead = 0 => pipeline.dead = 0 /\ Accepted' = Accepted)
  <2>1. CASE UNCHANGED pipeline
    BY <1>1, <1>2, <2>1 DEF Inv, TypeOK, PipelineTypeOK, PipelineInv, InPipeline, Accepted, Queued
  <2>2. CASE Drained /\ pipeline' = NewPipeline(mode)
    <3>1. pipeline.dead = 0 /\ in_flight = {} /\ Queued = batch
      BY <2>2, DrainedFacts
    <3>2. mode \in Mode \cup {"none"} /\ batch' \in Seq(Block)
      BY <1>1 DEF Inv, TypeOK, MemoryTypeOK
    <3>3. PipelineTypeOK' /\ PipelineInv' /\ pipeline'.dead = 0 /\ Queued' = batch'
      BY <1>1, <2>2, <3>1, <3>2, NewPipelineFacts
    <3> QED BY <1>1, <1>2, <3>1, <3>3 DEF Accepted
  <2> QED BY <1>1, <2>1, <2>2
<1>4. TypeOK'
  <2>1. DbTypeOK' /\ FeedTypeOK' /\ MemoryTypeOK'
    BY <1>1 DEF Inv, TypeOK, DbTypeOK, FeedTypeOK, MemoryTypeOK, Mode
  <2>2. ControlTypeOK'
    BY <1>1 DEF Inv, TypeOK, ControlTypeOK, PC
  <2> QED BY <1>3, <2>1, <2>2 DEF TypeOK
<1>5. /\ Open /\ Open' /\ pending_reorg = {} /\ pc' # "finish_reorg"
      /\ {pc, pc'} \cap {"flush_below", "compare"} = {} /\ CompareInv'
  BY <1>1 DEF Open, Inv, ReorgInv, CompareInv
<1> QED BY <1>1, <1>2, <1>3, <1>4, <1>5, SameAcceptedInv
-----------------------------------------------------------------------------
(* The rows of table tx after a batch are heights, as they were.           *)
LEMMA TxAfterInsertType ==
    ASSUME NEW rows \in [Tx -> Seq(Nat \cup {NoHeight})], NEW s \in Seq(Block), NEW m
    PROVE  TxAfterInsert(rows, s, m) \in [Tx -> Seq(Nat \cup {NoHeight})]
<1> DEFINE N == Nat \cup {NoHeight}
           h(t) == Height[CHOOSE b \in BlocksOf(s) : t \in Txs[b]]
<1>1. ASSUME NEW t \in TxsOf(s) PROVE h(t) \in N
  <2>1. \E b \in BlocksOf(s) : t \in Txs[b]
    BY DEF TxsOf
  <2>2. (CHOOSE b \in BlocksOf(s) : t \in Txs[b]) \in BlocksOf(s)
    BY <2>1
  <2>3. BlocksOf(s) \subseteq Block
    BY DEF BlocksOf
  <2> QED BY <2>2, <2>3, BlockTreeAssumption
<1> HIDE DEF h
<1>2. ASSUME NEW t \in Tx, t \in TxsOf(s)
      PROVE  (IF ~IsBulk(m) /\ rows[t] # <<>> THEN <<h(t)>> ELSE Append(rows[t], h(t))) \in Seq(N)
  <2>1. h(t) \in N /\ rows[t] \in Seq(N)
    BY <1>1, <1>2
  <2> HIDE DEF N
  <2> QED BY <2>1
<1>3. ASSUME NEW t \in Tx
      PROVE  (IF t \notin TxsOf(s) THEN rows[t]
              ELSE IF ~IsBulk(m) /\ rows[t] # <<>> THEN <<h(t)>> ELSE Append(rows[t], h(t)))
                \in Seq(N)
  BY <1>2
<1>4. TxAfterInsert(rows, s, m) =
        [t \in Tx |-> IF t \notin TxsOf(s) THEN rows[t]
                      ELSE IF ~IsBulk(m) /\ rows[t] # <<>> THEN <<h(t)>>
                           ELSE Append(rows[t], h(t))]
  BY DEF TxAfterInsert, h
<1> QED BY <1>3, <1>4

(* One event per block, in the order of the blocks.                        *)
LEMMA EventsType ==
    ASSUME NEW s \in Seq(Block)
    PROVE  /\ AddedAll(s) \in Seq([id : Block, revert : BOOLEAN])
           /\ RevertedAll(s) \in Seq([id : Block, revert : BOOLEAN])
           /\ Len(AddedAll(s)) = Len(s) /\ Len(RevertedAll(s)) = Len(s)
           /\ \A i \in 1..Len(s) : /\ AddedAll(s)[i] = Added(s[i])
                                   /\ RevertedAll(s)[i] = Reverted(s[i])
<1> DEFINE E == [id : Block, revert : BOOLEAN]
<1>1. DOMAIN s = 1..Len(s) /\ Len(s) \in Nat /\ \A i \in 1..Len(s) : s[i] \in Block
  OBVIOUS
<1>2. \A b \in Block : Added(b) \in E /\ Reverted(b) \in E
  BY DEF Added, Reverted
<1> HIDE DEF E
<1>3. /\ AddedAll(s) = [i \in 1..Len(s) |-> Added(s[i])]
      /\ RevertedAll(s) = [i \in 1..Len(s) |-> Reverted(s[i])]
  BY <1>1 DEF AddedAll, RevertedAll
<1>4. AddedAll(s) \in Seq(E) /\ RevertedAll(s) \in Seq(E)
  BY <1>1, <1>2, <1>3
<1> QED BY <1>1, <1>3, <1>4 DEF E

(* A step of a pipeline thread, by what it leaves alone.                   *)
LEMMA PipelineFrameInv ==
    ASSUME Inv, pipeline # NoPipeline, UNCHANGED pipelineFrame,
           RowsInv', PipelineInv', PipelineTypeOK', DbTypeOK',
           in_flight' \in SUBSET in_flight, faults' \in 0..MaxFaults,
           pipeline'.dead = 0 => pipeline.dead = 0 /\ Accepted' = Accepted
    PROVE  Inv'
<1>1. /\ UNCHANGED <<schema, indexer_state, mode, node_chain_head_height,
                     chain_block_count, batch, pending_reorg, pc, block_arg,
                     test_step, stream, floor>>
  BY DEF pipelineFrame, feed
<1>2. Open /\ Open' /\ pending_reorg = {}
  BY <1>1, PendingFacts DEF Inv, ClosedInv, Open
<1>3. pc' # "finish_reorg" /\ CompareInv'
  BY <1>1, <1>2 DEF Inv, ReorgInv, CompareInv
<1>4. TypeOK'
  <2>1. MemoryTypeOK' /\ FeedTypeOK'
    BY <1>1 DEF Inv, TypeOK, MemoryTypeOK, FeedTypeOK
  <2>2. ControlTypeOK'
    BY <1>1 DEF Inv, TypeOK, ControlTypeOK
  <2> QED BY <2>1, <2>2 DEF TypeOK
<1>5. \/ {pc, pc'} \cap {"flush_below", "compare"} = {}
      \/ /\ pc \in {"flush_below", "compare"} /\ pc' \in {"flush_below", "compare"}
         /\ block_arg' = block_arg
  BY <1>1
<1> QED BY <1>1, <1>2, <1>3, <1>4, <1>5, SameAcceptedInv

(* A thread hands its batch on.                                            *)
LEMMA PassInv == ASSUME Inv, PassToFmt \/ PassToWriter PROVE Inv'
<1>1. /\ UNCHANGED <<block, event, tx, in_flight, faults>> /\ UNCHANGED pipelineFrame
      /\ UNCHANGED <<batch, schema, indexer_state>>
  BY DEF PassToFmt, PassToWriter, pipelineFrame
<1>2. RowsInv' /\ Active' = Active /\ ActiveChain' = ActiveChain
  BY <1>1, SameRows DEF Inv
<1>3. /\ pipeline.utxo \in Seq(Block) /\ pipeline.fmt \in Seq(Block)
      /\ pipeline.writer \in Seq(Block) /\ PipelineTypeOK
      /\ \A s \in Seq(Block) : s \o <<>> = s /\ <<>> \o s = s
  BY QueueTypes, ConcatEmptySeq DEF Inv, TypeOK
<1>4. /\ pipeline'.dead = pipeline.dead /\ pipeline'.written = pipeline.written
      /\ PipelineTypeOK' /\ InPipeline' = InPipeline /\ pipeline # NoPipeline
      /\ pipeline'.writer # <<>> => pipeline'.dead = 0 \/ pipeline.writer # <<>>
      /\ pipeline'.writer = <<>> \/ pipeline'.written = <<>> \/ pipeline.writer # <<>>
      /\ pipeline'.writer \o pipeline'.fmt \o pipeline'.utxo
            = pipeline.writer \o pipeline.fmt \o pipeline.utxo
  <2>1. CASE PassToFmt
    <3>1. /\ pipeline.utxo # <<>> /\ pipeline.fmt = <<>>
          /\ pipeline'.dead = pipeline.dead /\ pipeline'.written = pipeline.written
          /\ pipeline'.fmt = pipeline.utxo /\ pipeline'.utxo = <<>>
          /\ pipeline'.writer = pipeline.writer /\ PipelineTypeOK'
      BY <1>3, <2>1 DEF PassToFmt, PipelineTypeOK
    <3>2. InPipeline' = InPipeline
      BY <3>1, ByHeightOfNothing DEF InPipeline, BlocksOf
    <3>3. pipeline.writer \o pipeline.utxo \in Seq(Block)
      BY <1>3
    <3>4. (pipeline.writer \o pipeline.utxo) \o <<>> = (pipeline.writer \o <<>>) \o pipeline.utxo
      BY <1>3, <3>3
    <3> QED BY <3>1, <3>2, <3>4 DEF NoPipeline, NewPipeline
  <2>2. CASE PassToWriter
    <3>1. /\ pipeline.fmt # <<>> /\ pipeline.writer = <<>> /\ pipeline.written = <<>>
          /\ pipeline.dead = 0
          /\ pipeline'.dead = pipeline.dead /\ pipeline'.written = pipeline.written
          /\ pipeline'.writer = pipeline.fmt /\ pipeline'.fmt = <<>>
          /\ pipeline'.utxo = pipeline.utxo /\ PipelineTypeOK'
      BY <1>3, <2>2 DEF PassToWriter, PipelineTypeOK
    <3>2. InPipeline' = InPipeline
      BY <3>1, ByHeightOfNothing DEF InPipeline, BlocksOf
    <3>3. pipeline.fmt \o <<>> = <<>> \o pipeline.fmt
      BY <1>3
    <3> QED BY <3>1, <3>2, <3>3 DEF NoPipeline, NewPipeline
  <2> QED BY <2>1, <2>2
<1>5. PipelineInv'
  <2>1. CASE pipeline.writer # <<>>
    <3>1. PassToFmt /\ pipeline'.writer = pipeline.writer
      BY <1>3, <2>1 DEF PassToFmt, PassToWriter, PipelineTypeOK
    <3> QED BY <1>1, <1>2, <1>4, <3>1 DEF Inv, PipelineInv
  <2>2. CASE pipeline.writer = <<>>
    BY <1>1, <1>2, <1>4, <2>2 DEF Inv, PipelineInv
  <2> QED BY <2>1, <2>2
<1>6. Accepted' = Accepted
  BY <1>1, <1>2, <1>4 DEF Accepted, Queued
<1>7. DbTypeOK' /\ faults' \in 0..MaxFaults
  BY <1>1 DEF Inv, TypeOK, DbTypeOK, ControlTypeOK
<1> QED BY <1>1, <1>2, <1>4, <1>5, <1>6, <1>7, PipelineFrameInv

(* The blocks of two sequences put together.                               *)
LEMMA BlocksOfConcat ==
    ASSUME NEW s \in Seq(Block), NEW t \in Seq(Block)
    PROVE  BlocksOf(s \o t) = BlocksOf(s) \cup BlocksOf(t)
<1>1. /\ Len(s) \in Nat /\ Len(t) \in Nat /\ Len(s \o t) = Len(s) + Len(t)
      /\ \A i \in 1..Len(s) + Len(t) :
            (s \o t)[i] = IF i <= Len(s) THEN s[i] ELSE t[i - Len(s)]
      /\ s \o t \in Seq(Block)
  BY ConcatProperties
<1>2. /\ BlocksOf(s \o t) = {(s \o t)[i] : i \in 1..Len(s) + Len(t)}
      /\ BlocksOf(s) = {s[i] : i \in 1..Len(s)} /\ BlocksOf(t) = {t[i] : i \in 1..Len(t)}
  BY <1>1 DEF BlocksOf
<1>3. ASSUME NEW b \in BlocksOf(s \o t) PROVE b \in BlocksOf(s) \cup BlocksOf(t)
  <2>1. PICK i \in 1..Len(s) + Len(t) : b = (s \o t)[i]
    BY <1>2
  <2>2. CASE i <= Len(s)
    BY <1>1, <1>2, <2>1, <2>2
  <2>3. CASE ~(i <= Len(s))
    <3>1. i - Len(s) \in 1..Len(t)
      BY <1>1, <2>3
    <3> QED BY <1>1, <1>2, <2>1, <2>3, <3>1
  <2> QED BY <2>2, <2>3
<1>4. \A i \in 1..Len(s) : (s \o t)[i] = s[i] /\ i \in 1..Len(s) + Len(t)
  BY <1>1
<1>5. \A i \in 1..Len(t) : (s \o t)[Len(s) + i] = t[i] /\ Len(s) + i \in 1..Len(s) + Len(t)
  BY <1>1
<1> QED BY <1>2, <1>3, <1>4, <1>5

(* What is queued has no row yet.                                          *)
LEMMA QueuedIsNew ==
    ASSUME Inv, pipeline # NoPipeline, pipeline.dead = 0
    PROVE  /\ Open
           /\ \A b \in BlocksOf(pipeline.writer) \cup BlocksOf(pipeline.fmt)
                            \cup BlocksOf(pipeline.utxo) :
                    b \in Block /\ b \notin Rows /\ Height[b] >= Len(ActiveChain)
<1>1. Open /\ IsChain(ActiveChain \o Queued)
  BY DEF Inv, ClosedInv, AcceptedIsChain, Accepted
<1>2. /\ pipeline.utxo \in Seq(Block) /\ pipeline.fmt \in Seq(Block)
      /\ pipeline.writer \in Seq(Block) /\ batch \in Seq(Block)
      /\ Queued \in Seq(Block) /\ ActiveChain \in Seq(Block)
  BY QueueTypes
<1>3. \A i \in 1..Len(Queued) : Height[Queued[i]] = Len(ActiveChain) + i - 1
  BY <1>1, <1>2, ConcatPrefixIsChain
<1>4. BlocksOf(Queued) = BlocksOf(pipeline.writer) \cup BlocksOf(pipeline.fmt)
                            \cup BlocksOf(pipeline.utxo) \cup BlocksOf(batch)
  <2>1. /\ pipeline.writer \o pipeline.fmt \in Seq(Block)
        /\ (pipeline.writer \o pipeline.fmt) \o pipeline.utxo \in Seq(Block)
    BY <1>2, ConcatProperties
  <2>2. BlocksOf(pipeline.writer \o pipeline.fmt)
            = BlocksOf(pipeline.writer) \cup BlocksOf(pipeline.fmt)
    BY <1>2, BlocksOfConcat
  <2>3. BlocksOf((pipeline.writer \o pipeline.fmt) \o pipeline.utxo)
            = BlocksOf(pipeline.writer \o pipeline.fmt) \cup BlocksOf(pipeline.utxo)
    BY <1>2, <2>1, BlocksOfConcat
  <2>4. BlocksOf(Queued)
            = BlocksOf((pipeline.writer \o pipeline.fmt) \o pipeline.utxo) \cup BlocksOf(batch)
    BY <1>2, <2>1, BlocksOfConcat DEF Queued
  <2> QED BY <2>2, <2>3, <2>4
<1>5. ASSUME NEW b \in BlocksOf(Queued)
      PROVE  b \in Block /\ b \notin Rows /\ Height[b] >= Len(ActiveChain)
  <2>0. DOMAIN Queued = 1..Len(Queued)
    BY <1>2
  <2>1. PICK i \in 1..Len(Queued) : b = Queued[i]
    BY <2>0 DEF BlocksOf
  <2>2. b \in Block /\ Height[b] \in Nat /\ Height[b] >= Len(ActiveChain)
    BY <1>2, <1>3, <2>1, BlockTreeAssumption
  <2> QED BY <1>2, <2>2 DEF Inv, RowsInv
<1> QED BY <1>1, <1>4, <1>5

(* A thread that dies takes with it what it holds.                         *)
LEMMA DeathInv ==
    ASSUME Inv, WriterFails \/ WriterDisconnected \/ FmtDies \/ UtxoDies
    PROVE  Inv'
<1>1. /\ UNCHANGED <<block, event, tx, in_flight>> /\ UNCHANGED pipelineFrame
      /\ UNCHANGED <<schema, indexer_state>>
      /\ faults' = faults \/ (faults < MaxFaults /\ faults' = faults + 1)
  BY DEF WriterFails, WriterDisconnected, WriterDies, FmtDies, UtxoDies, pipelineFrame
<1>2. RowsInv' /\ Active' = Active /\ ActiveChain' = ActiveChain
  BY <1>1, SameRows DEF Inv
<1>3. /\ PipelineTypeOK /\ PipelineInv /\ BlocksOf(<<>>) = {} /\ <<>> \in Seq(Block)
      /\ 1 \in 0..3 /\ 2 \in 0..3 /\ 3 \in 0..3
  BY ByHeightOfNothing, EmptySeq DEF Inv, TypeOK
<1>4. /\ PipelineTypeOK' /\ pipeline'.dead \in 1..3 /\ pipeline # NoPipeline
      /\ InPipeline' \subseteq InPipeline
      /\ pipeline'.writer = <<>> /\ pipeline'.written = <<>>
  <2>1. CASE WriterFails \/ WriterDisconnected
    <3>1. /\ pipeline' = [pipeline EXCEPT !.writer = <<>>, !.written = <<>>, !.dead = 1]
          /\ pipeline.writer # <<>> \/ pipeline.written # <<>>
      BY <2>1 DEF WriterFails, WriterDisconnected, WriterDies
    <3>2. /\ pipeline'.writer = <<>> /\ pipeline'.written = <<>> /\ pipeline'.dead = 1
          /\ pipeline'.fmt = pipeline.fmt /\ pipeline'.utxo = pipeline.utxo /\ PipelineTypeOK'
      BY <1>3, <3>1 DEF PipelineTypeOK
    <3> QED BY <1>3, <3>1, <3>2 DEF InPipeline, NoPipeline, NewPipeline
  <2>2. CASE FmtDies
    <3>1. /\ pipeline' = [pipeline EXCEPT !.fmt = <<>>, !.dead = 2] /\ pipeline.dead = 1
      BY <2>2 DEF FmtDies
    <3>2. /\ pipeline'.writer = pipeline.writer /\ pipeline'.written = pipeline.written
          /\ pipeline'.dead = 2 /\ pipeline'.fmt = <<>> /\ pipeline'.utxo = pipeline.utxo
          /\ PipelineTypeOK'
      BY <1>3, <3>1 DEF PipelineTypeOK
    <3> QED BY <1>3, <3>1, <3>2 DEF InPipeline, NoPipeline, NewPipeline, PipelineInv
  <2>3. CASE UtxoDies
    <3>1. /\ pipeline' = [pipeline EXCEPT !.utxo = <<>>, !.dead = 3] /\ pipeline.dead = 2
      BY <2>3 DEF UtxoDies
    <3>2. /\ pipeline'.writer = pipeline.writer /\ pipeline'.written = pipeline.written
          /\ pipeline'.dead = 3 /\ pipeline'.fmt = pipeline.fmt /\ pipeline'.utxo = <<>>
          /\ PipelineTypeOK'
      BY <1>3, <3>1 DEF PipelineTypeOK
    <3> QED BY <1>3, <3>1, <3>2 DEF InPipeline, NoPipeline, NewPipeline, PipelineInv
  <2> QED BY <2>1, <2>2, <2>3
<1>5. pipeline'.dead # 0 /\ pipeline'.dead > 0
  BY <1>4
<1>6. PipelineInv'
  <2>1. InPipeline \subseteq in_flight /\ in_flight' = in_flight /\ BlocksOf(pipeline'.written) = {}
    BY <1>1, <1>3, <1>4 DEF PipelineInv
  <2> QED BY <1>4, <1>5, <2>1 DEF PipelineInv, BlocksOf
<1>7. DbTypeOK'
  BY <1>1 DEF Inv, TypeOK, DbTypeOK
<1>8. faults' \in 0..MaxFaults
  BY <1>1, StoreAssumption DEF Inv, TypeOK, ControlTypeOK
<1> QED BY <1>1, <1>2, <1>4, <1>5, <1>6, <1>7, <1>8, PipelineFrameInv

(* The writer takes what it committed out of in_flight.                    *)
LEMMA WriterDoneInv == ASSUME Inv, WriterDone PROVE Inv'
<1>1. /\ UNCHANGED <<block, event, tx, faults, batch, schema, indexer_state>>
      /\ UNCHANGED pipelineFrame
      /\ in_flight' = in_flight \ BlocksOf(pipeline.written)
      /\ pipeline' = [pipeline EXCEPT !.written = <<>>] /\ pipeline.written # <<>>
  BY DEF WriterDone, pipelineFrame
<1>2. RowsInv' /\ Active' = Active /\ ActiveChain' = ActiveChain
  BY <1>1, SameRows DEF Inv
<1>3. PipelineTypeOK /\ PipelineInv /\ BlocksOf(<<>>) = {} /\ <<>> \in Seq(Block)
  BY ByHeightOfNothing, EmptySeq DEF Inv, TypeOK
<1>4. /\ pipeline'.writer = pipeline.writer /\ pipeline'.written = <<>>
      /\ pipeline'.dead = pipeline.dead /\ pipeline'.fmt = pipeline.fmt
      /\ pipeline'.utxo = pipeline.utxo /\ PipelineTypeOK'
  BY <1>1, <1>3 DEF PipelineTypeOK
<1>5. /\ pipeline.dead = 0 /\ pipeline.writer = <<>> /\ pipeline # NoPipeline
      /\ in_flight = InPipeline /\ BlocksOf(pipeline.written) \subseteq Active
  BY <1>1, <1>3 DEF PipelineInv, NoPipeline, NewPipeline, PipelineTypeOK
<1>6. \A b \in BlocksOf(pipeline.fmt) \cup BlocksOf(pipeline.utxo) : b \notin Active
  <2>1. Active \subseteq Rows
    BY DEF Active, Rows
  <2> QED BY <1>5, <2>1, QueuedIsNew
<1>7. in_flight' = InPipeline'
  BY <1>1, <1>3, <1>4, <1>5, <1>6 DEF InPipeline
<1>8. PipelineInv'
  BY <1>2, <1>3, <1>4, <1>5, <1>7 DEF PipelineInv, BlocksOf
<1>9. Accepted' = Accepted
  BY <1>1, <1>2, <1>4 DEF Accepted, Queued
<1>10. DbTypeOK' /\ faults' \in 0..MaxFaults /\ in_flight' \in SUBSET in_flight
  BY <1>1 DEF Inv, TypeOK, DbTypeOK, ControlTypeOK
<1> QED BY <1>1, <1>2, <1>4, <1>5, <1>8, <1>9, <1>10, PipelineFrameInv
-----------------------------------------------------------------------------
(* After a commit the active rows are chain d, and only its blocks got new *)
(* rows.                                                                   *)
LEMMA IndexBecomes ==
    ASSUME RowsInv, NEW d, IsChain(d), Len(ActiveChain) <= Len(d),
           Active' = BlocksOf(d), Rows' = Rows \cup BlocksOf(d)
    PROVE  RowsInv' /\ ActiveChain' = d
<1>1. ActiveChain' = d
  BY ByHeightOfChain DEF ActiveChain
<1>2. /\ d \in Seq(Block) /\ Len(d) \in Nat /\ BlocksOf(d) = {d[i] : i \in 1..Len(d)}
      /\ \A i \in 1..Len(d) : Height[d[i]] = i - 1
      /\ \A i \in 2..Len(d) : Parent[d[i]] = d[i - 1]
  BY DEF IsChain, BlocksOf
<1>3. Len(ActiveChain) \in Nat /\ \A b \in Rows : b \in Block /\ Height[b] \in Nat
  BY BlockTreeAssumption, IndexLength DEF Rows
<1>4. ASSUME NEW b \in Rows' PROVE Height[b] < Len(d)
  <2>1. CASE b \in Rows
    BY <1>2, <1>3, <2>1 DEF RowsInv
  <2>2. CASE b \in BlocksOf(d)
    <3>1. PICK i \in 1..Len(d) : b = d[i]
      BY <1>2, <2>2
    <3> QED BY <1>2, <3>1
  <2> QED BY <2>1, <2>2
<1>5. ASSUME NEW b \in Rows', Height[b] > 0 PROVE Parent[b] \in Rows'
  <2>1. CASE b \in Rows
    BY <1>5, <2>1 DEF RowsInv
  <2>2. CASE b \in BlocksOf(d)
    <3>1. PICK i \in 1..Len(d) : b = d[i]
      BY <1>2, <2>2
    <3>2. i \in 2..Len(d) /\ i - 1 \in 1..Len(d)
      BY <1>2, <1>5, <3>1
    <3> QED BY <1>2, <3>1, <3>2
  <2> QED BY <2>1, <2>2
<1> QED BY <1>1, <1>4, <1>5 DEF RowsInv

(* A batch the writer commits moves from the queue to the index, and what  *)
(* is above it stays in its order.                                         *)
LEMMA StackedQueue ==
    ASSUME Inv
    PROVE  /\ Stacked(ActiveChain, pipeline.writer, pipeline.fmt, pipeline.utxo, batch)
                = Stacked(ActiveChain \o pipeline.writer, <<>>, pipeline.fmt, pipeline.utxo, batch)
           /\ Stacked(ActiveChain, pipeline.writer, pipeline.fmt, pipeline.utxo, batch)
                = (ActiveChain \o pipeline.writer) \o ((pipeline.fmt \o pipeline.utxo) \o batch)
<1> DEFINE S == Seq(Block)
           cat(x, y) == x \o y
<1>1. /\ pipeline.utxo \in S /\ pipeline.fmt \in S /\ pipeline.writer \in S
      /\ batch \in S /\ ActiveChain \in S
  BY QueueTypes
<1>2. \A c, w, f, u, b \in S :
        /\ Stacked(c, w, f, u, b) = Stacked(cat(c, w), <<>>, f, u, b)
        /\ Stacked(c, w, f, u, b) = cat(cat(c, w), cat(cat(f, u), b))
  BY StackedOnFirst
<1> SUFFICES
      /\ Stacked(ActiveChain, pipeline.writer, pipeline.fmt, pipeline.utxo, batch)
            = Stacked(cat(ActiveChain, pipeline.writer), <<>>, pipeline.fmt, pipeline.utxo, batch)
      /\ Stacked(ActiveChain, pipeline.writer, pipeline.fmt, pipeline.utxo, batch)
            = cat(cat(ActiveChain, pipeline.writer), cat(cat(pipeline.fmt, pipeline.utxo), batch))
  OBVIOUS
<1> HIDE DEF S, cat
<1> QED BY <1>1, <1>2, SMTT(60)

(* The batch the writer holds continues the index, and has no rows yet.    *)
LEMMA WriterOnTop ==
    ASSUME Inv, pipeline.writer # <<>>
    PROVE  /\ Open /\ pipeline.dead = 0 /\ pipeline.written = <<>> /\ pipeline # NoPipeline
           /\ pipeline.writer \in Seq(Block)
           /\ IsChain(ActiveChain \o pipeline.writer)
           /\ BlocksOf(ActiveChain \o pipeline.writer) = Active \cup BlocksOf(pipeline.writer)
           /\ \A b \in BlocksOf(pipeline.writer) : b \in Block /\ block[b] = "none"
<1> DEFINE w == pipeline.writer
           d == ActiveChain \o w
<1>1. pipeline.dead = 0 /\ pipeline.written = <<>> /\ pipeline # NoPipeline
  BY DEF Inv, PipelineInv, NoPipeline, NewPipeline, TypeOK, PipelineTypeOK
<1>2. /\ pipeline.utxo \in Seq(Block) /\ pipeline.fmt \in Seq(Block)
      /\ w \in Seq(Block) /\ batch \in Seq(Block) /\ ActiveChain \in Seq(Block)
  BY QueueTypes
<1>3. Accepted = Stacked(ActiveChain, w, pipeline.fmt, pipeline.utxo, batch)
  BY DEF Accepted, Queued, Stacked
<1>4. d \in Seq(Block) /\ (pipeline.fmt \o pipeline.utxo) \o batch \in Seq(Block)
  BY <1>2, ConcatProperties
<1>5. IsChain(d)
  <2>1. IsChain(Accepted)
    BY <1>1 DEF Inv, AcceptedIsChain, ClosedInv
  <2>2. Accepted = d \o ((pipeline.fmt \o pipeline.utxo) \o batch)
    BY <1>3, StackedQueue
  <2> QED BY <1>4, <2>1, <2>2, ConcatPrefixIsChain
<1>6. BlocksOf(d) = Active \cup BlocksOf(w)
  BY <1>2, BlocksOfConcat DEF Inv, RowsInv
<1>7. Open /\ \A b \in BlocksOf(w) : b \in Block /\ block[b] = "none"
  <2>1. Open /\ \A b \in BlocksOf(w) : b \in Block /\ b \notin Rows
    BY <1>1, QueuedIsNew
  <2> QED BY <2>1 DEF Rows
<1> QED BY <1>1, <1>2, <1>5, <1>6, <1>7

(* The writer's transaction puts its batch on top of the index.            *)
LEMMA CommitFacts ==
    ASSUME Inv, WriterCommit
    PROVE  /\ pipeline.dead = 0 /\ pipeline.written = <<>> /\ pipeline # NoPipeline
           /\ pipeline.writer \in Seq(Block) /\ pipeline.writer # <<>>
           /\ IsChain(ActiveChain \o pipeline.writer)
           /\ RowsInv' /\ ActiveChain' = ActiveChain \o pipeline.writer
           /\ Active' = Active \cup BlocksOf(pipeline.writer)
<1> DEFINE w == pipeline.writer
           d == ActiveChain \o w
<1>1. w # <<>> /\ block' = [b \in Block |->
                IF b \in BlocksOf(w) /\ block[b] = "none" THEN "active" ELSE block[b]]
  BY DEF WriterCommit
<1>2. /\ pipeline.dead = 0 /\ pipeline.written = <<>> /\ pipeline # NoPipeline
      /\ w \in Seq(Block) /\ IsChain(d) /\ BlocksOf(d) = Active \cup BlocksOf(w)
      /\ \A b \in BlocksOf(w) : b \in Block /\ block[b] = "none"
  BY <1>1, WriterOnTop
<1>3. Active' = BlocksOf(d) /\ Rows' = Rows \cup BlocksOf(d)
  BY <1>1, <1>2 DEF Active, Rows
<1>4. Len(ActiveChain) <= Len(d)
  BY <1>2, QueueTypes
<1>5. RowsInv' /\ ActiveChain' = d
  <2> HIDE DEF d
  <2> QED BY <1>2, <1>3, <1>4, IndexBecomes DEF Inv
<1> QED BY <1>1, <1>2, <1>3, <1>5

(* A commit leaves the accepted chain as it is: its lowest batch is        *)
(* indexed now.                                                            *)
LEMMA WriterCommitInv == ASSUME Inv, WriterCommit PROVE Inv'
<1>1. /\ UNCHANGED <<faults, batch, in_flight, schema, indexer_state>> /\ UNCHANGED pipelineFrame
      /\ pipeline' = [pipeline EXCEPT !.written = pipeline.writer, !.writer = <<>>]
      /\ event' = event \o AddedAll(pipeline.writer)
      /\ tx' = TxAfterInsert(tx, pipeline.writer, pipeline.mode)
      /\ block' = [b \in Block |->
                    IF b \in BlocksOf(pipeline.writer) /\ block[b] = "none"
                    THEN "active" ELSE block[b]]
  BY DEF WriterCommit, pipelineFrame
<1>2. /\ pipeline.dead = 0 /\ pipeline.written = <<>> /\ pipeline # NoPipeline
      /\ pipeline.writer \in Seq(Block)
      /\ RowsInv' /\ ActiveChain' = ActiveChain \o pipeline.writer
      /\ Active' = Active \cup BlocksOf(pipeline.writer)
  BY CommitFacts
<1>3. PipelineTypeOK /\ PipelineInv /\ BlocksOf(<<>>) = {} /\ <<>> \in Seq(Block)
  BY ByHeightOfNothing, EmptySeq DEF Inv, TypeOK
<1>4. /\ pipeline'.writer = <<>> /\ pipeline'.written = pipeline.writer
      /\ pipeline'.dead = pipeline.dead /\ pipeline'.fmt = pipeline.fmt
      /\ pipeline'.utxo = pipeline.utxo /\ PipelineTypeOK'
  BY <1>1, <1>2, <1>3 DEF PipelineTypeOK
<1>5. InPipeline' = InPipeline
  BY <1>2, <1>3, <1>4 DEF InPipeline, BlocksOf
<1>6. PipelineInv'
  BY <1>1, <1>2, <1>3, <1>4, <1>5 DEF PipelineInv, BlocksOf
<1>7. Accepted' = Accepted
  <2>1. /\ pipeline.writer \in Seq(Block) /\ pipeline.fmt \in Seq(Block)
        /\ pipeline.utxo \in Seq(Block) /\ batch \in Seq(Block) /\ ActiveChain \in Seq(Block)
    BY QueueTypes
  <2>2. Accepted = Stacked(ActiveChain, pipeline.writer, pipeline.fmt, pipeline.utxo, batch)
    BY DEF Accepted, Queued, Stacked
  <2>3. Accepted' = Stacked(ActiveChain \o pipeline.writer, <<>>, pipeline.fmt,
                            pipeline.utxo, batch)
    BY <1>1, <1>2, <1>4 DEF Accepted, Queued, Stacked
  <2> QED BY <2>2, <2>3, StackedQueue
<1>8. DbTypeOK'
  <2>1. block \in [Block -> {"none", "active", "extinct"}]
        /\ event \in Seq([id : Block, revert : BOOLEAN])
        /\ tx \in [Tx -> Seq(Nat \cup {NoHeight})]
        /\ schema' \in Mode /\ indexer_state' \in {{}, {TRUE}, {FALSE}}
    BY <1>1 DEF Inv, TypeOK, DbTypeOK
  <2>2. event' \in Seq([id : Block, revert : BOOLEAN])
    BY <1>1, <1>2, <2>1, EventsType, ConcatProperties
  <2>3. tx' \in [Tx -> Seq(Nat \cup {NoHeight})]
    BY <1>1, <1>2, <2>1, TxAfterInsertType
  <2>4. block' \in [Block -> {"none", "active", "extinct"}]
    BY <1>1, <2>1
  <2> QED BY <2>1, <2>2, <2>3, <2>4 DEF DbTypeOK
<1>9. faults' \in 0..MaxFaults /\ in_flight' \in SUBSET in_flight
  BY <1>1 DEF Inv, TypeOK, ControlTypeOK
<1> QED BY <1>1, <1>2, <1>4, <1>6, <1>7, <1>8, <1>9, PipelineFrameInv
-----------------------------------------------------------------------------
(* A reorg when it is finished: the new branch starts where the caller's   *)
(* chain and the index part, and is one block longer than the old one.     *)
LEMMA ReorgFacts ==
    ASSUME Inv, pc = "finish_reorg"
    PROVE  /\ FirstDifferentHeight \in 0..Len(ActiveChain)
           /\ chain_block_count = Len(ActiveChain) /\ Len(ActiveChain) \in Nat
           /\ IsChain(stream) /\ Len(stream) = Len(ActiveChain) + 1
           /\ Agree(ActiveChain, stream, FirstDifferentHeight)
           /\ FirstDifferentHeight < Len(ActiveChain) =>
                    ActiveChain[FirstDifferentHeight + 1] # stream[FirstDifferentHeight + 1]
           /\ LeavingRows =
                    {ActiveChain[i] : i \in FirstDifferentHeight + 1..Len(ActiveChain)}
           /\ ArrivingBlocks = {stream[i] : i \in FirstDifferentHeight + 1..Len(stream)}
<1> DEFINE c == ActiveChain
           d == stream
           L == Len(ActiveChain)
           k == FirstDifferentHeight
           H == {Height[p] : p \in Differing} \cup {chain_block_count}
<1>1. /\ pending_reorg # {} /\ Len(d) = chain_block_count + 1 /\ chain_block_count = L
      /\ IsChain(c) /\ IsChain(d) /\ L \in Nat
  <2>1. pending_reorg # {} /\ Len(d) = chain_block_count + 1 /\ IsChain(c) /\ IsChain(d)
    BY DEF Inv, ReorgInv, RowsInv, TypeOK, FeedTypeOK
  <2> QED BY <2>1, PendingFacts, IndexLength DEF Inv
<1>2. PICK n \in 1..Len(d) :
            /\ pending_reorg = {d[i] : i \in n..Len(d)}
            /\ \A i \in 1..n - 1 : c[i] = d[i]
  BY <1>1 DEF Inv, PendingReorgLinked
<1>3. /\ Len(d) = L + 1 /\ n \in 1..L + 1
      /\ \A i \in 1..L + 1 : Height[d[i]] = i - 1
      /\ \A i \in 1..L : Height[c[i]] = i - 1
  BY <1>1, <1>2 DEF IsChain
<1>4. \A i \in n..L + 1 : d[i] \in Differing <=> i <= L /\ c[i] # d[i]
  <2> SUFFICES ASSUME NEW i \in n..L + 1
               PROVE  d[i] \in Differing <=> i <= L /\ c[i] # d[i]
    OBVIOUS
  <2>1. d[i] \in pending_reorg /\ Height[d[i]] = i - 1 /\ i - 1 \in Nat /\ (i - 1) + 1 = i
    BY <1>1, <1>2, <1>3
  <2>2. DbHashes(i - 1) = IF i - 1 < L THEN {c[i]} ELSE {}
    BY <2>1, RowAtHeight DEF Inv
  <2>3. d[i] \in Differing <=> DbHashes(i - 1) \notin {{}, {d[i]}}
    BY <2>1 DEF Differing
  <2>4. i - 1 < L <=> i <= L
    BY <1>1, <2>1
  <2> QED BY <2>2, <2>3, <2>4
<1>5. /\ H \subseteq Nat /\ H # {} /\ L \in H
      /\ \A i \in n..L : c[i] # d[i] => i - 1 \in H
      /\ \A h \in H : h = L \/ (h + 1 \in n..L /\ c[h + 1] # d[h + 1])
  <2>1. ASSUME NEW p \in Differing
        PROVE  \E i \in n..L : Height[p] = i - 1 /\ c[i] # d[i]
    <3>1. p \in pending_reorg
      BY DEF Differing
    <3>2. PICK i \in n..L + 1 : p = d[i]
      BY <1>2, <1>3, <3>1
    <3>3. i <= L /\ c[i] # d[i] /\ i \in 1..L + 1
      BY <1>3, <1>4, <3>2
    <3> QED BY <1>1, <1>3, <3>2, <3>3
  <2>2. ASSUME NEW h \in H PROVE h = L \/ (h + 1 \in n..L /\ c[h + 1] # d[h + 1])
    <3>1. CASE h \in {Height[p] : p \in Differing}
      <4>1. PICK i \in n..L : h = i - 1 /\ c[i] # d[i]
        BY <2>1, <3>1
      <4>2. i = h + 1
        BY <1>1, <1>3, <4>1
      <4> QED BY <4>1, <4>2
    <3> QED BY <1>1, <3>1
  <2>3. ASSUME NEW i \in n..L, c[i] # d[i] PROVE i - 1 \in H
    <3>1. d[i] \in Differing /\ Height[d[i]] = i - 1
      BY <1>1, <1>3, <1>4, <2>3
    <3> QED BY <3>1
  <2>4. \A h \in H : h \in Nat
    <3>1. Differing \subseteq Block
      BY DEF Differing, Inv, TypeOK, MemoryTypeOK
    <3> QED BY <1>1, <3>1, BlockTreeAssumption
  <2> QED BY <1>1, <2>2, <2>3, <2>4
<1>6. k \in H /\ \A h \in H : k <= h
  <2>1. k = CHOOSE x \in H : \A y \in H : x <= y
    BY DEF FirstDifferentHeight, Min
  <2> HIDE DEF H
  <2>2. \E x \in H : \A y \in H : x <= y
    BY <1>5, LeastElement
  <2> QED BY <2>1, <2>2
<1> HIDE DEF H, k
<1>7. k \in 0..L /\ k \in Nat /\ n <= k + 1 /\ (k < L => c[k + 1] # d[k + 1])
  BY <1>1, <1>3, <1>5, <1>6
<1>8. \A i \in 1..k : c[i] = d[i]
  <2> SUFFICES ASSUME NEW i \in 1..k, c[i] # d[i] PROVE FALSE
    OBVIOUS
  <2>1. i \in n..L
    BY <1>1, <1>2, <1>3, <1>7
  <2>2. i - 1 \in H
    BY <1>5, <2>1
  <2> QED BY <1>6, <1>7, <2>2
<1>9. LeavingRows = {c[i] : i \in k + 1..L}
  <2>1. Active = {c[i] : i \in 1..L}
    <3>1. Active = BlocksOf(c) /\ DOMAIN c = 1..L
      BY <1>1 DEF Inv, RowsInv, IsChain
    <3> QED BY <3>1 DEF BlocksOf
  <2>2. LeavingRows = {b \in Active : Height[b] >= k}
    BY DEF LeavingRows, k
  <2>3. ASSUME NEW i \in k + 1..L PROVE i \in 1..L /\ Height[c[i]] >= k
    BY <1>1, <1>3, <1>7
  <2>4. ASSUME NEW i \in 1..L, Height[c[i]] >= k PROVE i \in k + 1..L
    BY <1>1, <1>3, <1>7, <2>4
  <2> QED BY <2>1, <2>2, <2>3, <2>4
<1>10. ArrivingBlocks = {d[i] : i \in k + 1..L + 1}
  <2>1. ArrivingBlocks = {p \in pending_reorg : ~(Height[p] < k)}
    BY DEF ArrivingBlocks, Below, k
  <2>2. ASSUME NEW i \in k + 1..L + 1 PROVE i \in n..L + 1 /\ ~(Height[d[i]] < k)
    BY <1>1, <1>3, <1>7
  <2>3. ASSUME NEW i \in n..L + 1, ~(Height[d[i]] < k) PROVE i \in k + 1..L + 1
    <3>1. i \in 1..L + 1
      BY <1>3
    <3> QED BY <1>1, <1>3, <1>7, <2>3, <3>1
  <2> QED BY <1>2, <1>3, <2>1, <2>2, <2>3
<1> QED BY <1>1, <1>3, <1>7, <1>8, <1>9, <1>10 DEF k, Agree

(* Part of a chain: in the order of heights it is the sequence it was.     *)
LEMMA ByHeightOfSegment ==
    ASSUME NEW d, IsChain(d), NEW k \in 0..Len(d), NEW z \in k..Len(d)
    PROVE  /\ ByHeight({d[i] : i \in k + 1..z}) = SubSeq(d, k + 1, z)
           /\ SubSeq(d, k + 1, z) \in Seq(Block) /\ Len(SubSeq(d, k + 1, z)) = z - k
           /\ \A i \in 1..z - k : SubSeq(d, k + 1, z)[i] = d[k + i]
<1> DEFINE s == SubSeq(d, k + 1, z)
<1>1. /\ d \in Seq(Block) /\ Len(d) \in Nat /\ k \in Nat /\ z \in Nat /\ z <= Len(d)
      /\ k <= z
  BY DEF IsChain
<1>2. /\ s \in Seq(Block) /\ Len(s) = z - k /\ \A i \in 1..z - k : s[i] = d[k + i]
  <2>1. \A i \in k + 1..z : d[i] \in Block
    BY <1>1
  <2>2. Len(s) = z - k /\ \A i \in 1..z - k : s[i] = d[k + i]
    BY <1>1
  <2>3. s \in Seq(Block)
    BY <1>1, <2>1, SubSeqProperties
  <2> QED BY <2>2, <2>3
<1> HIDE DEF s
<1>3. \A i \in 1..Len(s) : Height[s[i]] = k + i - 1
  <2> SUFFICES ASSUME NEW i \in 1..Len(s) PROVE Height[s[i]] = k + i - 1
    OBVIOUS
  <2>1. s[i] = d[k + i] /\ k + i \in 1..Len(d)
    BY <1>1, <1>2
  <2> QED BY <1>1, <2>1 DEF IsChain
<1>4. BlocksOf(s) = {d[i] : i \in k + 1..z}
  <2>1. BlocksOf(s) = {s[i] : i \in 1..Len(s)}
    BY <1>2 DEF BlocksOf
  <2>2. \A i \in 1..Len(s) : k + i \in k + 1..z /\ s[i] = d[k + i]
    BY <1>1, <1>2
  <2>3. \A i \in k + 1..z : i - k \in 1..Len(s) /\ s[i - k] = d[i]
    BY <1>1, <1>2
  <2>4. \A b \in {s[i] : i \in 1..Len(s)} : b \in {d[i] : i \in k + 1..z}
    BY <2>2
  <2>5. \A b \in {d[i] : i \in k + 1..z} : b \in {s[i] : i \in 1..Len(s)}
    BY <2>3
  <2> QED BY <2>1, <2>4, <2>5
<1>5. k \in Int
  BY <1>1
<1>6. ByHeight(BlocksOf(s)) = s
  BY <1>2, <1>3, <1>5, ByHeightOfSequence
<1> QED BY <1>2, <1>4, <1>6 DEF s

(* The rows of blocks that a reorg brings back lie below the new ones: a   *)
(* row's parent has a row.  The new block on top has none.                 *)
LEMMA ArrivingInOrder ==
    ASSUME Inv, pc = "finish_reorg"
    PROVE  \E j \in FirstDifferentHeight..Len(ActiveChain) :
                /\ Revived = SubSeq(stream, FirstDifferentHeight + 1, j)
                /\ Unindexed = SubSeq(stream, j + 1, Len(stream))
                /\ \A i \in FirstDifferentHeight + 1..j : stream[i] \in Rows
<1> DEFINE L == Len(ActiveChain)
           k == FirstDifferentHeight
           d == stream
           T == {i \in k + 1..L + 1 : d[i] \notin Rows}
<1>1. /\ k \in 0..L /\ L \in Nat /\ IsChain(d) /\ Len(d) = L + 1
      /\ ArrivingBlocks = {d[i] : i \in k + 1..L + 1}
  BY ReorgFacts
<1> HIDE DEF k
<1>2. \A i \in 1..L + 1 : Height[d[i]] = i - 1 /\ (i > 1 => Parent[d[i]] = d[i - 1])
  BY <1>1 DEF IsChain
<1>3. L + 1 \in T
  <2>1. L + 1 \in k + 1..L + 1 /\ Height[d[L + 1]] = L
    BY <1>1, <1>2
  <2>2. \A b \in Rows : Height[b] < L
    BY DEF Inv, RowsInv
  <2> QED BY <1>1, <2>1, <2>2
<1>4. PICK x \in T : \A y \in T : x <= y
  <2>1. T \subseteq Nat /\ T # {}
    BY <1>1, <1>3
  <2> HIDE DEF T
  <2> QED BY <2>1, LeastElement
<1>5. x \in k + 1..L + 1 /\ d[x] \notin Rows /\ \A i \in k + 1..L + 1 : i < x => d[i] \in Rows
  BY <1>1, <1>4
<1>6. \A i \in k + 1..L + 1 : i >= x => d[i] \notin Rows
  <2> DEFINE U == {i \in x..L + 1 : d[i] \in Rows}
  <2>1. U = {}
    <3> SUFFICES ASSUME U # {} PROVE FALSE
      OBVIOUS
    <3>1. U \subseteq Nat
      BY <1>1, <1>5
    <3>2. PICK y \in U : \A i \in U : y <= i
      <4> HIDE DEF U
      <4> QED BY <3>1, LeastElement
    <3>3. /\ y \in x..L + 1 /\ d[y] \in Rows /\ y # x
          /\ y \in 1..L + 1 /\ y > 1 /\ y - 1 \in x..L + 1 /\ Height[d[y]] > 0
      BY <1>1, <1>2, <1>5, <3>2
    <3>4. d[y - 1] \in Rows
      BY <1>2, <3>3 DEF Inv, RowsInv
    <3>5. y - 1 \in U
      BY <3>3, <3>4
    <3> QED BY <3>2, <3>3, <3>5
  <2> QED BY <1>1, <1>5, <2>1
<1> HIDE DEF T
<1> DEFINE j == x - 1
<1>7. /\ j \in k..L /\ j + 1 = x /\ j \in Nat
      /\ k \in 0..Len(d) /\ j \in k..Len(d) /\ j \in 0..Len(d) /\ Len(d) \in j..Len(d)
  BY <1>1, <1>5
<1> HIDE DEF j
<1>8. ArrivingBlocks \cap Rows = {d[i] : i \in k + 1..j}
  <2>1. \A i \in k + 1..j : i \in k + 1..L + 1 /\ i < x
    BY <1>1, <1>5, <1>7
  <2>2. \A i \in k + 1..L + 1 : d[i] \in Rows => i \in k + 1..j
    BY <1>1, <1>5, <1>6, <1>7
  <2> QED BY <1>1, <1>5, <2>1, <2>2
<1>9. ArrivingBlocks \ Rows = {d[i] : i \in j + 1..Len(d)}
  <2>1. \A i \in j + 1..Len(d) : i \in k + 1..L + 1 /\ i >= x
    BY <1>1, <1>5, <1>7
  <2>2. \A i \in k + 1..L + 1 : d[i] \notin Rows => i \in j + 1..Len(d)
    BY <1>1, <1>5, <1>7
  <2> QED BY <1>1, <1>6, <2>1, <2>2
<1>10. Revived = SubSeq(d, k + 1, j)
  <2>1. ByHeight({d[i] : i \in k + 1..j}) = SubSeq(d, k + 1, j)
    BY <1>1, <1>7, ByHeightOfSegment
  <2> QED BY <1>8, <2>1 DEF Revived
<1>11. Unindexed = SubSeq(d, j + 1, Len(d))
  <2>1. ByHeight({d[i] : i \in j + 1..Len(d)}) = SubSeq(d, j + 1, Len(d))
    BY <1>1, <1>7, ByHeightOfSegment
  <2> QED BY <1>9, <2>1 DEF Unindexed
<1>12. \A i \in k + 1..j : d[i] \in Rows
  BY <1>8
<1> SUFFICES \E n \in k..L : /\ Revived = SubSeq(d, k + 1, n)
                            /\ Unindexed = SubSeq(d, n + 1, Len(d))
                            /\ \A i \in k + 1..n : d[i] \in Rows
  BY DEF k
<1> QED BY <1>7, <1>10, <1>11, <1>12

(* The transaction of a reorg puts the caller's chain in place of the index.*)
LEMMA ReorgCommitFacts ==
    ASSUME Inv, FinishReorg
    PROVE  RowsInv' /\ ActiveChain' = stream /\ Rows' = Rows \cup BlocksOf(stream)
<1> DEFINE L == Len(ActiveChain)
           k == FirstDifferentHeight
           d == stream
           c == ActiveChain
<1>1. /\ k \in 0..L /\ L \in Nat /\ IsChain(d) /\ Len(d) = L + 1
      /\ Agree(c, d, k)
      /\ LeavingRows = {c[i] : i \in k + 1..L}
      /\ ArrivingBlocks = {d[i] : i \in k + 1..L + 1}
  BY ReorgFacts DEF FinishReorg
<1> HIDE DEF k
<1>2. /\ Active = {c[i] : i \in 1..L} /\ Active \subseteq Rows
      /\ BlocksOf(d) = {d[i] : i \in 1..L + 1}
  <2>1. Active = BlocksOf(c) /\ DOMAIN c = 1..L /\ DOMAIN d = 1..L + 1
    BY <1>1 DEF Inv, RowsInv, IsChain
  <2> QED BY <2>1 DEF BlocksOf, Active, Rows
<1>3. ArrivingBlocks \subseteq Block
  BY DEF ArrivingBlocks, Inv, TypeOK, MemoryTypeOK
<1>4. block' = [b \in Block |->
                    IF b \in ArrivingBlocks THEN "active"
                    ELSE IF b \in LeavingRows THEN "extinct" ELSE block[b]]
  BY DEF FinishReorg
<1>5. Active' = (Active \ LeavingRows) \cup ArrivingBlocks
  BY <1>3, <1>4 DEF Active
<1>6. Rows' = Rows \cup ArrivingBlocks
  <2>1. LeavingRows \subseteq Rows
    BY DEF LeavingRows, Active, Rows
  <2> QED BY <1>3, <1>4, <2>1 DEF Rows
<1>7. Active \ LeavingRows = {d[i] : i \in 1..k}
  <2>1. \A i \in 1..k : i \in 1..L /\ c[i] = d[i]
    BY <1>1 DEF Agree
  <2>2. \A i \in 1..k : c[i] \notin LeavingRows
    <3>1. \A i, j \in 1..L : c[i] = c[j] => i = j
      BY ChainIsInjective DEF Inv, RowsInv
    <3>2. \A i \in 1..k : \A j \in k + 1..L : j \in 1..L /\ i # j
      BY <1>1
    <3> QED BY <1>1, <2>1, <3>1, <3>2
  <2>3. \A i \in 1..L : c[i] \notin LeavingRows => i \in 1..k
    BY <1>1
  <2>4. \A b \in Active \ LeavingRows : b \in {d[i] : i \in 1..k}
    BY <1>2, <2>1, <2>3
  <2>5. \A b \in {d[i] : i \in 1..k} : b \in Active \ LeavingRows
    BY <1>2, <2>1, <2>2
  <2> QED BY <2>4, <2>5
<1>8. BlocksOf(d) = {d[i] : i \in 1..k} \cup ArrivingBlocks
  <2>1. \A i \in 1..L + 1 : i \in 1..k \/ i \in k + 1..L + 1
    BY <1>1
  <2>2. /\ \A i \in 1..k : i \in 1..L + 1
        /\ \A i \in k + 1..L + 1 : i \in 1..L + 1
    BY <1>1
  <2> QED BY <1>1, <1>2, <2>1, <2>2
<1>9. Active' = BlocksOf(d) /\ Rows' = Rows \cup BlocksOf(d)
  BY <1>2, <1>5, <1>6, <1>7, <1>8
<1>10. RowsInv /\ Len(ActiveChain) <= Len(d)
  BY <1>1 DEF Inv
<1> QED BY <1>1, <1>9, <1>10, IndexBecomes

(* Two parts of a chain that meet, joined again.                           *)
LEMMA AddedSegments ==
    ASSUME NEW d, IsChain(d), NEW k \in 0..Len(d), NEW j \in k..Len(d)
    PROVE  AddedAll(SubSeq(d, k + 1, j)) \o AddedAll(SubSeq(d, j + 1, Len(d)))
                = [i \in 1..(Len(d) - k) |-> Added(d[k + i])]
<1> DEFINE p == AddedAll(SubSeq(d, k + 1, j))
           q == AddedAll(SubSeq(d, j + 1, Len(d)))
           E == [id : Block, revert : BOOLEAN]
           s == SubSeq(d, k + 1, j)
           r == SubSeq(d, j + 1, Len(d))
<1>1. /\ d \in Seq(Block) /\ Len(d) \in Nat /\ k \in Nat /\ j \in Nat
      /\ k <= j /\ j <= Len(d) /\ j \in 0..Len(d) /\ Len(d) \in j..Len(d)
  BY DEF IsChain
<1>2. s \in Seq(Block) /\ Len(s) = j - k /\ \A i \in 1..j - k : s[i] = d[k + i]
  BY ByHeightOfSegment
<1>3. r \in Seq(Block) /\ Len(r) = Len(d) - j /\ \A i \in 1..Len(d) - j : r[i] = d[j + i]
  BY <1>1, ByHeightOfSegment
<1> HIDE DEF s, r
<1>4. /\ p \in Seq(E) /\ Len(p) = j - k /\ \A i \in 1..j - k : p[i] = Added(d[k + i])
  <2>1. p = AddedAll(s)
    BY DEF s
  <2>2. /\ AddedAll(s) \in Seq(E) /\ Len(AddedAll(s)) = Len(s)
        /\ \A i \in 1..Len(s) : AddedAll(s)[i] = Added(s[i])
    BY <1>2, EventsType
  <2> HIDE DEF p, E
  <2> QED BY <1>2, <2>1, <2>2
<1>5. /\ q \in Seq(E) /\ Len(q) = Len(d) - j /\ \A i \in 1..Len(d) - j : q[i] = Added(d[j + i])
  <2>1. q = AddedAll(r)
    BY DEF r
  <2>2. /\ AddedAll(r) \in Seq(E) /\ Len(AddedAll(r)) = Len(r)
        /\ \A i \in 1..Len(r) : AddedAll(r)[i] = Added(r[i])
    BY <1>3, EventsType
  <2> HIDE DEF q, E
  <2> QED BY <1>3, <2>1, <2>2
<1> HIDE DEF p, q, E
<1>6. /\ p \o q \in Seq(E) /\ Len(p \o q) = Len(d) - k
      /\ \A i \in 1..Len(d) - k : (p \o q)[i] = IF i <= j - k THEN p[i] ELSE q[i - (j - k)]
  <2>1. Len(p) + Len(q) = Len(d) - k
    BY <1>1, <1>4, <1>5
  <2>2. /\ p \o q \in Seq(E) /\ Len(p \o q) = Len(p) + Len(q)
        /\ \A i \in 1..Len(p) + Len(q) :
                (p \o q)[i] = IF i <= Len(p) THEN p[i] ELSE q[i - Len(p)]
    BY <1>4, <1>5, ConcatProperties
  <2> QED BY <1>4, <2>1, <2>2
<1>7. ASSUME NEW i \in 1..Len(d) - k PROVE (p \o q)[i] = Added(d[k + i])
  <2>1. CASE i <= j - k
    BY <1>1, <1>4, <1>6, <2>1
  <2>2. CASE ~(i <= j - k)
    <3>1. i - (j - k) \in 1..Len(d) - j /\ j + (i - (j - k)) = k + i
      BY <1>1, <2>2
    <3> QED BY <1>5, <1>6, <2>2, <3>1
  <2> QED BY <2>1, <2>2
<1>8. p \o q = [i \in 1..(Len(d) - k) |-> Added(d[k + i])]
  <2> DEFINE e == p \o q
  <2>1. e \in Seq(E) /\ Len(e) = Len(d) - k /\ \A i \in 1..Len(d) - k : e[i] = Added(d[k + i])
    BY <1>6, <1>7
  <2> HIDE DEF e
  <2>2. e = [i \in 1..(Len(d) - k) |-> Added(d[k + i])]
    BY <2>1
  <2> QED BY <2>2 DEF e
<1> QED BY <1>8 DEF p, q

(* The events of a reorg: the old branch from the top down, then the new   *)
(* one from the bottom up, whichever of its blocks were known.             *)
LEMMA ReorgEventsAre ==
    ASSUME Inv, pc = "finish_reorg"
    PROVE  LET k == FirstDifferentHeight
               c == ActiveChain
               down == [i \in 1..(Len(c) - k) |-> Reverted(c[Len(c) + 1 - i])]
               up == [i \in 1..(Len(stream) - k) |-> Added(stream[k + i])]
           IN  /\ ReorgEvents = down \o up
               /\ ReorgEvents \in Seq([id : Block, revert : BOOLEAN])
<1> DEFINE L == Len(ActiveChain)
           k == FirstDifferentHeight
           c == ActiveChain
           d == stream
           E == [id : Block, revert : BOOLEAN]
           s == ByHeight(LeavingRows)
           down == [i \in 1..(L - k) |-> Reverted(c[L + 1 - i])]
           up == [i \in 1..(Len(d) - k) |-> Added(d[k + i])]
<1>1. /\ k \in 0..L /\ L \in Nat /\ IsChain(d) /\ Len(d) = L + 1 /\ IsChain(c)
      /\ LeavingRows = {c[i] : i \in k + 1..L}
  BY ReorgFacts DEF Inv, RowsInv
<1> HIDE DEF k
<1>2. s \in Seq(Block) /\ Len(s) = L - k /\ \A i \in 1..L - k : s[i] = c[k + i]
  <2>1. k \in 0..Len(c) /\ L \in k..Len(c)
    BY <1>1
  <2>2. /\ ByHeight({c[i] : i \in k + 1..L}) = SubSeq(c, k + 1, L)
        /\ SubSeq(c, k + 1, L) \in Seq(Block) /\ Len(SubSeq(c, k + 1, L)) = L - k
        /\ \A i \in 1..L - k : SubSeq(c, k + 1, L)[i] = c[k + i]
    BY <1>1, <2>1, ByHeightOfSegment
  <2>3. s = SubSeq(c, k + 1, L)
    BY <1>1, <2>2
  <2> QED BY <2>2, <2>3
<1> HIDE DEF s
<1>3. /\ Reverse(s) \in Seq(Block) /\ Len(Reverse(s)) = L - k
      /\ \A i \in 1..L - k : Reverse(s)[i] = c[L + 1 - i]
  <2>1. Reverse(s) = [i \in 1..Len(s) |-> s[(Len(s) - i) + 1]]
    BY DEF Reverse
  <2>2. \A i \in 1..L - k : (L - k - i) + 1 \in 1..L - k /\ k + ((L - k - i) + 1) = L + 1 - i
    BY <1>1
  <2> DEFINE r == [i \in 1..L - k |-> s[(L - k - i) + 1]]
  <2>3. r \in Seq(Block) /\ Len(r) = L - k /\ \A i \in 1..L - k : r[i] = c[L + 1 - i]
    <3>1. ASSUME NEW i \in 1..L - k
          PROVE  s[(L - k - i) + 1] \in Block /\ s[(L - k - i) + 1] = c[L + 1 - i]
      <4> DEFINE m == (L - k - i) + 1
      <4>1. m \in 1..L - k /\ k + m = L + 1 - i
        BY <2>2
      <4> HIDE DEF m
      <4>2. s[m] \in Block /\ s[m] = c[k + m]
        BY <1>2, <4>1
      <4> QED BY <4>1, <4>2 DEF m
    <3>2. L - k \in Nat
      BY <1>1
    <3> DEFINE n == L - k
    <3>3. r = [i \in 1..n |-> r[i]] /\ n \in Nat
      BY <3>2
    <3>4. \A i \in 1..n : r[i] \in Block /\ r[i] = c[L + 1 - i]
      BY <3>1
    <3> HIDE DEF n, r
    <3>5. r \in Seq(Block) /\ Len(r) = n
      BY <3>3, <3>4
    <3> QED BY <3>4, <3>5 DEF n
  <2>4. Reverse(s) = r
    <3>1. Len(s) = L - k
      BY <1>2
    <3> QED BY <2>1, <3>1
  <2> HIDE DEF r
  <2> QED BY <2>3, <2>4
<1>4. RevertedAll(Reverse(s)) = down /\ down \in Seq(E)
  <2> DEFINE r == Reverse(s)
             e == RevertedAll(r)
  <2>1. r \in Seq(Block) /\ Len(r) = L - k /\ \A i \in 1..L - k : r[i] = c[L + 1 - i]
    BY <1>3
  <2> HIDE DEF r
  <2>2. e \in Seq(E) /\ Len(e) = L - k /\ \A i \in 1..L - k : e[i] = Reverted(c[L + 1 - i])
    <3>1. /\ e \in Seq(E) /\ Len(e) = Len(r)
          /\ \A i \in 1..Len(r) : e[i] = Reverted(r[i])
      BY <2>1, EventsType
    <3> HIDE DEF e
    <3> QED BY <2>1, <3>1
  <2> HIDE DEF e
  <2>3. e = down
    BY <2>2
  <2> QED BY <2>2, <2>3 DEF e, r
<1>5. PICK j \in k..L : /\ Revived = SubSeq(d, k + 1, j)
                        /\ Unindexed = SubSeq(d, j + 1, Len(d))
  BY ArrivingInOrder DEF k
<1>6. /\ AddedAll(Revived) \o AddedAll(Unindexed) = up
      /\ AddedAll(Revived) \in Seq(E) /\ AddedAll(Unindexed) \in Seq(E)
  <2>1. k \in 0..Len(d) /\ j \in k..Len(d)
    BY <1>1
  <2>2. j \in 0..Len(d) /\ Len(d) \in j..Len(d)
    BY <1>1
  <2>3. Revived \in Seq(Block) /\ Unindexed \in Seq(Block)
    <3>1. SubSeq(d, k + 1, j) \in Seq(Block)
      BY <1>1, <2>1, ByHeightOfSegment
    <3>2. SubSeq(d, j + 1, Len(d)) \in Seq(Block)
      BY <1>1, <2>2, ByHeightOfSegment
    <3> QED BY <1>5, <3>1, <3>2
  <2>4. AddedAll(Revived) \in Seq(E) /\ AddedAll(Unindexed) \in Seq(E)
    BY <2>3, EventsType
  <2>5. AddedAll(SubSeq(d, k + 1, j)) \o AddedAll(SubSeq(d, j + 1, Len(d))) = up
    BY <1>1, <2>1, AddedSegments
  <2> QED BY <1>5, <2>4, <2>5, Zenon
<1>7. ReorgEvents = (down \o AddedAll(Revived)) \o AddedAll(Unindexed)
  BY <1>4 DEF ReorgEvents, s
<1> HIDE DEF down, up, E
<1>8. (down \o AddedAll(Revived)) \o AddedAll(Unindexed) = down \o up
  <2>1. \A x, y, z \in Seq(E) : (x \o y) \o z = x \o (y \o z)
    <3> TAKE x, y, z \in Seq(E)
    <3> QED BY ConcatAssociative, SMTT(30)
  <2>2. (down \o AddedAll(Revived)) \o AddedAll(Unindexed)
            = down \o (AddedAll(Revived) \o AddedAll(Unindexed))
    BY <1>4, <1>6, <2>1, Zenon
  <2> QED BY <1>6, <2>2, Zenon
<1>9. up \in Seq(E) /\ down \o up \in Seq(E)
  BY <1>4, <1>6, ConcatProperties
<1> QED BY <1>7, <1>8, <1>9 DEF down, up, E, k

(* A height that is cleared is still one that a row may have.              *)
LEMMA TxAfterRevivalType ==
    ASSUME tx \in [Tx -> Seq(Nat \cup {NoHeight})]
    PROVE  TxAfterRevival \in [Tx -> Seq(Nat \cup {NoHeight})]
<1> DEFINE N == Nat \cup {NoHeight}
           H == {Height[b] : b \in BlocksOf(Revived)}
<1>1. NoHeight \in N
  OBVIOUS
<1>2. TxAfterRevival = [t \in Tx |-> [i \in DOMAIN tx[t] |->
                            IF tx[t][i] \in H THEN NoHeight ELSE tx[t][i]]]
  BY DEF TxAfterRevival
<1> HIDE DEF N, H
<1>3. ASSUME NEW s \in Seq(N)
      PROVE  [i \in DOMAIN s |-> IF s[i] \in H THEN NoHeight ELSE s[i]] \in Seq(N)
  BY <1>1
<1> QED BY <1>2, <1>3 DEF N

(* After a reorg the index is the caller's chain.                          *)
LEMMA FinishReorgInv == ASSUME Inv, FinishReorg PROVE Inv'
<1>1. /\ pc = "finish_reorg" /\ pc' = "idle" /\ chain_block_count' = chain_block_count + 1
      /\ pending_reorg' = {} /\ pipeline' = NewPipeline(mode)
      /\ UNCHANGED <<schema, indexer_state, mode, node_chain_head_height, batch,
                     in_flight, block_arg, test_step, stream, floor, faults>>
      /\ tx' = TxAfterInsert(TxAfterRevival, Unindexed, mode)
      /\ event' = event \o ReorgEvents
  BY DEF FinishReorg, feed
<1>2. /\ chain_block_count = Len(ActiveChain) /\ Len(ActiveChain) \in Nat
      /\ FirstDifferentHeight \in 0..Len(ActiveChain)
      /\ IsChain(stream) /\ Len(stream) = Len(ActiveChain) + 1
  BY <1>1, ReorgFacts
<1>3. RowsInv' /\ ActiveChain' = stream
  BY ReorgCommitFacts
<1>4. pending_reorg # {} /\ batch = <<>> /\ in_flight = {} /\ mode \in Mode
  BY <1>1, PendingFacts DEF Inv, ReorgInv, TypeOK, MemoryTypeOK
<1>5. PipelineTypeOK' /\ PipelineInv' /\ Queued' = <<>>
  BY <1>1, <1>4, NewPipelineFacts, EmptySeq
<1>6. Accepted' = stream
  <2>1. stream \in Seq(Block)
    BY <1>2 DEF IsChain
  <2> QED BY <1>3, <1>5, <2>1, ConcatEmptySeq DEF Accepted
<1>7. Unindexed \in Seq(Block) /\ Revived \in Seq(Block)
  <2>1. PICK j \in FirstDifferentHeight..Len(ActiveChain) :
                /\ Revived = SubSeq(stream, FirstDifferentHeight + 1, j)
                /\ Unindexed = SubSeq(stream, j + 1, Len(stream))
    BY <1>1, ArrivingInOrder
  <2>2. /\ FirstDifferentHeight \in 0..Len(stream) /\ j \in FirstDifferentHeight..Len(stream)
        /\ j \in 0..Len(stream) /\ Len(stream) \in j..Len(stream)
    BY <1>2
  <2>3. SubSeq(stream, FirstDifferentHeight + 1, j) \in Seq(Block)
    BY <1>2, <2>2, ByHeightOfSegment
  <2>4. SubSeq(stream, j + 1, Len(stream)) \in Seq(Block)
    BY <1>2, <2>2, ByHeightOfSegment
  <2> QED BY <2>1, <2>3, <2>4
<1>8. DbTypeOK'
  <2>1. block \in [Block -> {"none", "active", "extinct"}]
        /\ event \in Seq([id : Block, revert : BOOLEAN])
        /\ tx \in [Tx -> Seq(Nat \cup {NoHeight})]
        /\ schema' \in Mode /\ indexer_state' \in {{}, {TRUE}, {FALSE}}
    BY <1>1 DEF Inv, TypeOK, DbTypeOK
  <2>2. TxAfterRevival \in [Tx -> Seq(Nat \cup {NoHeight})]
    BY <2>1, TxAfterRevivalType
  <2>3. tx' \in [Tx -> Seq(Nat \cup {NoHeight})]
    BY <1>1, <1>7, <2>2, TxAfterInsertType
  <2>4. block' \in [Block -> {"none", "active", "extinct"}]
    BY <2>1 DEF FinishReorg
  <2>5. event' \in Seq([id : Block, revert : BOOLEAN])
    <3>1. ReorgEvents \in Seq([id : Block, revert : BOOLEAN])
      BY <1>1, ReorgEventsAre
    <3> QED BY <1>1, <2>1, <3>1, ConcatProperties
  <2> QED BY <2>1, <2>3, <2>4, <2>5 DEF DbTypeOK
<1>9. TypeOK'
  <2>1. MemoryTypeOK'
    BY <1>1, <1>2, <1>4 DEF Inv, TypeOK, MemoryTypeOK
  <2>2. ControlTypeOK' /\ FeedTypeOK'
    BY <1>1 DEF Inv, TypeOK, ControlTypeOK, FeedTypeOK, PC
  <2> QED BY <1>5, <1>8, <2>1, <2>2 DEF TypeOK
<1>10. ClosedInv' /\ CompareInv' /\ ReorgInv' /\ PendingReorgLinked'
  BY <1>1 DEF ClosedInv, CompareInv, ReorgInv, PendingReorgLinked, Open
<1>11. AcceptedIsChain'
  BY <1>1, <1>2, <1>6 DEF AcceptedIsChain
<1>12. StreamInv'
  BY <1>1, <1>2, <1>6 DEF StreamInv, Agree
<1> QED BY <1>3, <1>5, <1>9, <1>10, <1>11, <1>12 DEF Inv
-----------------------------------------------------------------------------
(* A program that ends by itself forgets what a crash forgets.             *)
LEMMA ExitInv == ASSUME Inv, OpenFails \/ PipelineGone \/ FinishReorgFails \/ EnterNormalFails
                 PROVE  Inv'
<1>1. Forget /\ UNCHANGED db /\ faults' = faults
  BY DEF OpenFails, PipelineGone, FinishReorgFails, EnterNormalFails, ExitWithError
<1>2. faults' \in 0..MaxFaults
  BY <1>1 DEF Inv, TypeOK, ControlTypeOK
<1> QED BY <1>1, <1>2, ForgetInv

(* A crash loses memory only.                                              *)
LEMMA CrashInv == ASSUME Inv, Crash PROVE Inv'
<1>1. faults \in 0..MaxFaults /\ faults < MaxFaults /\ faults' = faults + 1 /\ MaxFaults \in Nat
  BY StoreAssumption DEF Inv, TypeOK, ControlTypeOK, Crash
<1>2. faults' \in 0..MaxFaults
  BY <1>1
<1> QED BY <1>2, ForgetInv DEF Crash

(* Another process may write to table tx, and fail.                        *)
LEMMA OutsideInv ==
    ASSUME Inv, tx' \in [Tx -> Seq(Nat \cup {NoHeight})], faults' \in 0..MaxFaults,
           UNCHANGED <<block, event, schema, indexer_state, memory, pc, block_arg,
                       test_step, feed>>
    PROVE  Inv'
<1>1. UNCHANGED <<block, event, schema, indexer_state, mode, node_chain_head_height,
                  chain_block_count, batch, pending_reorg, in_flight, pipeline, pc,
                  block_arg, test_step, stream, floor>>
  BY DEF memory, feed
<1>2. RowsInv' /\ Active' = Active /\ ActiveChain' = ActiveChain
  BY <1>1, SameRows DEF Inv
<1>3. TypeOK'
  <2>1. DbTypeOK' /\ MemoryTypeOK'
    BY <1>1 DEF Inv, TypeOK, DbTypeOK, MemoryTypeOK
  <2>2. PipelineTypeOK' /\ ControlTypeOK' /\ FeedTypeOK'
    BY <1>1 DEF Inv, TypeOK, PipelineTypeOK, ControlTypeOK, FeedTypeOK
  <2> QED BY <2>1, <2>2 DEF TypeOK
<1>4. PipelineInv' /\ Accepted' = Accepted /\ Open' = Open
  BY <1>1, <1>2 DEF Inv, PipelineInv, InPipeline, Accepted, Queued, Open
<1>5. AcceptedIsChain' /\ StreamInv' /\ CompareInv' /\ ReorgInv'
  BY <1>1, <1>4 DEF Inv, AcceptedIsChain, StreamInv, Agree, CompareInv, ReorgInv
<1>6. ClosedInv'
  BY <1>1, <1>2, <1>4 DEF Inv, ClosedInv, NoPipeline, NewPipeline
<1>7. PendingReorgLinked'
  BY <1>1, <1>2 DEF Inv, PendingReorgLinked, NoPipeline, NewPipeline
<1> QED BY <1>2, <1>3, <1>4, <1>5, <1>6, <1>7 DEF Inv

(* Inv is about the variables of the store.                                *)
LEMMA StutterInv == ASSUME Inv, UNCHANGED vars PROVE Inv'
<1>1. UNCHANGED <<block, event, schema, indexer_state, memory, pc, block_arg, test_step, feed>>
  BY DEF vars, memory, feed
<1>2. tx' \in [Tx -> Seq(Nat \cup {NoHeight})] /\ faults' \in 0..MaxFaults
  BY DEF vars, Inv, TypeOK, DbTypeOK, ControlTypeOK
<1> QED BY <1>1, <1>2, OutsideInv

(* Every step of every thread keeps the invariant.                         *)
LEMMA NextInv == ASSUME Inv, [Next]_vars PROVE Inv'
<1>1. CASE Start
  BY <1>1, StartInv
<1>2. CASE MainStep
  <2>1. CASE SelfTestSchema \/ SelfTestState \/ SelfTestDone
    BY <2>1, SelfTestInv
  <2>2. CASE OpenStore
    BY <2>2, OpenStoreInv
  <2>3. CASE OpenFails \/ PipelineGone \/ FinishReorgFails \/ EnterNormalFails
    BY <2>3, ExitInv
  <2>4. CASE FlushAtTip \/ FlushBelowTip \/ SetMode
    BY <2>4, FlushInv
  <2>5. CASE Compare
    BY <2>5, CompareStepInv
  <2>6. CASE FinishReorg
    BY <2>6, FinishReorgInv
  <2>7. CASE CheckInFlight \/ RestartWorkers \/ EnterNormal \/ SaveMode
    BY <2>7, ModeStepInv
  <2> QED BY <1>2, <2>1, <2>2, <2>3, <2>4, <2>5, <2>6, <2>7 DEF MainStep
<1>3. CASE Insert
  BY <1>3, InsertAtTipInv, InsertBelowTipInv, InsertInReorgInv DEF Insert
<1>4. CASE PipelineStep
  <2>1. CASE PassToFmt \/ PassToWriter
    BY <2>1, PassInv
  <2>2. CASE WriterCommit
    BY <2>2, WriterCommitInv
  <2>3. CASE WriterDone
    BY <2>3, WriterDoneInv
  <2>4. CASE WriterFails \/ WriterDisconnected \/ FmtDies \/ UtxoDies
    BY <2>4, DeathInv
  <2> QED BY <1>4, <2>1, <2>2, <2>3, <2>4 DEF PipelineStep
<1>5. CASE Crash
  BY <1>5, CrashInv
<1>6. CASE Wipe
  BY <1>6, WipeInv
<1>7. CASE UNCHANGED vars
  BY <1>7, StutterInv
<1> QED BY <1>1, <1>2, <1>3, <1>4, <1>5, <1>6, <1>7 DEF Next

(* The inductive invariant holds always.                                   *)
THEOREM Invariance == Spec => []Inv
<1>1. Init => Inv
  BY InitInv
<1>2. Inv /\ [Next]_vars => Inv'
  BY NextInv
<1> QED BY <1>1, <1>2, PTL DEF Spec

(* The database rows, the store's memory and its threads are what the code *)
(* takes them for (pg.rs, struct IndexerStore).                            *)
THEOREM TypeCorrect == Spec => []TypeOK
<1>1. Inv => TypeOK
  BY DEF Inv
<1> QED BY <1>1, Invariance, PTL

(* No block is lost, repeated or reordered on its way from insert through  *)
(* the three threads to the commit (pg.rs, AsyncBlockInsertWorker).        *)
THEOREM AcceptsOneChain == Spec => []AcceptedIsChain
<1>1. Inv => AcceptedIsChain
  BY DEF Inv
<1> QED BY <1>1, Invariance, PTL

(* A pending reorg is the top of what the source handed over, on top of    *)
(* indexed blocks, and no worker runs meanwhile (insert_when_in_reorg).    *)
THEOREM ReorgsAreLinked == Spec => []PendingReorgLinked
<1>1. Inv => PendingReorgLinked
  BY DEF Inv
<1> QED BY <1>1, Invariance, PTL

(* Whenever the program may be started again, after whatever crash, its    *)
(* start-up assertion on the highest row holds (IndexerStore::new).        *)
THEOREM StartsAgain == Spec => []StartupAssertion
<1>1. Inv => StartupAssertion
  BY IndexLength DEF Inv, StartupAssertion
<1> QED BY <1>1, Invariance, PTL

(* Outside a reorg the store has accepted the caller's whole chain.        *)
THEOREM AcceptsTheStream == Spec => []AcceptsStream
<1>1. Inv => AcceptsStream
  <2> SUFFICES ASSUME Inv, pc = "idle", pending_reorg = {}, pipeline.dead = 0
               PROVE  /\ Len(stream) <= chain_block_count
                      /\ stream = SubSeq(Accepted, 1, Len(stream))
    BY DEF AcceptsStream
  <2>1. /\ Len(stream) <= chain_block_count /\ Agree(stream, Accepted, Len(stream))
        /\ Len(Accepted) = chain_block_count
    BY DEF Inv, StreamInv, AcceptedIsChain, Open
  <2>2. Accepted \in Seq(Block) /\ stream \in Seq(Block)
    BY QueueTypes DEF Inv, TypeOK, FeedTypeOK, IsChain
  <2>3. stream = SubSeq(Accepted, 1, Len(stream))
    BY <2>1, <2>2 DEF Agree
  <2> QED BY <2>1, <2>3
<1> QED BY <1>1, Invariance, PTL

(* The assertions in insert_when_at_tip, insert_when_in_reorg, flush_workers*)
(* and the writer thread never fail.                                       *)
THEOREM NoAssertionFails == Spec => []AssertionsHold
<1>1. ASSUME Inv, pc = "compare", Drained PROVE DbHashes(Height[block_arg]) # {}
  BY <1>1, CompareFacts
<1>2. ASSUME Inv, Drained PROVE in_flight = {}
  BY <1>2, DrainedFacts
<1>3. ASSUME Inv PROVE BlocksOf(pipeline.written) \subseteq in_flight
  BY <1>3 DEF Inv, PipelineInv, InPipeline
<1>4. ASSUME Inv, pc = "finish_reorg"
      PROVE  /\ Unindexed # <<>>
             /\ {Height[b] : b \in ArrivingBlocks} = FirstDifferentHeight..chain_block_count
             /\ \A a, b \in ArrivingBlocks : Height[a] = Height[b] => a = b
  <2> DEFINE L == Len(ActiveChain)
             k == FirstDifferentHeight
  <2>1. /\ k \in 0..L /\ chain_block_count = L /\ L \in Nat
        /\ IsChain(stream) /\ Len(stream) = L + 1
        /\ ArrivingBlocks = {stream[i] : i \in k + 1..L + 1}
    BY <1>4, ReorgFacts
  <2> HIDE DEF k
  <2>2. PICK j \in k..L : Unindexed = SubSeq(stream, j + 1, Len(stream))
    BY <1>4, ArrivingInOrder DEF k
  <2>3. Unindexed # <<>>
    <3>1. j \in 0..Len(stream) /\ Len(stream) \in j..Len(stream) /\ Len(stream) - j > 0
      BY <2>1
    <3>2. Len(Unindexed) = Len(stream) - j
      BY <2>1, <2>2, <3>1, ByHeightOfSegment
    <3> QED BY <3>1, <3>2
  <2>4. \A i \in k + 1..L + 1 : Height[stream[i]] = i - 1 /\ i \in 1..L + 1
    BY <2>1 DEF IsChain
  <2>5. {Height[b] : b \in ArrivingBlocks} = k..L
    <3>1. \A i \in k + 1..L + 1 : Height[stream[i]] \in k..L
      BY <2>1, <2>4
    <3>2. \A h \in k..L : h + 1 \in k + 1..L + 1 /\ Height[stream[h + 1]] = h
      BY <2>1, <2>4
    <3>3. \A h \in k..L : \E b \in ArrivingBlocks : Height[b] = h
      BY <2>1, <3>2
    <3>4. \A b \in ArrivingBlocks : Height[b] \in k..L
      BY <2>1, <3>1
    <3> QED BY <3>3, <3>4
  <2>6. \A a, b \in ArrivingBlocks : Height[a] = Height[b] => a = b
    <3>1. \A i, j2 \in k + 1..L + 1 : Height[stream[i]] = Height[stream[j2]] => i = j2
      BY <2>1, <2>4
    <3> QED BY <2>1, <3>1
  <2> QED BY <2>1, <2>3, <2>5, <2>6 DEF k
<1>5. Inv => AssertionsHold
  BY <1>1, <1>2, <1>3, <1>4 DEF AssertionsHold
<1> QED BY <1>5, Invariance, PTL
-----------------------------------------------------------------------------
(* The places of the main thread outside of set_mode, and inside.          *)
Settled == {"idle", "flush", "flush_below", "compare", "finish_reorg", "set_mode"}
Entering == {"check_in_flight", "restart_workers", "enter_normal", "save_mode"}

(* Where a switch of mode stands: the schema comes first, indexer_state    *)
(* last; self_test does so with no rows.                                   *)
ModeSwitchInv ==
    /\ SchemaIsRecorded
    /\ Open /\ indexer_state = {FALSE} => schema = "normal"
    /\ pc \in Settled => schema = mode /\ indexer_state = {IsBulk(mode)}
    /\ pc \in Entering => mode = "normal"
    /\ pc = "save_mode" => schema = "normal"
    /\ pc = "set_schema" => indexer_state = {IsBulk(mode)}
    /\ pc = "self_test" => /\ Rows = {}
                           /\ test_step = 9 => mode = "fresh"
                           /\ test_step = 10 => mode = "fresh" /\ indexer_state = {TRUE}
    /\ pc = "down" => test_step = 0

LEMMA InsertStaysSettled ==
    ASSUME Inv, Insert
    PROVE  pc = "idle" /\ pc' \in Settled
               /\ UNCHANGED <<block, schema, indexer_state, mode, test_step>>
<1> USE DEF Receive, db, Settled
<1>1. CASE \E b \in Block : InsertAtTip(b)
  BY <1>1 DEF InsertAtTip, AfterTip
<1>2. CASE \E b \in Block : InsertBelowTip(b)
  BY <1>2 DEF InsertBelowTip
<1>3. CASE \E b \in Block : InsertInReorg(b)
  BY <1>3 DEF InsertInReorg
<1> QED BY <1>1, <1>2, <1>3 DEF Insert

(* A crash anywhere leaves what the database says.                         *)
LEMMA ForgetSwitch ==
    ASSUME ModeSwitchInv, Forget, UNCHANGED <<block, schema, indexer_state>>
    PROVE  ModeSwitchInv'
BY DEF ModeSwitchInv, SchemaIsRecorded, Forget, Rows, Open, Settled, Entering

LEMMA StartSwitch ==
    ASSUME Inv, ModeSwitchInv, Start
    PROVE  ModeSwitchInv'
<1>1. UNCHANGED <<block, schema, test_step>> /\ Rows' = Rows /\ test_step = 0
  BY DEF Start, ModeSwitchInv, Rows
<1>2. indexer_state \in {{}, {TRUE}, {FALSE}}
  BY DEF Inv, TypeOK, DbTypeOK
<1>3. CASE StoredMode = "fresh"
  <2>1. Rows = {} /\ pc' = "self_test"
    BY <1>3 DEF StoredMode, Start
  <2> QED BY <1>1, <2>1 DEF ModeSwitchInv, SchemaIsRecorded, Open, Settled, Entering
<1>4. CASE StoredMode # "fresh"
  <2>1. pc' = "set_schema" /\ mode' = StoredMode
    BY <1>4 DEF Start
  <2>2. indexer_state' = {IsBulk(mode')} /\ (indexer_state' = {FALSE} => indexer_state = {FALSE})
    <3>1. CASE indexer_state = {FALSE}
      BY <3>1, <2>1 DEF StoredMode, Start, IsBulk
    <3>2. CASE indexer_state # {FALSE}
      <4>1. indexer_state' = {TRUE} /\ mode' = "bulk"
        BY <3>2, <1>2, <1>4, <2>1 DEF StoredMode, Start
      <4> QED BY <4>1 DEF IsBulk
    <3> QED BY <3>1, <3>2
  <2> QED BY <1>1, <2>1, <2>2 DEF ModeSwitchInv, SchemaIsRecorded, Open, Settled, Entering
<1> QED BY <1>3, <1>4

(* The last mode the self test sets and records is fresh mode.             *)
LEMMA SelfTestSwitch ==
    ASSUME Inv, ModeSwitchInv, SelfTestSchema \/ SelfTestState \/ SelfTestDone
    PROVE  ModeSwitchInv'
<1>1. pc = "self_test" /\ Rows = {} /\ Rows' = Rows
  BY DEF SelfTestSchema, SelfTestState, SelfTestDone, ModeSwitchInv, Rows, db
<1>2. test_step \in 0..10
  BY DEF Inv, TypeOK, ControlTypeOK
<1>3. CASE SelfTestSchema
  <2>1. test_step' = test_step + 1 /\ test_step % 2 = 0 /\ test_step < 10 /\ pc' = pc
    BY <1>3 DEF SelfTestSchema
  <2>2. test_step' # 10 /\ (test_step' = 9 => test_step = 8)
    BY <1>2, <2>1
  <2>3. test_step = 8 => mode' = "fresh"
    <3>1. 8 \div 2 + 1 = 5
      OBVIOUS
    <3>2. SelfTestModes[5] = "fresh"
      BY DEF SelfTestModes
    <3> QED BY <1>3, <3>1, <3>2 DEF SelfTestSchema
  <2> QED BY <1>1, <2>1, <2>2, <2>3 DEF ModeSwitchInv, SchemaIsRecorded, Open, Settled, Entering
<1>4. CASE SelfTestState
  <2>1. test_step' = test_step + 1 /\ test_step % 2 = 1 /\ pc' = pc /\ mode' = mode
    BY <1>4 DEF SelfTestState, memory
  <2>2. test_step' # 9 /\ (test_step' = 10 => test_step = 9)
    BY <1>2, <2>1
  <2>3. test_step = 9 => mode' = "fresh" /\ indexer_state' = {TRUE}
    BY <1>1, <1>4, <2>1 DEF ModeSwitchInv, SelfTestState, IsBulk
  <2> QED BY <1>1, <2>1, <2>2, <2>3 DEF ModeSwitchInv, SchemaIsRecorded, Open, Settled, Entering
<1>5. CASE SelfTestDone
  <2>1. pc' = "set_schema" /\ mode' = "fresh" /\ indexer_state' = {TRUE}
    BY <1>1, <1>5 DEF SelfTestDone, ModeSwitchInv, memory, db
  <2> QED BY <1>1, <2>1 DEF ModeSwitchInv, SchemaIsRecorded, Open, Settled, Entering, IsBulk
<1> QED BY <1>3, <1>4, <1>5

(* Rows come only while the store is open.                                 *)
LEMMA PipelineSwitch ==
    ASSUME Inv, ModeSwitchInv, PipelineStep
    PROVE  ModeSwitchInv'
<1>1. UNCHANGED <<schema, indexer_state, mode, pc, test_step>>
  BY DEF PipelineStep, PassToFmt, PassToWriter, WriterCommit, WriterDone, WriterFails,
     WriterDisconnected, WriterDies, FmtDies, UtxoDies, pipelineFrame
<1>2. Open
  <2>1. pipeline # NoPipeline
    BY DEF PipelineStep, PassToFmt, PassToWriter, WriterCommit, WriterDone, WriterFails,
       WriterDisconnected, FmtDies, UtxoDies, NoPipeline, NewPipeline
  <2> QED BY <2>1 DEF Inv, ClosedInv
<1> QED BY <1>1, <1>2 DEF ModeSwitchInv, SchemaIsRecorded, Open, Settled, Entering, IsBulk

LEMMA ModeSwitch ==
    ASSUME ModeSwitchInv,
           OpenStore \/ SetMode \/ CheckInFlight \/ RestartWorkers \/ EnterNormal \/ SaveMode
    PROVE  ModeSwitchInv'
<1> USE DEF ModeSwitchInv, SchemaIsRecorded, Open, Settled, Entering, IsBulk, Rows, db
<1>1. CASE OpenStore
  BY <1>1 DEF OpenStore
<1>2. CASE SetMode
  BY <1>2 DEF SetMode, flushFrame
<1>3. CASE CheckInFlight \/ RestartWorkers
  BY <1>3 DEF CheckInFlight, RestartWorkers, memory
<1>4. CASE EnterNormal
  BY <1>4 DEF EnterNormal, memory
<1>5. CASE SaveMode
  BY <1>5 DEF SaveMode, memory
<1> QED BY <1>1, <1>2, <1>3, <1>4, <1>5

(* The steps of insert before a switch.                                    *)
LEMMA SettledSwitch ==
    ASSUME Inv, ModeSwitchInv,
           FlushAtTip \/ FlushBelowTip \/ Compare \/ FinishReorg \/ Insert
    PROVE  ModeSwitchInv'
<1>1. /\ pc \in Settled /\ pc' \in Settled
      /\ UNCHANGED <<schema, indexer_state, mode, test_step>>
  <2>1. CASE FlushAtTip
    BY <2>1 DEF FlushAtTip, flushFrame, AfterTip, Settled, db
  <2>2. CASE FlushBelowTip
    BY <2>2 DEF FlushBelowTip, flushFrame, Settled, db
  <2>3. CASE Compare
    BY <2>3 DEF Compare, Settled, db
  <2>4. CASE FinishReorg
    BY <2>4 DEF FinishReorg, Settled
  <2>5. CASE Insert
    BY <2>5, InsertStaysSettled DEF Settled
  <2> QED BY <2>1, <2>2, <2>3, <2>4, <2>5
<1>2. schema = mode /\ indexer_state = {IsBulk(mode)}
  BY <1>1 DEF ModeSwitchInv
<1> QED BY <1>1, <1>2 DEF ModeSwitchInv, SchemaIsRecorded, Open, Settled, Entering, IsBulk

(* "Commit to the new mode in the db last" (set_mode_uncodintionally):     *)
(* between operations schema and indexer_state are those of the store's    *)
(* mode, and over the rows of any block a recorded normal mode means that  *)
(* all keys are there, whatever crashed and when.                          *)
THEOREM SchemaFollowsMode == Spec => []SchemaIsRecorded
<1>1. Init => ModeSwitchInv
  BY DEF Init, ModeSwitchInv, SchemaIsRecorded, Open, Settled, Entering, Rows
<1>2. ASSUME Inv, ModeSwitchInv, [Next]_vars PROVE ModeSwitchInv'
  <2>1. CASE Start
    BY <1>2, <2>1, StartSwitch
  <2>2. CASE SelfTestSchema \/ SelfTestState \/ SelfTestDone
    BY <1>2, <2>2, SelfTestSwitch
  <2>3. CASE OpenStore \/ SetMode \/ CheckInFlight \/ RestartWorkers \/ EnterNormal \/ SaveMode
    BY <1>2, <2>3, ModeSwitch
  <2>4. CASE FlushAtTip \/ FlushBelowTip \/ Compare \/ FinishReorg \/ Insert
    BY <1>2, <2>4, SettledSwitch
  <2>5. CASE PipelineStep
    BY <1>2, <2>5, PipelineSwitch
  <2>6. CASE OpenFails \/ PipelineGone \/ FinishReorgFails \/ EnterNormalFails \/ Crash
    BY <1>2, <2>6, ForgetSwitch
       DEF OpenFails, PipelineGone, FinishReorgFails, EnterNormalFails, Crash,
           ExitWithError, db
  <2>7. CASE Wipe
    BY <1>2, <2>7 DEF Wipe, memory, ModeSwitchInv, SchemaIsRecorded, Open, Settled, Entering, Rows
  <2>8. CASE UNCHANGED vars
    BY <1>2, <2>8 DEF vars, ModeSwitchInv, SchemaIsRecorded, Open, Rows
  <2> QED BY <1>2, <2>1, <2>2, <2>3, <2>4, <2>5, <2>6, <2>7, <2>8 DEF Next, MainStep
<1>3. ModeSwitchInv => SchemaIsRecorded
  BY DEF ModeSwitchInv
<1> QED BY <1>1, <1>2, <1>3, Invariance, PTL DEF Spec
-----------------------------------------------------------------------------
(* A step that moves the index from one chain to a longer one, and logs    *)
(* the blocks that left and the blocks that came.                          *)
LEMMA IsAdvance ==
    ASSUME NEW k \in 0..Len(ActiveChain), NEW d, ActiveChain \in Seq(Block),
           IsChain(d), Len(d) > Len(ActiveChain), ActiveChain' = d,
           \A i \in 1..k : ActiveChain[i] = d[i],
           k < Len(ActiveChain) => ActiveChain[k + 1] # d[k + 1],
           event' = event \o
                (    [i \in 1..(Len(ActiveChain) - k) |->
                            Reverted(ActiveChain[Len(ActiveChain) + 1 - i])]
                  \o [i \in 1..(Len(d) - k) |-> Added(d[k + i])] )
    PROVE  Index!Advance
<1>1. d \in Seq(Block) /\ Index!IsChain(d)
  BY DEF IsChain, Index!IsChain
<1>2. SubSeq(ActiveChain, 1, k) = SubSeq(d, 1, k)
  BY <1>1
<1>3. Index!ForkPoint(ActiveChain, d, k)
  BY <1>2 DEF Index!ForkPoint
<1>4. event' = event \o Index!MoveEvents(ActiveChain, d, k)
  BY DEF Index!MoveEvents, Index!Added, Index!Reverted, Added, Reverted
<1> QED BY <1>1, <1>3, <1>4 DEF Index!Advance

(* The writer's transaction extends the index by its batch.                *)
LEMMA CommitAdvances == ASSUME Inv, WriterCommit PROVE Index!Advance
<1> DEFINE c == ActiveChain
           w == pipeline.writer
           d == c \o w
<1>1. /\ w \in Seq(Block) /\ w # <<>> /\ IsChain(d) /\ ActiveChain' = d
  BY CommitFacts
<1>2. c \in Seq(Block) /\ Len(c) \in Nat
  BY QueueTypes
<1>3. /\ Len(d) = Len(c) + Len(w) /\ Len(w) \in Nat \ {0}
      /\ \A i \in 1..Len(c) : c[i] = d[i]
      /\ \A i \in 1..Len(w) : d[Len(c) + i] = w[i]
  BY <1>1, <1>2
<1>4. event' = event \o AddedAll(w)
  BY DEF WriterCommit
<1>5. [i \in 1..(Len(d) - Len(c)) |-> Added(d[Len(c) + i])] = AddedAll(w)
  BY <1>1, <1>2, <1>3 DEF AddedAll
<1>6. [i \in 1..(Len(c) - Len(c)) |-> Reverted(c[Len(c) + 1 - i])] = <<>>
  BY <1>2
<1>7. <<>> \o AddedAll(w) = AddedAll(w)
  BY <1>1, EventsType
<1> HIDE DEF c, d, w
<1>8. Len(d) > Len(c) /\ Len(c) \in 0..Len(c) /\ ~(Len(c) < Len(c))
  BY <1>2, <1>3
<1> QED BY <1>1, <1>2, <1>3, <1>4, <1>5, <1>6, <1>7, <1>8, IsAdvance DEF c

(* The transaction of a reorg moves to the caller's chain.                 *)
LEMMA ReorgAdvances == ASSUME Inv, FinishReorg PROVE Index!Advance
<1>1. pc = "finish_reorg" /\ event' = event \o ReorgEvents
  BY DEF FinishReorg
<1>2. /\ FirstDifferentHeight \in 0..Len(ActiveChain)
      /\ Len(ActiveChain) \in Nat
      /\ IsChain(stream) /\ Len(stream) = Len(ActiveChain) + 1
      /\ \A i \in 1..FirstDifferentHeight : ActiveChain[i] = stream[i]
      /\ FirstDifferentHeight < Len(ActiveChain) =>
            ActiveChain[FirstDifferentHeight + 1] # stream[FirstDifferentHeight + 1]
  BY <1>1, ReorgFacts DEF Agree
<1>3. ActiveChain \in Seq(Block) /\ ActiveChain' = stream
  BY QueueTypes, ReorgCommitFacts
<1>4. Len(stream) > Len(ActiveChain)
  BY <1>2
<1>5. event' = event \o
        (    [i \in 1..(Len(ActiveChain) - FirstDifferentHeight) |->
                Reverted(ActiveChain[Len(ActiveChain) + 1 - i])]
          \o [i \in 1..(Len(stream) - FirstDifferentHeight) |->
                Added(stream[FirstDifferentHeight + i])] )
  BY <1>1, ReorgEventsAre
<1> QED BY <1>2, <1>3, <1>4, <1>5, IsAdvance

(* Every other step leaves the two tables alone that readers follow.       *)
LEMMA OtherStepsKeepIndex ==
    ASSUME [Next]_vars, ~WriterCommit, ~FinishReorg, ~Wipe
    PROVE  UNCHANGED <<block, event>>
<1>1. CASE Start
  BY <1>1 DEF Start
<1>2. CASE MainStep
  BY <1>2 DEF MainStep, SelfTestSchema, SelfTestState, SelfTestDone, OpenStore, OpenFails,
     FlushAtTip, FlushBelowTip, Compare, PipelineGone, FinishReorgFails, SetMode,
     CheckInFlight, RestartWorkers, EnterNormal, EnterNormalFails, SaveMode,
     ExitWithError, flushFrame, db
<1>3. CASE Insert
  BY <1>3 DEF Insert, InsertAtTip, InsertBelowTip, InsertInReorg, Receive, db
<1>4. CASE PipelineStep
  BY <1>4 DEF PipelineStep, PassToFmt, PassToWriter, WriterDone, WriterFails,
     WriterDisconnected, WriterDies, FmtDies, UtxoDies
<1>5. CASE Crash
  BY <1>5 DEF Crash, db
<1>6. CASE UNCHANGED vars
  BY <1>6 DEF vars
<1> QED BY <1>1, <1>2, <1>3, <1>4, <1>5, <1>6 DEF Next

(* What the indexer's readers are promised (pg.rs, comment at the top;     *)
(* init.sql, table event): each transaction of the writer or of a reorg    *)
(* moves to a longer chain in one step and logs exactly the blocks that    *)
(* left, from the top down, and those that came, from the bottom up.       *)
THEOREM ImplementsIndex == Spec => IndexSpec
<1>1. Init => Index!Init
  <2> SUFFICES ASSUME Init PROVE Index!Init
    OBVIOUS
  <2>1. Active = {}
    BY DEF Init, Active
  <2> QED BY <2>1, ByHeightOfNothing DEF Init, Index!Init, ActiveChain
<1>2. ASSUME Inv, [Next]_vars
      PROVE  [Index!Advance \/ Index!Wipe]_<<ActiveChain, event>>
  <2>1. CASE WriterCommit
    BY <1>2, <2>1, CommitAdvances
  <2>2. CASE FinishReorg
    BY <1>2, <2>2, ReorgAdvances
  <2>3. CASE Wipe
    <3>1. Active' = {} /\ event' = <<>>
      BY <2>3 DEF Wipe, Active
    <3>2. ActiveChain' = ByHeight(Active')
      BY DEF ActiveChain, ByHeight
    <3> QED BY <3>1, <3>2, ByHeightOfNothing DEF Index!Wipe
  <2>4. CASE ~WriterCommit /\ ~FinishReorg /\ ~Wipe
    BY <1>2, <2>4, OtherStepsKeepIndex, SameRows
  <2> QED BY <2>1, <2>2, <2>3, <2>4
<1> QED BY <1>1, <1>2, Invariance, PTL DEF Spec, IndexSpec, Index!Spec

(* "You can follow them one by one, to follow blockchain state" (init.sql, *)
(* table event): the whole log, applied to the empty chain, gives the      *)
(* chain that is indexed, after any reorgs, crashes and wipes.             *)
THEOREM LogReplays == Spec => []EventsReplay
<1>1. Init => EventsReplay
  <2> SUFFICES ASSUME Init PROVE EventsReplay
    OBVIOUS
  <2>1. event = <<>> /\ Active = {}
    BY DEF Init, Active
  <2> QED BY <2>1, ByHeightOfNothing, FollowNothing DEF EventsReplay, ActiveChain, Replay
<1>2. ASSUME Inv, EventsReplay, [Index!Advance \/ Index!Wipe]_<<ActiveChain, event>>
      PROVE  EventsReplay'
  <2>1. CASE Index!Advance
    <3>1. PICK k \in 0..Len(ActiveChain) :
            /\ Index!ForkPoint(ActiveChain, ActiveChain', k)
            /\ event' = event \o Index!MoveEvents(ActiveChain, ActiveChain', k)
      BY <2>1 DEF Index!Advance
    <3> DEFINE c == ActiveChain
               d == ActiveChain'
    <3>2. c \in Seq(Block) /\ d \in Seq(Block) /\ Len(d) > Len(c)
      BY <1>2, <2>1 DEF Index!Advance, Index!IsChain, Inv, RowsInv, IsChain
    <3>3. event \in Seq(Event) /\ Replay(event) = c
      BY <1>2 DEF Inv, TypeOK, DbTypeOK, Event, EventsReplay
    <3>4. ForkPoint(c, d, k) /\ event' = event \o MoveEvents(c, d, k)
      BY <3>1 DEF Index!ForkPoint, Index!MoveEvents, Index!Added, Index!Reverted,
         ForkPoint, MoveEvents, Added, Reverted
    <3> HIDE DEF c, d
    <3>5. k \in 0..Len(c) /\ k <= Len(d)
      BY <3>2 DEF c
    <3>6. Replay(event') = d
      BY <3>2, <3>3, <3>4, <3>5, MoveReplays
    <3> QED BY <3>6 DEF EventsReplay, Replay, Follow, d
  <2>2. CASE Index!Wipe
    <3>1. ActiveChain' = <<>> /\ event' = <<>>
      BY <2>2 DEF Index!Wipe
    <3>2. Replay(<<>>) = <<>>
      BY FollowNothing DEF Replay
    <3> QED BY <3>1, <3>2 DEF EventsReplay, Replay, Follow
  <2>3. CASE UNCHANGED <<ActiveChain, event>>
    BY <1>2, <2>3 DEF EventsReplay, Replay, Follow
  <2> QED BY <1>2, <2>1, <2>2, <2>3
<1> QED BY <1>1, <1>2, Invariance, ImplementsIndex, PTL DEF Spec, IndexSpec, Index!Spec
=============================================================================
