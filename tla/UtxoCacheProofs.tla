--------------------------- MODULE UtxoCacheProofs ----------------------------
(***************************************************************************)
(* Safety of the UTXO cache, for every block tree, every set of outputs,   *)
(* and any number of crashes and lost connections.                         *)
(*                                                                         *)
(* The thread that owns the cache does not know what became of the batches *)
(* it has sent on.  Its cache is right about the chain of blocks it has    *)
(* seen, whether they are in the database, in the other threads, or lost   *)
(* with a thread that died.  CacheInv says so of one chain d, cut into     *)
(* the parts that each thread holds.                                       *)
(***************************************************************************)
EXTENDS UtxoCache, IndexerStoreProofs

(* The part of d from place i + 1 to place j.                              *)
Segment(s, d, i, j) == Len(s) = j - i /\ \A n \in 1..j - i : s[n] = d[i + n]

(* The blocks accepted since the index began: up to place a they are       *)
(* indexed, up to l with the writer or lost, up to f with the formatter,   *)
(* up to u with the first thread, and the rest is the batch.               *)
Line(d, a, l, f, u) ==
    /\ IsChain(d) /\ Len(d) = chain_block_count
    /\ a \in Nat /\ l \in Nat /\ f \in Nat /\ u \in Nat
    /\ a <= l /\ l <= f /\ f <= u /\ u <= Len(d)
    /\ Segment(ActiveChain, d, 0, a)
    /\ pipeline.dead = 0 => Segment(pipeline.writer, d, a, l)
    /\ Segment(pipeline.fmt, d, l, f)
    /\ Segment(pipeline.utxo, d, f, u)
    /\ Segment(batch, d, u, Len(d))
    /\ pc \notin {"flush_below", "compare"} =>
            Len(stream) <= Len(d) /\ Agree(stream, d, Len(stream))

FirstBlocks(d, n) == {d[i] : i \in 1..n}
Unspent(d, n) == CreatedBy(FirstBlocks(d, n)) \ SpentBy(FirstBlocks(d, n))

(* Up to where the thread has changed its cache.                           *)
Top(f, u) == IF utxo_step = "recv" THEN f ELSE u

(* The cache is what is unspent, but for what is in the database.          *)
Caches(d, n) == entries \subseteq Unspent(d, n) /\ Unspent(d, n) \subseteq entries \cup DbOutputs

(* The threads run: the store is open, and not in a reorg.                 *)
Running == Open /\ pending_reorg = {}

(* A step that is not "recv" has a batch at hand.  When the first thread's *)
(* receiver is gone, it has nothing left.  Without threads there is no     *)
(* cache.  With them, it is right about the blocks accepted so far.        *)
CacheInv ==
    /\ utxo_step \in {"recv", "fetch", "send"}
    /\ utxo_step # "recv" => pipeline.utxo # <<>>
    /\ missing \subseteq DbOutputs
    /\ pipeline.dead >= 2 => pipeline.fmt = <<>>
    /\ ~Running => entries = {} /\ missing = {}
    /\ Running =>
            \E d, a, l, f, u : Line(d, a, l, f, u) /\ Caches(d, Top(f, u))
-----------------------------------------------------------------------------
(* The first thread takes its steps beside the store's, or does a part of  *)
(* one of them that the store does at once.                                *)
LEMMA UStep == [UNext]_uvars => [Next]_vars
  BY DEF UNext, ConsumeUtxos, FetchMissingUtxos, SendToFmt, NewThreads, OtherMainStep, OtherThreads,
         Next, MainStep, PipelineStep, uvars

(* So what is proved of the store holds with the cache in it.              *)
THEOREM KeepsStore == USpec => Spec
<1>1. UInit => Init
  BY DEF UInit
<1> QED BY <1>1, UStep, PTL DEF USpec, Spec

(* On every chain the blocks spend what was created below them, once.      *)
LEMMA ValidChain ==
    ASSUME NEW d, IsChain(d), NEW i \in 1..Len(d)
    PROVE  /\ \A o \in Spends[d[i]] : \E j \in 1..i : o \in Creates[d[j]]
           /\ \A j \in 1..i - 1 : /\ Spends[d[i]] \cap Spends[d[j]] = {}
                                  /\ Creates[d[i]] \cap Creates[d[j]] = {}
<1>1. d \in Seq(Block) /\ d[i] \in Block /\ Len(d) \in Nat
  BY DEF IsChain
<1>2. PICK c \in Chains : d[i] \in {c[k] : k \in DOMAIN c}
  BY <1>1, UtxoAssumption
<1>3. IsChain(c) /\ c \in Seq(Block)
  BY ChainsAreChains DEF IsChain
<1>4. PICK k \in 1..Len(c) : d[i] = c[k]
  BY <1>2, <1>3
<1>5. k = i
  BY <1>3, <1>4 DEF IsChain
<1>6. \A j \in 1..i : c[j] = d[j]
  BY <1>3, <1>4, <1>5, SameBelow
<1>7. i \in DOMAIN c
  BY <1>3, <1>4, <1>5
<1>8. /\ Spends[c[i]] \subseteq UNION {Creates[c[j]] : j \in 1..i}
      /\ \A j \in 1..i - 1 : /\ Spends[c[i]] \cap Spends[c[j]] = {}
                             /\ Creates[c[i]] \cap Creates[c[j]] = {}
  BY <1>2, <1>7, UtxoAssumption
<1>9. c[i] = d[i] /\ \A j \in 1..i - 1 : c[j] = d[j]
  BY <1>6
<1>10. ASSUME NEW o \in Spends[d[i]] PROVE \E j \in 1..i : o \in Creates[d[j]]
  <2>1. PICK j \in 1..i : o \in Creates[c[j]]
    BY <1>8, <1>9, <1>10
  <2> QED BY <1>6, <2>1
<1> QED BY <1>8, <1>9, <1>10

(* An output is created by one block of a chain and spent by one, which is *)
(* not below it.                                                           *)
LEMMA OneCreatorOneSpender ==
    ASSUME NEW d, IsChain(d), NEW i \in 1..Len(d), NEW o
    PROVE  /\ \A j \in 1..Len(d) : o \in Creates[d[i]] /\ o \in Creates[d[j]] => i = j
           /\ \A j \in 1..Len(d) : o \in Spends[d[i]] /\ o \in Spends[d[j]] => i = j
           /\ \A j \in 1..Len(d) : o \in Creates[d[i]] /\ o \in Spends[d[j]] => i <= j
<1>0. Len(d) \in Nat
  BY DEF IsChain
<1>1. ASSUME NEW m \in 1..Len(d), NEW n \in 1..Len(d), n < m
      PROVE  Spends[d[m]] \cap Spends[d[n]] = {} /\ Creates[d[m]] \cap Creates[d[n]] = {}
  <2>1. n \in 1..m - 1
    BY <1>1
  <2> QED BY <2>1, ValidChain
<1>2. \A j \in 1..Len(d) : o \in Creates[d[i]] /\ o \in Creates[d[j]] => i = j
  <2> TAKE j \in 1..Len(d)
  <2>1. j < i \/ i < j \/ i = j
    OBVIOUS
  <2> QED BY <1>1, <2>1
<1>3. \A j \in 1..Len(d) : o \in Spends[d[i]] /\ o \in Spends[d[j]] => i = j
  <2> TAKE j \in 1..Len(d)
  <2>1. j < i \/ i < j \/ i = j
    OBVIOUS
  <2> QED BY <1>1, <2>1
<1>4. ASSUME NEW j \in 1..Len(d), o \in Creates[d[i]], o \in Spends[d[j]]
      PROVE  i <= j
  <2>1. PICK k \in 1..j : o \in Creates[d[k]]
    BY <1>4, ValidChain
  <2>2. k \in 1..Len(d)
    OBVIOUS
  <2>3. k = i
    BY <1>2, <1>4, <2>1, <2>2
  <2> QED BY <2>1, <2>3
<1> QED BY <1>2, <1>3, <1>4
-----------------------------------------------------------------------------
(* The outputs of the first blocks of a chain, by the places of the blocks.*)
LEMMA FirstOutputs ==
    ASSUME NEW d, NEW n \in Nat, NEW o
    PROVE  /\ o \in CreatedBy(FirstBlocks(d, n)) <=> \E i \in 1..n : o \in Creates[d[i]]
           /\ o \in SpentBy(FirstBlocks(d, n)) <=> \E i \in 1..n : o \in Spends[d[i]]
           /\ o \in Unspent(d, n) <=> /\ \E i \in 1..n : o \in Creates[d[i]]
                                      /\ \A i \in 1..n : o \notin Spends[d[i]]
  BY DEF CreatedBy, SpentBy, FirstBlocks, Unspent

(* The blocks of a segment, and their outputs.                             *)
LEMMA SegmentBlocks ==
    ASSUME NEW d, NEW s, s \in Seq(Block), NEW i \in Nat, NEW j \in Nat, i <= j,
           Segment(s, d, i, j)
    PROVE  BlocksOf(s) = {d[n] : n \in i + 1..j}
<1>1. DOMAIN s = 1..j - i /\ \A n \in 1..j - i : s[n] = d[i + n]
  BY DEF Segment
<1>2. \A n \in 1..j - i : s[n] \in {d[m] : m \in i + 1..j}
  BY <1>1
<1>3. ASSUME NEW n \in i + 1..j PROVE d[n] \in BlocksOf(s)
  <2>1. n - i \in 1..j - i /\ i + (n - i) = n
    OBVIOUS
  <2>2. s[n - i] = d[n]
    BY <1>1, <2>1
  <2> QED BY <1>1, <2>1, <2>2 DEF BlocksOf
<1> QED BY <1>1, <1>2, <1>3 DEF BlocksOf

(* What a segment's blocks create and spend.                               *)
LEMMA SegmentOutputs ==
    ASSUME NEW d, NEW s, s \in Seq(Block), NEW i \in Nat, NEW j \in Nat, i <= j,
           Segment(s, d, i, j), NEW o
    PROVE  /\ o \in CreatedBy(BlocksOf(s)) <=> \E n \in i + 1..j : o \in Creates[d[n]]
           /\ o \in SpentBy(BlocksOf(s)) <=> \E n \in i + 1..j : o \in Spends[d[n]]
  BY SegmentBlocks DEF CreatedBy, SpentBy

(* What is in the database, and that only a wipe removes something.        *)
LEMMA IndexedOutputs == CreatedBy(Active) \subseteq DbOutputs
  BY DEF CreatedBy, DbOutputs, Active, Rows

(* No step but the wipe of the database deletes a row.                     *)
LEMMA OutputsStay ==
    ASSUME Inv, [Next]_vars, ~Wipe
    PROVE  DbOutputs \subseteq DbOutputs'
<1>1. Rows \subseteq Rows'
  <2>1. CASE WriterCommit
    BY <2>1 DEF WriterCommit, Rows
  <2>2. CASE FinishReorg
    BY <2>2, ReorgCommitFacts
  <2>3. CASE ~WriterCommit /\ ~FinishReorg
    BY <2>3, OtherStepsKeepIndex, SameRows
  <2> QED BY <2>1, <2>2, <2>3
<1> QED BY <1>1 DEF DbOutputs, CreatedBy

(* Where no threads run, they hold nothing.                                *)
LEMMA StoppedFacts ==
    ASSUME Inv, ~Running
    PROVE  /\ pipeline = NoPipeline /\ pipeline.dead = 0 /\ pipeline.utxo = <<>>
           /\ pipeline.fmt = <<>> /\ pipeline.writer = <<>> /\ pipeline.written = <<>>
<1>1. pipeline = NoPipeline
  BY PendingFacts DEF Inv, ClosedInv, Running
<1> QED BY <1>1 DEF NoPipeline, NewPipeline
-----------------------------------------------------------------------------
(* Steps of the main thread that move no block.                            *)
LEMMA LineKept ==
    ASSUME Inv, CacheInv, Running, Running',
           UNCHANGED <<cache, block, chain_block_count, batch>>,
           pipeline'.utxo = pipeline.utxo, pipeline'.fmt = pipeline.fmt,
           pipeline'.writer = pipeline.writer, pipeline'.dead = pipeline.dead,
           \/ pc' \in {"flush_below", "compare"}
           \/ pc \notin {"flush_below", "compare"} /\ stream' = stream
    PROVE  CacheInv'
<1>1. PICK d, a, l, f, u : Line(d, a, l, f, u) /\ Caches(d, Top(f, u))
  BY DEF CacheInv
<1>2. ActiveChain' = ActiveChain /\ Rows' = Rows
  BY SameRows
<1>3. /\ utxo_step' = utxo_step /\ entries' = entries /\ missing' = missing
      /\ DbOutputs' = DbOutputs
  BY <1>2 DEF cache, DbOutputs
<1>4. Line(d, a, l, f, u)'
  BY <1>1, <1>2 DEF Line, Segment, Agree
<1>5. Caches(d, Top(f, u))'
  BY <1>1, <1>3 DEF Caches, Top
<1> QED BY <1>3, <1>4, <1>5 DEF CacheInv

(* Without threads before and after, no cache.                             *)
LEMMA NoLine ==
    ASSUME Inv, Inv', CacheInv, ~Running, ~Running', UNCHANGED cache
    PROVE  CacheInv'
<1>1. pipeline'.dead = 0 /\ pipeline'.utxo = <<>>
  <2>1. pipeline' = NoPipeline'
    BY DEF Running, Inv, ClosedInv, PendingReorgLinked
  <2> QED BY <2>1 DEF NoPipeline, NewPipeline
<1>2. utxo_step' = "recv" /\ entries' = {} /\ missing' = {}
  BY StoppedFacts DEF CacheInv, cache
<1> QED BY <1>1, <1>2 DEF CacheInv

(* New threads, or none, and a new cache.                                  *)
LEMMA NewLine ==
    ASSUME Inv', NewCache, pipeline'.utxo = <<>>, pipeline'.fmt = <<>>,
           pipeline'.writer = <<>>, pipeline'.dead = 0,
           pc' \notin {"flush_below", "compare"}
    PROVE  CacheInv'
<1> DEFINE d == Accepted'
           n == Len(ActiveChain')
<1>1. entries' = {} /\ missing' = {} /\ utxo_step' = "recv"
  BY DEF NewCache
<1>2. ASSUME Running'
      PROVE \E c, a, l, f, u : Line(c, a, l, f, u)' /\ Caches(c, Top(f, u))'
  <2>1. /\ ActiveChain' \in Seq(Block) /\ batch' \in Seq(Block) /\ n \in Nat
        /\ BlocksOf(ActiveChain') = Active'
    BY DEF Inv, RowsInv, IsChain, TypeOK, MemoryTypeOK
  <2>2. d = ActiveChain' \o batch'
    <3>1. Queued' = batch'
      BY <2>1, ConcatEmptySeq, EmptySeq DEF Queued
    <3> QED BY <3>1 DEF Accepted
  <2>3. /\ Len(d) = n + Len(batch') /\ Len(batch') \in Nat
        /\ \A i \in 1..n : ActiveChain'[i] = d[i]
        /\ \A i \in 1..Len(batch') : batch'[i] = d[n + i]
    BY <2>1, <2>2
  <2>4. IsChain(d) /\ Len(d) = chain_block_count'
    BY <1>2 DEF Inv, AcceptedIsChain, Running
  <2>5. Len(stream') <= Len(d) /\ Agree(stream', d, Len(stream'))
    BY <1>2, <2>4 DEF Inv, StreamInv, Running
  <2>6. \A s \in {<<>>} : Segment(s, d, n, n)
    BY <2>1 DEF Segment
  <2>7. Segment(ActiveChain', d, 0, n) /\ Segment(batch', d, n, Len(d))
    BY <2>1, <2>3 DEF Segment
  <2>8. CreatedBy(FirstBlocks(d, n)) \subseteq DbOutputs'
    <3>1. \A i \in 1..n : d[i] \in Active'
      BY <2>1, <2>3 DEF BlocksOf
    <3>2. \A i \in 1..n : d[i] \in Rows'
      BY <3>1 DEF Active, Rows
    <3> QED BY <3>2 DEF FirstBlocks, CreatedBy, DbOutputs
  <2> HIDE DEF d, n
  <2>9. ASSUME NEW c, NEW m, c = d, m = n
        PROVE  Line(c, m, m, m, m)' /\ Caches(c, Top(m, m))'
    <3>1. Line(c, m, m, m, m)'
      <4>1. /\ IsChain(c) /\ Len(c) = chain_block_count' /\ m \in Nat /\ m <= Len(c)
            /\ Len(stream') <= Len(c)
        BY <2>1, <2>3, <2>4, <2>5, <2>9
      <4>2. /\ Segment(ActiveChain', c, 0, m) /\ Segment(pipeline'.writer, c, m, m)
            /\ Segment(pipeline'.fmt, c, m, m) /\ Segment(pipeline'.utxo, c, m, m)
            /\ Segment(batch', c, m, Len(c)) /\ Agree(stream', c, Len(stream'))
        BY <2>5, <2>6, <2>7, <2>9
      <4> QED BY <4>1, <4>2 DEF Line
    <3>2. Caches(c, Top(m, m))'
      BY <1>1, <2>8, <2>9 DEF Caches, Top, Unspent
    <3> QED BY <3>1, <3>2
  <2> QED BY <2>9
<1> QED BY <1>1, <1>2 DEF CacheInv
-----------------------------------------------------------------------------
(* Start, self test and wipe: the store is closed.                         *)
LEMMA ClosedStepLine ==
    ASSUME Inv, Inv', CacheInv, UNCHANGED cache,
           Start \/ Wipe \/ SelfTestSchema \/ SelfTestState \/ SelfTestDone
    PROVE  CacheInv'
<1>1. ~Running /\ ~Running'
  BY DEF Start, Wipe, SelfTestSchema, SelfTestState, SelfTestDone, Running, Open
<1> QED BY <1>1, NoLine

(* A block joins the batch: the chain gets longer at the end.              *)
LEMMA InsertAtTipLine ==
    ASSUME Inv, CacheInv, NEW b \in Block, InsertAtTip(b), UNCHANGED cache
    PROVE  CacheInv'
<1>1. /\ pc = "idle" /\ Receive(b) /\ pending_reorg = {} /\ pending_reorg' = {}
      /\ Height[b] = chain_block_count /\ batch' = Append(batch, b)
      /\ chain_block_count' = chain_block_count + 1
      /\ block' = block /\ pipeline' = pipeline
  BY DEF InsertAtTip, Receive, db
<1>2. pc' \in {"flush", "set_mode", "idle"}
  BY DEF InsertAtTip, AfterTip
<1>3. Running /\ Running'
  BY <1>1, <1>2 DEF Running, Open
<1>4. PICK d, a, l, f, u : Line(d, a, l, f, u) /\ Caches(d, Top(f, u))
  BY <1>3 DEF CacheInv
<1> DEFINE n == Len(d)
           e == ChainInsert(d, n, b)
<1>5. /\ d \in Seq(Block) /\ n \in Nat /\ IsChain(d) /\ n = chain_block_count
      /\ Len(stream) <= n /\ Agree(stream, d, Len(stream))
      /\ a \in Nat /\ l \in Nat /\ f \in Nat /\ u \in Nat
      /\ a <= l /\ l <= f /\ f <= u /\ u <= n
  BY <1>1, <1>4 DEF Line, IsChain
<1>6. /\ Len(stream) = n /\ (n > 0 => Parent[b] = d[n])
      /\ Len(stream') = n + 1 /\ stream'[n + 1] = b /\ Agree(stream', stream, n)
  <2>1. /\ Height[b] <= Len(stream) /\ Len(stream) \in Nat
        /\ Height[b] > 0 => Parent[b] = stream[Height[b]]
        /\ Len(stream') = Height[b] + 1
        /\ Agree(stream', stream, Height[b])
        /\ stream'[Height[b] + 1] = b
    BY <1>1, DeliverFacts
  <2>2. Len(stream) = n /\ Height[b] = n
    BY <1>1, <1>5, <2>1
  <2>3. n > 0 => n \in 1..n /\ stream[n] = d[n]
    BY <1>5, <2>2 DEF Agree
  <2> QED BY <2>1, <2>2, <2>3
<1>7. IsChain(e) /\ Len(e) = n + 1 /\ (\A i \in 1..n : e[i] = d[i]) /\ e[n + 1] = b
  BY <1>1, <1>5, <1>6, ChainInsertIsChain
<1> HIDE DEF e, n
<1>8. ActiveChain' = ActiveChain /\ Rows' = Rows
  BY <1>1, SameRows
<1>9. ASSUME NEW s, NEW i \in Nat, NEW j \in Nat, j <= n, Segment(s, d, i, j)
      PROVE  Segment(s, e, i, j)
  BY <1>5, <1>7, <1>9 DEF Segment
<1>10. Segment(batch', e, u, n + 1)
  <2>1. batch \in Seq(Block) /\ Len(batch) = n - u /\ \A i \in 1..n - u : batch[i] = d[u + i]
    BY <1>4, QueueTypes DEF Line, Segment, n
  <2>2. PICK m \in Nat : m = n - u /\ n = u + m /\ n + 1 = u + (m + 1) /\ (n + 1) - u = m + 1
    BY <1>5
  <2>3. /\ Len(batch') = m + 1 /\ batch'[m + 1] = b
        /\ \A i \in 1..m : batch'[i] = batch[i] /\ batch[i] = d[u + i]
    BY <1>1, <2>1, <2>2
  <2>4. ASSUME NEW i \in 1..m PROVE batch'[i] = e[u + i]
    <3>1. u + i \in 1..n
      BY <1>5, <2>2
    <3>2. e[u + i] = d[u + i]
      BY <1>7, <3>1
    <3> QED BY <2>3, <3>2
  <2>5. batch'[m + 1] = e[u + (m + 1)]
    BY <1>7, <2>2, <2>3
  <2>6. \A i \in 1..m + 1 : batch'[i] = e[u + i]
    BY <2>4, <2>5
  <2> QED BY <2>2, <2>3, <2>6 DEF Segment
<1>11. Agree(stream', e, n + 1)
  BY <1>5, <1>6, <1>7 DEF Agree
<1>12. /\ Segment(ActiveChain', e, 0, a) /\ (pipeline'.dead = 0 => Segment(pipeline'.writer, e, a, l))
       /\ Segment(pipeline'.fmt, e, l, f) /\ Segment(pipeline'.utxo, e, f, u)
  <2>1. 0 \in Nat /\ a <= n /\ l <= n /\ f <= n
    BY <1>5
  <2>2. /\ Segment(ActiveChain, d, 0, a) /\ (pipeline.dead = 0 => Segment(pipeline.writer, d, a, l))
        /\ Segment(pipeline.fmt, d, l, f) /\ Segment(pipeline.utxo, d, f, u)
    BY <1>4 DEF Line
  <2> QED BY <1>1, <1>5, <1>8, <1>9, <2>1, <2>2
<1>13. Unspent(e, Top(f, u)) = Unspent(d, Top(f, u))
  <2>1. \A i \in 1..Top(f, u) : e[i] = d[i]
    BY <1>5, <1>7 DEF Top
  <2> QED BY <2>1 DEF Unspent, FirstBlocks
<1>14. ASSUME NEW c, c = e PROVE Line(c, a, l, f, u)' /\ Caches(c, Top(f, u))'
  <2>1. Line(c, a, l, f, u)'
    <3>1. /\ IsChain(c) /\ Len(c) = chain_block_count' /\ u <= Len(c)
          /\ Len(stream') <= Len(c)
      BY <1>1, <1>5, <1>6, <1>7, <1>14
    <3>2. Segment(batch', c, u, Len(c)) /\ Agree(stream', c, Len(stream'))
      BY <1>6, <1>7, <1>10, <1>11, <1>14
    <3> QED BY <1>5, <1>12, <1>14, <3>1, <3>2 DEF Line
  <2>2. Caches(c, Top(f, u))'
    BY <1>4, <1>8, <1>13, <1>14 DEF Caches, Top, DbOutputs, cache
  <2> QED BY <2>1, <2>2
<1> QED BY <1>1, <1>3, <1>8, <1>14 DEF CacheInv, cache, DbOutputs

(* The other insertions, and the end of a change of modes, move no block.  *)
LEMMA IdleStepLine ==
    ASSUME Inv, Inv', CacheInv, UNCHANGED cache,
           \/ CheckInFlight \/ EnterNormal \/ SaveMode
           \/ \E b \in Block : InsertBelowTip(b) \/ InsertInReorg(b)
    PROVE  CacheInv'
<1>1. CASE CheckInFlight \/ EnterNormal \/ SaveMode
  <2>1. /\ pc \in {"check_in_flight", "enter_normal", "save_mode"}
        /\ pc' \in {"enter_normal", "restart_workers", "save_mode", "idle"}
        /\ UNCHANGED <<block, chain_block_count, batch, pending_reorg, pipeline, stream>>
    BY <1>1 DEF CheckInFlight, EnterNormal, SaveMode, db, memory, feed
  <2>2. Running /\ Running'
    BY <2>1 DEF Running, Open, Inv, ReorgInv
  <2> QED BY <2>1, <2>2, LineKept
<1>2. ASSUME NEW b \in Block, InsertBelowTip(b) PROVE CacheInv'
  <2>1. /\ pc = "idle" /\ pc' = "flush_below" /\ pending_reorg = {}
        /\ UNCHANGED <<block, chain_block_count, batch, pending_reorg, pipeline>>
    BY <1>2 DEF InsertBelowTip, Receive, db
  <2>2. Running /\ Running'
    BY <2>1 DEF Running, Open
  <2> QED BY <2>1, <2>2, LineKept
<1>3. ASSUME NEW b \in Block, InsertInReorg(b) PROVE CacheInv'
  <2>1. ~Running /\ ~Running'
    BY <1>3 DEF InsertInReorg, Running
  <2> QED BY <2>1, NoLine
<1> QED BY <1>1, <1>2, <1>3

(* The batch goes to the first thread.                                     *)
LEMMA FlushLine ==
    ASSUME Inv, CacheInv, UNCHANGED cache, FlushAtTip \/ FlushBelowTip \/ SetMode
    PROVE  CacheInv'
<1>1. /\ FlushBatch /\ UNCHANGED <<block, chain_block_count, pending_reorg, stream>>
      /\ pc \in {"flush", "flush_below", "set_mode"}
      /\ pc' \in {"idle", "set_mode", "compare", "check_in_flight"}
      /\ pc' = "compare" \/ pc # "flush_below"
  BY DEF FlushAtTip, FlushBelowTip, SetMode, flushFrame, feed, db, AfterTip
<1>2. Running /\ Running'
  BY <1>1 DEF Running, Open, Inv, ReorgInv
<1>3. CASE batch = <<>>
  BY <1>1, <1>2, <1>3, LineKept DEF FlushBatch
<1>4. CASE batch # <<>>
  <2>1. /\ pipeline.utxo = <<>> /\ batch' = <<>>
        /\ pipeline'.utxo = batch /\ pipeline'.fmt = pipeline.fmt
        /\ pipeline'.writer = pipeline.writer /\ pipeline'.dead = pipeline.dead
    BY <1>1, <1>4 DEF FlushBatch, Inv, TypeOK, PipelineTypeOK
  <2>2. PICK d, a, l, f, u : Line(d, a, l, f, u) /\ Caches(d, Top(f, u))
    BY <1>2 DEF CacheInv
  <2>3. ActiveChain' = ActiveChain /\ Rows' = Rows
    BY <1>1, SameRows
  <2>4. utxo_step = "recv" /\ utxo_step' = "recv" /\ entries' = entries /\ missing' = missing
    BY <2>1 DEF CacheInv, cache
  <2>5. f = u /\ Len(d) \in Nat
    BY <2>1, <2>2 DEF Line, Segment, IsChain
  <2>6. Line(d, a, l, f, Len(d))'
    <3>1. Segment(batch', d, Len(d), Len(d))
      BY <2>1, <2>5 DEF Segment
    <3>2. Segment(pipeline'.utxo, d, f, Len(d))
      BY <2>1, <2>2, <2>5 DEF Line
    <3>3. /\ Segment(ActiveChain', d, 0, a) /\ (pipeline'.dead = 0 => Segment(pipeline'.writer, d, a, l))
          /\ Segment(pipeline'.fmt, d, l, f)
      BY <2>1, <2>2, <2>3 DEF Line
    <3>4. /\ IsChain(d) /\ Len(d) = chain_block_count'
          /\ a \in Nat /\ l \in Nat /\ f \in Nat /\ Len(d) \in Nat
          /\ a <= l /\ l <= f /\ f <= Len(d) /\ Len(d) <= Len(d)
      BY <1>1, <2>2, <2>5 DEF Line
    <3>5. pc' \notin {"flush_below", "compare"} =>
                Len(stream') <= Len(d) /\ Agree(stream', d, Len(stream'))
      BY <1>1, <2>2 DEF Line
    <3> QED BY <3>1, <3>2, <3>3, <3>4, <3>5 DEF Line
  <2>7. Caches(d, Top(f, Len(d)))'
    BY <2>2, <2>3, <2>4 DEF Caches, Top, DbOutputs
  <2> QED BY <1>2, <2>1, <2>3, <2>4, <2>6, <2>7 DEF CacheInv, DbOutputs
<1> QED BY <1>3, <1>4
-----------------------------------------------------------------------------
(* A thread that holds something runs.                                     *)
LEMMA ThreadsRun ==
    ASSUME Inv, \/ pipeline.utxo # <<>> \/ pipeline.fmt # <<>>
                \/ pipeline.writer # <<>> \/ pipeline.written # <<>>
    PROVE  Running
  BY StoppedFacts

(* The steps of the threads leave the main thread and its caller alone.    *)
LEMMA ThreadStepFacts ==
    ASSUME Inv, Running, UNCHANGED pipelineFrame
    PROVE  Running' /\ UNCHANGED <<chain_block_count, batch, pc, stream>>
  BY DEF pipelineFrame, feed, Running, Open

(* The first thread, before it passes its batch on: what the batch creates *)
(* is cached, what it spends is taken out, and what it spends and was not  *)
(* cached is in the database.                                              *)
LEMMA ConsumeLine == ASSUME Inv, CacheInv, ConsumeUtxos PROVE CacheInv'
<1> DEFINE S == BlocksOf(pipeline.utxo)
<1>1. /\ utxo_step = "recv" /\ pipeline.utxo # <<>> /\ utxo_step' = "fetch"
      /\ entries' = (entries \cup CreatedBy(S)) \ SpentBy(S)
      /\ missing' = SpentBy(S) \ (entries \cup CreatedBy(S))
      /\ UNCHANGED <<block, chain_block_count, batch, pending_reorg, pipeline, pc, stream>>
  BY DEF ConsumeUtxos, EntriesAfter, MissingAfter, vars
<1>2. Running /\ Running'
  BY <1>1, ThreadsRun DEF Running, Open
<1>3. PICK d, a, l, f, u : Line(d, a, l, f, u) /\ Caches(d, Top(f, u))
  BY <1>2 DEF CacheInv
<1>4. /\ IsChain(d) /\ Len(d) \in Nat
      /\ f \in Nat /\ u \in Nat /\ f <= u /\ u <= Len(d)
      /\ Segment(pipeline.utxo, d, f, u) /\ pipeline.utxo \in Seq(Block)
      /\ Caches(d, f)
  BY <1>1, <1>3, QueueTypes DEF Line, IsChain, Top
<1>5. ActiveChain' = ActiveChain /\ Rows' = Rows /\ DbOutputs' = DbOutputs
  BY <1>1, SameRows DEF DbOutputs
<1> HIDE DEF S
<1>6. \A o : /\ o \in CreatedBy(S) <=> \E i \in f + 1..u : o \in Creates[d[i]]
             /\ o \in SpentBy(S) <=> \E i \in f + 1..u : o \in Spends[d[i]]
  BY <1>4, SegmentOutputs DEF S
<1>7. \A o, n : n \in Nat => (o \in Unspent(d, n) <=>
            (\E i \in 1..n : o \in Creates[d[i]]) /\ (\A i \in 1..n : o \notin Spends[d[i]]))
  BY FirstOutputs
<1>8. \A i \in 1..u : i \in 1..Len(d) /\ (i \in 1..f \/ i \in f + 1..u)
  BY <1>4
<1>9. (\A i \in f + 1..u : i \in 1..u) /\ (\A i \in 1..f : i \in 1..u)
  BY <1>4
<1>10. ASSUME NEW o, NEW i \in 1..u, NEW j \in 1..u, i \in f + 1..u, j \in 1..f
       PROVE  ~(o \in Spends[d[i]] /\ o \in Spends[d[j]]) /\ ~(o \in Creates[d[i]] /\ o \in Spends[d[j]])
  <2>1. i \in 1..Len(d) /\ j \in 1..Len(d) /\ i # j /\ ~(i <= j)
    BY <1>4, <1>8, <1>10
  <2> QED BY <1>4, <2>1, OneCreatorOneSpender
<1>11. ASSUME NEW o \in entries' PROVE o \in Unspent(d, u)
  <2>1. o \notin SpentBy(S) /\ (o \in entries \/ o \in CreatedBy(S))
    BY <1>1
  <2>2. CASE o \in entries
    <3>1. o \in Unspent(d, f)
      BY <1>4, <2>2 DEF Caches
    <3>2. (\E i \in 1..f : o \in Creates[d[i]]) /\ (\A i \in 1..f : o \notin Spends[d[i]])
      BY <1>4, <1>7, <3>1
    <3>3. (\E i \in 1..u : o \in Creates[d[i]]) /\ (\A i \in 1..u : o \notin Spends[d[i]])
      BY <1>6, <1>8, <1>9, <2>1, <3>2
    <3> QED BY <1>4, <1>7, <3>3
  <2>3. CASE o \in CreatedBy(S)
    <3>1. PICK i \in f + 1..u : o \in Creates[d[i]]
      BY <1>6, <2>3
    <3>2. \A j \in 1..f : o \notin Spends[d[j]]
      BY <1>9, <1>10, <3>1
    <3>3. (\E n \in 1..u : o \in Creates[d[n]]) /\ (\A n \in 1..u : o \notin Spends[d[n]])
      BY <1>6, <1>8, <1>9, <2>1, <3>1, <3>2
    <3> QED BY <1>4, <1>7, <3>3
  <2> QED BY <2>1, <2>2, <2>3
<1>12. ASSUME NEW o \in Unspent(d, u) PROVE o \in entries' \cup DbOutputs
  <2>1. PICK i \in 1..u : o \in Creates[d[i]]
    BY <1>4, <1>7
  <2>2. \A n \in 1..u : o \notin Spends[d[n]]
    BY <1>4, <1>7
  <2>3. o \notin SpentBy(S)
    BY <1>6, <1>9, <2>2
  <2>4. CASE i \in f + 1..u
    BY <1>1, <1>6, <2>1, <2>3, <2>4
  <2>5. CASE i \in 1..f
    <3>1. o \in Unspent(d, f)
      BY <1>4, <1>7, <1>9, <2>1, <2>2, <2>5
    <3> QED BY <1>1, <1>4, <2>3, <3>1 DEF Caches
  <2> QED BY <1>8, <2>4, <2>5
<1>13. ASSUME NEW o \in missing' PROVE o \in DbOutputs
  <2>1. o \in SpentBy(S) /\ o \notin entries /\ o \notin CreatedBy(S)
    BY <1>1
  <2>2. PICK i \in f + 1..u : o \in Spends[d[i]]
    BY <1>6, <2>1
  <2>3. i \in 1..Len(d) /\ i \in 1..u
    BY <1>8, <1>9
  <2>4. PICK j \in 1..i : o \in Creates[d[j]]
    BY <1>4, <2>2, <2>3, ValidChain
  <2>5. j \in 1..f
    <3>1. j \in 1..u
      BY <1>4, <2>3
    <3> QED BY <1>6, <1>8, <2>1, <2>4, <3>1
  <2>6. \A n \in 1..f : o \notin Spends[d[n]]
    BY <1>9, <1>10, <2>2, <2>3
  <2>7. o \in Unspent(d, f)
    BY <1>4, <1>7, <2>4, <2>5, <2>6
  <2> QED BY <1>4, <2>1, <2>7 DEF Caches
<1>14. Line(d, a, l, f, u)'
  BY <1>1, <1>3, <1>5 DEF Line, Segment, Agree
<1>15. Caches(d, Top(f, u))'
  BY <1>1, <1>5, <1>11, <1>12 DEF Caches, Top
<1>16. pipeline'.dead >= 2 => pipeline'.fmt = <<>>
  BY <1>1 DEF CacheInv
<1> QED BY <1>1, <1>2, <1>5, <1>13, <1>14, <1>15, <1>16 DEF CacheInv

(* What was missing is read, in whatever state the database is by then.    *)
LEMMA FetchLine == ASSUME Inv, CacheInv, FetchMissingUtxos PROVE CacheInv'
<1>1. /\ utxo_step = "fetch" /\ utxo_step' = "send" /\ missing' = {} /\ entries' = entries
      /\ UNCHANGED <<block, chain_block_count, batch, pending_reorg, pipeline, pc, stream>>
  BY DEF FetchMissingUtxos, vars
<1>2. Running /\ Running' /\ pipeline.utxo # <<>>
  BY <1>1, ThreadsRun DEF Running, Open, CacheInv
<1>3. PICK d, a, l, f, u : Line(d, a, l, f, u) /\ Caches(d, Top(f, u))
  BY <1>2 DEF CacheInv
<1>4. ActiveChain' = ActiveChain /\ Rows' = Rows
  BY <1>1, SameRows
<1>5. Line(d, a, l, f, u)'
  BY <1>1, <1>3, <1>4 DEF Line, Segment, Agree
<1>6. Caches(d, Top(f, u))'
  BY <1>1, <1>3, <1>4 DEF Caches, Top, DbOutputs
<1>7. pipeline'.dead >= 2 => pipeline'.fmt = <<>>
  BY <1>1 DEF CacheInv
<1> QED BY <1>1, <1>2, <1>5, <1>6, <1>7 DEF CacheInv
-----------------------------------------------------------------------------
(* A step of a thread cuts the same chain at other places.                 *)
LEMMA LineMoves ==
    ASSUME Inv, CacheInv, Running, UNCHANGED pipelineFrame,
           DbOutputs \subseteq DbOutputs', entries' = entries, missing' = missing,
           utxo_step' \in {"recv", "fetch", "send"},
           utxo_step' # "recv" => pipeline'.utxo # <<>>,
           pipeline'.dead >= 2 => pipeline'.fmt = <<>>,
           NEW d, NEW a, NEW l, NEW f, NEW u, Line(d, a, l, f, u), Caches(d, Top(f, u)),
           NEW k \in Nat, NEW m \in Nat, NEW n \in Nat, k <= m, m <= n, n <= u,
           Segment(ActiveChain', d, 0, k),
           pipeline'.dead = 0 => Segment(pipeline'.writer, d, k, m),
           Segment(pipeline'.fmt, d, m, n),
           Segment(pipeline'.utxo, d, n, u),
           Top(n, u)' = Top(f, u)
    PROVE  CacheInv'
<1>1. Running' /\ UNCHANGED <<chain_block_count, batch, pc, stream>>
  BY ThreadStepFacts
<1>2. Line(d, k, m, n, u)'
  <2>1. /\ IsChain(d) /\ Len(d) = chain_block_count' /\ u \in Nat /\ u <= Len(d)
        /\ Segment(batch', d, u, Len(d))
        /\ pc' \notin {"flush_below", "compare"} =>
                Len(stream') <= Len(d) /\ Agree(stream', d, Len(stream'))
    BY <1>1 DEF Line
  <2> QED BY <2>1 DEF Line
<1>3. Caches(d, Top(n, u))'
  <2>1. entries' \subseteq Unspent(d, Top(n, u)') /\ Unspent(d, Top(n, u)') \subseteq entries' \cup DbOutputs'
    BY DEF Caches
  <2> QED BY <2>1 DEF Caches
<1>4. missing' \subseteq DbOutputs'
  BY DEF CacheInv
<1> QED BY <1>1, <1>2, <1>3, <1>4 DEF CacheInv

(* Nothing is a segment without length.                                    *)
LEMMA EmptySegment ==
    ASSUME NEW d, NEW i \in Nat, NEW j \in Nat
    PROVE  /\ Segment(<<>>, d, i, i)
           /\ i <= j /\ Segment(<<>>, d, i, j) => i = j
  BY DEF Segment

(* The first thread's batch goes to the formatter, or is lost with it.     *)
LEMMA SendLine == ASSUME Inv, CacheInv, SendToFmt, [Next]_vars PROVE CacheInv'
<1>1. /\ utxo_step = "send" /\ utxo_step' = "recv" /\ entries' = entries /\ missing' = missing
      /\ PassToFmt \/ UtxoDies
  BY DEF SendToFmt
<1>2. /\ UNCHANGED pipelineFrame /\ block' = block /\ pipeline.utxo # <<>>
      /\ pipeline'.utxo = <<>> /\ pipeline'.writer = pipeline.writer
  BY <1>1 DEF PassToFmt, UtxoDies, Inv, TypeOK, PipelineTypeOK
<1>3. Running /\ ActiveChain' = ActiveChain /\ Rows' = Rows
  BY <1>2, ThreadsRun, SameRows
<1>4. PICK d, a, l, f, u : Line(d, a, l, f, u) /\ Caches(d, Top(f, u))
  BY <1>3 DEF CacheInv
<1>5. /\ a \in Nat /\ l \in Nat /\ f \in Nat /\ u \in Nat /\ a <= l /\ l <= f /\ f <= u
      /\ Segment(ActiveChain', d, 0, a) /\ Segment(pipeline'.utxo, d, u, u)
      /\ (pipeline.dead = 0 => Segment(pipeline.writer, d, a, l))
      /\ Segment(pipeline.fmt, d, l, f) /\ Segment(pipeline.utxo, d, f, u)
  <2>1. a \in Nat /\ l \in Nat /\ f \in Nat /\ u \in Nat /\ a <= l /\ l <= f /\ f <= u
    BY <1>4 DEF Line
  <2>2. Segment(pipeline'.utxo, d, u, u)
    BY <1>2, <2>1, EmptySegment
  <2> QED BY <1>3, <1>4, <2>1, <2>2 DEF Line
<1>6. Top(u, u)' = Top(f, u) /\ DbOutputs' = DbOutputs
  BY <1>1, <1>3 DEF Top, DbOutputs
<1>7. CASE PassToFmt
  <2>1. /\ pipeline.fmt = <<>> /\ pipeline'.fmt = pipeline.utxo
        /\ pipeline'.dead = pipeline.dead /\ pipeline.dead < 2
    BY <1>7 DEF PassToFmt, Inv, TypeOK, PipelineTypeOK
  <2>2. l = f
    BY <1>5, <2>1, EmptySegment
  <2>3. Segment(pipeline'.fmt, d, l, u) /\ (pipeline'.dead = 0 => Segment(pipeline'.writer, d, a, l))
    BY <1>2, <1>5, <2>1, <2>2
  <2>4. ~(pipeline'.dead >= 2) /\ l <= u /\ u <= u
    <3>1. pipeline'.dead \in Int /\ pipeline'.dead < 2
      BY <2>1, QueueTypes
    <3>2. l <= u /\ u <= u
      BY <1>5
    <3> QED BY <3>1, <3>2
  <2> QED BY <1>1, <1>2, <1>3, <1>4, <1>5, <1>6, <2>3, <2>4, LineMoves
<1>8. CASE UtxoDies
  <2>1. /\ pipeline.dead = 2 /\ pipeline'.dead = 3 /\ pipeline'.fmt = pipeline.fmt
    BY <1>8 DEF UtxoDies, Inv, TypeOK, PipelineTypeOK
  <2>2. pipeline'.fmt = <<>>
    BY <2>1 DEF CacheInv
  <2>3. Segment(pipeline'.fmt, d, u, u) /\ ~(pipeline'.dead = 0) /\ a <= u /\ u <= u
    BY <1>5, <2>1, <2>2, EmptySegment
  <2> QED BY <1>1, <1>2, <1>3, <1>4, <1>5, <1>6, <2>2, <2>3, LineMoves
<1> QED BY <1>1, <1>7, <1>8

(* The other threads' steps: the place of a batch changes, or it is lost.  *)
LEMMA ThreadLine ==
    ASSUME Inv, CacheInv, OtherThreads, UNCHANGED cache
    PROVE  CacheInv'
<1>1. /\ UNCHANGED pipelineFrame /\ pipeline'.utxo = pipeline.utxo
      /\ utxo_step' = utxo_step /\ entries' = entries /\ missing' = missing
      /\ pipeline'.utxo = pipeline.utxo
  BY DEF OtherThreads, PassToWriter, WriterCommit, WriterDone, WriterFails, WriterDisconnected,
         WriterDies, FmtDies, Inv, TypeOK, PipelineTypeOK, cache
<1>2. Running
  <2>1. pipeline.fmt # <<>> \/ pipeline.writer # <<>> \/ pipeline.written # <<>>
    BY DEF OtherThreads, PassToWriter, WriterCommit, WriterDone, WriterFails,
           WriterDisconnected, FmtDies
  <2> QED BY <2>1, ThreadsRun
<1>3. PICK d, a, l, f, u : Line(d, a, l, f, u) /\ Caches(d, Top(f, u))
  BY <1>2 DEF CacheInv
<1>4. /\ a \in Nat /\ l \in Nat /\ f \in Nat /\ u \in Nat /\ a <= l /\ l <= f /\ f <= u
      /\ Segment(ActiveChain, d, 0, a) /\ Segment(pipeline'.utxo, d, f, u)
      /\ (pipeline.dead = 0 => Segment(pipeline.writer, d, a, l))
      /\ Segment(pipeline.fmt, d, l, f)
  <2>1. a \in Nat /\ l \in Nat /\ f \in Nat /\ u \in Nat /\ a <= l /\ l <= f /\ f <= u
    BY <1>3 DEF Line
  <2> QED BY <1>1, <1>3, <2>1 DEF Line
<1>5. /\ utxo_step' \in {"recv", "fetch", "send"}
      /\ utxo_step' # "recv" => pipeline'.utxo # <<>>
      /\ pipeline.dead >= 2 => pipeline.fmt = <<>>
      /\ Top(f, u)' = Top(f, u)
      /\ f <= f /\ f <= u
  BY <1>1, <1>4 DEF CacheInv, Top
<1>6. pipeline.dead \in 0..3
  BY QueueTypes
<1>7. ASSUME block' = block
      PROVE  DbOutputs \subseteq DbOutputs' /\ Segment(ActiveChain', d, 0, a)
  BY <1>4, <1>7, SameRows DEF DbOutputs
<1>8. CASE PassToWriter
  <2>1. /\ pipeline.dead = 0 /\ pipeline'.dead = 0 /\ pipeline.writer = <<>>
        /\ pipeline'.writer = pipeline.fmt /\ pipeline'.fmt = <<>> /\ block' = block
    BY <1>8 DEF PassToWriter, Inv, TypeOK, PipelineTypeOK
  <2>2. a = l
    BY <1>4, <2>1, EmptySegment
  <2>3. Segment(pipeline'.writer, d, a, f) /\ Segment(pipeline'.fmt, d, f, f) /\ a <= f
    BY <1>4, <2>1, <2>2, EmptySegment
  <2> QED BY <1>1, <1>2, <1>3, <1>4, <1>5, <1>7, <2>1, <2>3, LineMoves
<1>9. CASE WriterCommit
  <2>1. /\ pipeline.dead = 0 /\ pipeline'.dead = 0 /\ pipeline'.writer = <<>>
        /\ pipeline'.fmt = pipeline.fmt
        /\ pipeline.writer \in Seq(Block) /\ ActiveChain' = ActiveChain \o pipeline.writer
    BY <1>9, CommitFacts DEF WriterCommit, Inv, TypeOK, PipelineTypeOK
  <2>2. Segment(pipeline'.writer, d, l, l) /\ Segment(pipeline'.fmt, d, l, f)
    BY <1>4, <2>1, EmptySegment
  <2>3. Segment(ActiveChain', d, 0, l)
    <3>1. /\ ActiveChain \in Seq(Block) /\ Len(ActiveChain) = a /\ Len(pipeline.writer) = l - a
          /\ \A i \in 1..a : ActiveChain[i] = d[i]
          /\ \A i \in 1..l - a : pipeline.writer[i] = d[a + i]
      <4>1. ActiveChain \in Seq(Block)
        BY QueueTypes
      <4>2. Len(ActiveChain) = a - 0 /\ \A i \in 1..a - 0 : ActiveChain[i] = d[0 + i]
        BY <1>4 DEF Segment
      <4>3. Len(pipeline.writer) = l - a /\ \A i \in 1..l - a : pipeline.writer[i] = d[a + i]
        BY <1>4, <2>1 DEF Segment
      <4> QED BY <1>4, <4>1, <4>2, <4>3
    <3>2. Len(ActiveChain') = l
      <4>1. Len(ActiveChain \o pipeline.writer) = Len(ActiveChain) + Len(pipeline.writer)
        <5>1. ActiveChain \in Seq(Block) /\ pipeline.writer \in Seq(Block)
          BY <2>1, <3>1
        <5> QED BY <5>1, ConcatProperties
      <4>2. a + (l - a) = l
        BY <1>4
      <4> QED BY <2>1, <3>1, <4>1, <4>2
    <3>3. ASSUME NEW i \in 1..l PROVE ActiveChain'[i] = d[i]
      <4>1. CASE i \in 1..a
        <5>1. (ActiveChain \o pipeline.writer)[i] = ActiveChain[i]
          <6>1. i <= Len(ActiveChain) /\ i \in 1..Len(ActiveChain) + Len(pipeline.writer)
            BY <1>4, <3>1, <4>1
          <6>2. ActiveChain \in Seq(Block) /\ pipeline.writer \in Seq(Block)
            BY <2>1, <3>1
          <6> QED BY <6>1, <6>2, ConcatProperties
        <5> QED BY <2>1, <3>1, <4>1, <5>1
      <4>2. CASE i > a
        <5>1. i - a \in 1..l - a /\ a + (i - a) = i
          BY <1>4, <4>2
        <5>2. (ActiveChain \o pipeline.writer)[i] = pipeline.writer[i - a]
          <6>1. /\ ~(i <= Len(ActiveChain)) /\ i - Len(ActiveChain) = i - a
                /\ i \in 1..Len(ActiveChain) + Len(pipeline.writer)
            BY <1>4, <3>1, <4>2
          <6>2. ActiveChain \in Seq(Block) /\ pipeline.writer \in Seq(Block)
            BY <2>1, <3>1
          <6> QED BY <6>1, <6>2, ConcatProperties
        <5>3. ActiveChain'[i] = pipeline.writer[i - a]
          BY <2>1, <5>2
        <5> QED BY <3>1, <5>1, <5>3
      <4> QED BY <1>4, <4>1, <4>2
    <3> QED BY <1>4, <3>2, <3>3 DEF Segment
  <2>4. DbOutputs \subseteq DbOutputs'
    <3>1. ~Wipe /\ [Next]_vars
      BY <1>2, <1>9 DEF Wipe, Running, Open, Next, PipelineStep
    <3> QED BY <3>1, OutputsStay
  <2>5. ~(pipeline'.dead >= 2) /\ l <= l
    BY <1>4, <2>1
  <2> QED BY <1>1, <1>2, <1>3, <1>4, <1>5, <2>2, <2>3, <2>4, <2>5, LineMoves
<1>10. CASE WriterDone
  <2>1. /\ pipeline'.dead = pipeline.dead /\ pipeline'.writer = pipeline.writer
        /\ pipeline'.fmt = pipeline.fmt /\ block' = block
    BY <1>10 DEF WriterDone, Inv, TypeOK, PipelineTypeOK
  <2> QED BY <1>1, <1>2, <1>3, <1>4, <1>5, <1>7, <2>1, LineMoves
<1>11. CASE WriterFails \/ WriterDisconnected
  <2>1. pipeline'.dead = 1 /\ pipeline'.fmt = pipeline.fmt /\ block' = block
    BY <1>11 DEF WriterFails, WriterDisconnected, WriterDies, Inv, TypeOK, PipelineTypeOK
  <2>2. ~(pipeline'.dead >= 2) /\ ~(pipeline'.dead = 0)
    BY <2>1
  <2> QED BY <1>1, <1>2, <1>3, <1>4, <1>5, <1>7, <2>1, <2>2, LineMoves
<1>12. CASE FmtDies
  <2>1. pipeline'.dead = 2 /\ pipeline'.fmt = <<>> /\ block' = block
    BY <1>12 DEF FmtDies, Inv, TypeOK, PipelineTypeOK
  <2>2. Segment(pipeline'.fmt, d, f, f) /\ ~(pipeline'.dead = 0) /\ a <= f
    BY <1>4, <2>1, EmptySegment
  <2> QED BY <1>1, <1>2, <1>3, <1>4, <1>5, <1>7, <2>1, <2>2, LineMoves
<1> QED BY <1>8, <1>9, <1>10, <1>11, <1>12 DEF OtherThreads
-----------------------------------------------------------------------------
(* Nothing is cached at first.                                             *)
LEMMA CacheInit == UInit => CacheInv
<1> SUFFICES ASSUME UInit PROVE CacheInv
  OBVIOUS
<1>1. /\ entries = {} /\ missing = {} /\ utxo_step = "recv" /\ ~Running
      /\ pipeline.dead = 0
  BY DEF UInit, Init, Running, Open, NoPipeline, NewPipeline
<1> QED BY <1>1 DEF CacheInv

(* With new threads, the index is all that was accepted.                   *)
LEMMA NewThreadsLine == ASSUME Inv', CacheInv, NewThreads PROVE CacheInv'
<1>1. NewCache /\ pc' \notin {"flush_below", "compare"}
  BY DEF NewThreads, OpenStore, Compare, FinishReorg, RestartWorkers, Crash, OpenFails,
         PipelineGone, FinishReorgFails, EnterNormalFails, ExitWithError, Forget
<1>2. \E m : pipeline' = NewPipeline(m)
  BY DEF NewThreads, OpenStore, Compare, FinishReorg, RestartWorkers, Crash, OpenFails,
         PipelineGone, FinishReorgFails, EnterNormalFails, ExitWithError, Forget, NoPipeline
<1>3. /\ pipeline'.utxo = <<>> /\ pipeline'.fmt = <<>> /\ pipeline'.writer = <<>>
      /\ pipeline'.dead = 0
  BY <1>2 DEF NewPipeline
<1> QED BY <1>1, <1>3, NewLine

(* Every step keeps the cache right.                                       *)
LEMMA CacheNext == ASSUME Inv, Inv', CacheInv, [UNext]_uvars PROVE CacheInv'
<1>1. CASE ConsumeUtxos
  BY <1>1, ConsumeLine
<1>2. CASE FetchMissingUtxos
  BY <1>2, FetchLine
<1>3. CASE SendToFmt
  <2>1. [Next]_vars
    BY UStep
  <2> QED BY <1>3, <2>1, SendLine
<1>4. CASE NewThreads
  BY <1>4, NewThreadsLine
<1>5. CASE OtherMainStep /\ UNCHANGED cache
  <2>1. CASE Start \/ Wipe \/ SelfTestSchema \/ SelfTestState \/ SelfTestDone
    BY <1>5, <2>1, ClosedStepLine
  <2>2. CASE Insert
    <3>1. PICK b \in Block : InsertAtTip(b) \/ InsertBelowTip(b) \/ InsertInReorg(b)
      BY <2>2 DEF Insert
    <3> QED BY <1>5, <3>1, InsertAtTipLine, IdleStepLine
  <2>3. CASE FlushAtTip \/ FlushBelowTip \/ SetMode
    BY <1>5, <2>3, FlushLine
  <2>4. CASE CheckInFlight \/ EnterNormal \/ SaveMode
    BY <1>5, <2>4, IdleStepLine
  <2> QED BY <1>5, <2>1, <2>2, <2>3, <2>4 DEF OtherMainStep
<1>6. CASE OtherThreads /\ UNCHANGED cache
  BY <1>6, ThreadLine
<1>7. CASE UNCHANGED uvars
  <2>1. /\ UNCHANGED <<block, chain_block_count, batch, pending_reorg, pipeline, pc, stream, cache>>
    BY <1>7 DEF uvars, vars
  <2>2. CASE Running
    <3>1. Running'
      BY <2>1, <2>2 DEF Running, Open
    <3> QED
      <4>1. PICK d, a, l, f, u : Line(d, a, l, f, u) /\ Caches(d, Top(f, u))
        BY <2>2 DEF CacheInv
      <4>2. ActiveChain' = ActiveChain /\ Rows' = Rows
        BY <2>1, SameRows
      <4>3. /\ utxo_step' = utxo_step /\ entries' = entries /\ missing' = missing
            /\ DbOutputs' = DbOutputs
        BY <2>1, <4>2 DEF cache, DbOutputs
      <4>4. Line(d, a, l, f, u)' /\ Caches(d, Top(f, u))'
        BY <2>1, <4>1, <4>2, <4>3 DEF Line, Segment, Agree, Caches, Top
      <4> QED BY <2>1, <3>1, <4>3, <4>4 DEF CacheInv
  <2>3. CASE ~Running
    <3>1. ~Running'
      BY <2>1, <2>3 DEF Running, Open
    <3> QED BY <2>1, <2>3, <3>1, NoLine
  <2> QED BY <2>2, <2>3
<1> QED BY <1>1, <1>2, <1>3, <1>4, <1>5, <1>6, <1>7 DEF UNext

(* The cache's invariant, on top of the store's.                           *)
THEOREM CacheInvariance == USpec => [](Inv /\ CacheInv)
<1>1. UInit => Inv /\ CacheInv
  BY CacheInit, InitInv DEF UInit
<1>2. Inv /\ CacheInv /\ [UNext]_uvars => Inv' /\ CacheInv'
  <2> SUFFICES ASSUME Inv, CacheInv, [UNext]_uvars PROVE Inv' /\ CacheInv'
    OBVIOUS
  <2>1. Inv'
    BY UStep, NextInv
  <2> QED BY <2>1, CacheNext
<1> QED BY <1>1, <1>2, PTL DEF USpec

(* The assertion that all outputs looked up are found (pg.rs, function     *)
(* fetch_missing_utxos) cannot fail, however the writer lags behind, and   *)
(* neither can it inside finish_reorg.                                     *)
THEOREM InputsAreFound == USpec => []EveryInputFound
<1>1. ASSUME Inv, pc = "finish_reorg"
      PROVE  SpentBy(BlocksOf(Unindexed)) \subseteq DbOutputs \cup CreatedBy(BlocksOf(Unindexed))
  <2> DEFINE L == Len(ActiveChain)
             k == FirstDifferentHeight
             n == Len(stream)
  <2>1. /\ k \in 0..L /\ L \in Nat /\ IsChain(stream) /\ n = L + 1
        /\ Agree(ActiveChain, stream, k)
    BY <1>1, ReorgFacts
  <2>2. PICK j \in k..L : /\ Unindexed = SubSeq(stream, j + 1, n)
                          /\ \A i \in k + 1..j : stream[i] \in Rows
    BY <1>1, ArrivingInOrder
  <2> HIDE DEF k
  <2>3. \A i \in 1..j : stream[i] \in Rows
    <3>1. \A i \in 1..k : stream[i] = ActiveChain[i] /\ i \in 1..L
      BY <2>1 DEF Agree
    <3>2. \A i \in 1..L : ActiveChain[i] \in Rows
      <4>1. ActiveChain \in Seq(Block) /\ BlocksOf(ActiveChain) = Active
        BY <1>1 DEF Inv, RowsInv, IsChain
      <4>2. \A i \in 1..L : ActiveChain[i] \in Active
        BY <4>1 DEF BlocksOf
      <4> QED BY <4>2 DEF Active, Rows
    <3>3. \A i \in 1..j : i \in 1..k \/ i \in k + 1..j
      BY <2>1
    <3> QED BY <2>2, <3>1, <3>2, <3>3
  <2>4. \A i \in 1..j : Creates[stream[i]] \subseteq DbOutputs
    BY <2>3 DEF DbOutputs, CreatedBy
  <2>5. j \in Nat /\ n \in Nat /\ j <= n /\ j \in 0..n /\ n \in j..n
    BY <2>1
  <2>6. Segment(Unindexed, stream, j, n) /\ Unindexed \in Seq(Block)
    BY <2>1, <2>2, <2>5, ByHeightOfSegment DEF Segment
  <2>7. \A o : /\ o \in CreatedBy(BlocksOf(Unindexed)) <=> \E i \in j + 1..n : o \in Creates[stream[i]]
               /\ o \in SpentBy(BlocksOf(Unindexed)) <=> \E i \in j + 1..n : o \in Spends[stream[i]]
    BY <2>5, <2>6, SegmentOutputs
  <2>8. ASSUME NEW o \in SpentBy(BlocksOf(Unindexed))
        PROVE  o \in DbOutputs \cup CreatedBy(BlocksOf(Unindexed))
    <3>1. PICK i \in j + 1..n : o \in Spends[stream[i]]
      BY <2>7, <2>8
    <3>2. i \in 1..n
      BY <2>5
    <3>3. PICK m \in 1..i : o \in Creates[stream[m]]
      BY <2>1, <3>1, <3>2, ValidChain
    <3>4. m \in 1..j \/ m \in j + 1..n
      BY <2>5
    <3> QED BY <2>4, <2>7, <3>3, <3>4
  <2> QED BY <2>8
<1>2. Inv /\ CacheInv => EveryInputFound
  BY <1>1 DEF CacheInv, EveryInputFound
<1> QED BY <1>2, CacheInvariance, PTL

(* The blocks the first thread has seen, by their places in the chain.     *)
LEMMA ProcessedFacts ==
    ASSUME Inv, CacheInv, Running, NEW d, NEW a, NEW l, NEW f, NEW u, Line(d, a, l, f, u)
    PROVE  /\ Top(f, u) \in Nat /\ l <= Top(f, u) /\ Top(f, u) <= Len(d)
           /\ Active = FirstBlocks(d, a)
           /\ Processed = FirstBlocks(d, a) \cup BlocksOf(pipeline.writer)
                                \cup {d[i] : i \in l + 1..Top(f, u)}
           /\ pipeline.dead = 0 => Processed = FirstBlocks(d, Top(f, u))
<1>1. /\ IsChain(d) /\ Len(d) \in Nat /\ ActiveChain \in Seq(Block)
      /\ a \in Nat /\ l \in Nat /\ f \in Nat /\ u \in Nat
      /\ a <= l /\ l <= f /\ f <= u /\ u <= Len(d)
  BY QueueTypes DEF Line, IsChain
<1>2. /\ Segment(ActiveChain, d, 0, a)
      /\ (pipeline.dead = 0 => Segment(pipeline.writer, d, a, l))
      /\ Segment(pipeline.fmt, d, l, f) /\ Segment(pipeline.utxo, d, f, u)
  BY DEF Line
<1>3. Active = FirstBlocks(d, a)
  <2>1. BlocksOf(ActiveChain) = {d[i] : i \in 0 + 1..a}
    <3>1. 0 \in Nat /\ 0 <= a
      BY <1>1
    <3> QED BY <1>1, <1>2, <3>1, SegmentBlocks
  <2> QED BY <2>1 DEF Inv, RowsInv, FirstBlocks
<1>4. /\ BlocksOf(pipeline.fmt) = {d[i] : i \in l + 1..f}
      /\ BlocksOf(pipeline.utxo) = {d[i] : i \in f + 1..u}
      /\ pipeline.dead = 0 => BlocksOf(pipeline.writer) = {d[i] : i \in a + 1..l}
  <2>1. pipeline.fmt \in Seq(Block) /\ pipeline.utxo \in Seq(Block) /\ pipeline.writer \in Seq(Block)
    BY QueueTypes
  <2>2. ASSUME NEW s \in Seq(Block), NEW i \in Nat, NEW j \in Nat, i <= j, Segment(s, d, i, j)
        PROVE  BlocksOf(s) = {d[n] : n \in i + 1..j}
    BY <2>2, SegmentBlocks
  <2>3. BlocksOf(pipeline.fmt) = {d[i] : i \in l + 1..f}
    BY <1>1, <1>2, <2>1, <2>2, Zenon
  <2>4. BlocksOf(pipeline.utxo) = {d[i] : i \in f + 1..u}
    BY <1>1, <1>2, <2>1, <2>2, Zenon
  <2>5. ASSUME pipeline.dead = 0
        PROVE  BlocksOf(pipeline.writer) = {d[i] : i \in a + 1..l}
    <3>1. Segment(pipeline.writer, d, a, l)
      BY <1>2, <2>5
    <3> QED BY <1>1, <2>1, <2>2, <3>1, Zenon
  <2> QED BY <2>3, <2>4, <2>5
<1>5. Top(f, u) \in Nat /\ l <= Top(f, u) /\ Top(f, u) <= Len(d)
  BY <1>1 DEF Top
<1>6. BlocksOf(pipeline.fmt) \cup (IF utxo_step = "recv" THEN {} ELSE BlocksOf(pipeline.utxo))
            = {d[i] : i \in l + 1..Top(f, u)}
  <2>1. CASE utxo_step = "recv"
    BY <1>4, <2>1 DEF Top
  <2>2. CASE utxo_step # "recv"
    <3>1. \A i : i \in l + 1..u <=> i \in l + 1..f \/ i \in f + 1..u
      BY <1>1
    <3>2. {d[i] : i \in l + 1..f} \cup {d[i] : i \in f + 1..u} = {d[i] : i \in l + 1..u}
      BY <3>1
    <3> QED BY <1>4, <2>2, <3>2 DEF Top
  <2> QED BY <2>1, <2>2
<1>7. Processed = FirstBlocks(d, a) \cup BlocksOf(pipeline.writer)
                        \cup {d[i] : i \in l + 1..Top(f, u)}
  BY <1>3, <1>6 DEF Processed
<1>8. ASSUME pipeline.dead = 0 PROVE Processed = FirstBlocks(d, Top(f, u))
  <2>1. \A i : i \in 1..Top(f, u) <=> i \in 1..a \/ i \in a + 1..l \/ i \in l + 1..Top(f, u)
    BY <1>1, <1>5
  <2>2. {d[i] : i \in 1..a} \cup {d[i] : i \in a + 1..l} \cup {d[i] : i \in l + 1..Top(f, u)}
            = {d[i] : i \in 1..Top(f, u)}
    BY <2>1
  <2> QED BY <1>4, <1>7, <1>8, <2>2 DEF FirstBlocks
<1> QED BY <1>3, <1>5, <1>7, <1>8

(* The cache holds nothing that is spent on the chain, or of blocks that a *)
(* reorg or a dead thread took away (pg.rs, struct UtxoSetCache).          *)
THEOREM CachesUnspentOnly == USpec => []CacheIsUnspent
<1>1. ASSUME Inv, CacheInv, pipeline.dead = 0
      PROVE  entries \subseteq CreatedBy(Processed) \ SpentBy(Processed)
  <2>1. CASE ~Running
    BY <1>1, <2>1 DEF CacheInv
  <2>2. CASE Running
    <3>1. PICK d, a, l, f, u : Line(d, a, l, f, u) /\ Caches(d, Top(f, u))
      BY <1>1, <2>2 DEF CacheInv
    <3>2. Processed = FirstBlocks(d, Top(f, u))
      BY <1>1, <2>2, <3>1, ProcessedFacts
    <3> QED BY <3>1, <3>2 DEF Caches, Unspent
  <2> QED BY <2>1, <2>2
<1>2. Inv /\ CacheInv => CacheIsUnspent
  BY <1>1 DEF CacheIsUnspent
<1> QED BY <1>2, CacheInvariance, PTL

(* Each output that the next block may spend is cached or can be read: the *)
(* cache is not dropped before the batches behind it are written (pg.rs,   *)
(* stop_workers).                                                          *)
THEOREM ReachesUnspent == USpec => []UnspentIsReachable
<1>1. ASSUME Inv, CacheInv
      PROVE  CreatedBy(Processed) \ SpentBy(Processed) \subseteq entries \cup DbOutputs
  <2>1. CASE ~Running
    <3>1. BlocksOf(<<>>) = {}
      BY ByHeightOfNothing
    <3>2. Processed = Active
      BY <1>1, <2>1, <3>1, StoppedFacts DEF Processed
    <3> QED BY <3>2, IndexedOutputs
  <2>2. CASE Running
    <3>1. PICK d, a, l, f, u : Line(d, a, l, f, u) /\ Caches(d, Top(f, u))
      BY <1>1, <2>2 DEF CacheInv
    <3> DEFINE n == Top(f, u)
    <3>2. /\ n \in Nat /\ l <= n /\ n <= Len(d) /\ Active = FirstBlocks(d, a)
          /\ Processed = FirstBlocks(d, a) \cup BlocksOf(pipeline.writer) \cup {d[i] : i \in l + 1..n}
          /\ pipeline.dead = 0 => Processed = FirstBlocks(d, n)
      BY <1>1, <2>2, <3>1, ProcessedFacts
    <3>3. IsChain(d) /\ Len(d) \in Nat /\ a \in Nat /\ l \in Nat /\ a <= l
      BY <3>1 DEF Line, IsChain
    <3> HIDE DEF n
    <3>4. Unspent(d, n) \subseteq entries \cup DbOutputs
      BY <3>1 DEF Caches, n
    <3>5. CASE pipeline.dead = 0
      BY <3>2, <3>4, <3>5 DEF Unspent
    <3>6. CASE pipeline.dead # 0
      <4>1. pipeline.writer = <<>> /\ BlocksOf(<<>>) = {}
        BY <1>1, <3>6, QueueTypes, ByHeightOfNothing DEF Inv, PipelineInv
      <4>2. Processed = Active \cup {d[i] : i \in l + 1..n}
        BY <3>2, <4>1
      <4>3. ASSUME NEW o, o \in CreatedBy(Processed), o \notin SpentBy(Processed)
            PROVE  o \in entries \cup DbOutputs
        <5>1. CASE o \in CreatedBy(Active)
          BY <5>1, IndexedOutputs
        <5>2. CASE o \notin CreatedBy(Active)
          <6>1. PICK i \in l + 1..n : o \in Creates[d[i]]
            BY <4>2, <4>3, <5>2 DEF CreatedBy
          <6>2. i \in 1..n /\ i \in 1..Len(d)
            BY <3>2, <3>3
          <6>3. ASSUME NEW j \in 1..n PROVE o \notin Spends[d[j]]
            <7>1. CASE j \in l + 1..n
              BY <4>2, <4>3, <7>1 DEF SpentBy
            <7>2. CASE j \in 1..l
              <8>1. j \in 1..Len(d) /\ ~(i <= j)
                BY <3>2, <3>3, <7>2
              <8> QED BY <3>3, <6>1, <6>2, <8>1, OneCreatorOneSpender
            <7> QED BY <3>2, <3>3, <7>1, <7>2
          <6>4. o \in Unspent(d, n)
            BY <3>2, <6>1, <6>2, <6>3, FirstOutputs
          <6> QED BY <3>4, <6>4
        <5> QED BY <5>1, <5>2
      <4> QED BY <4>3
    <3> QED BY <3>5, <3>6
  <2> QED BY <2>1, <2>2
<1>2. Inv /\ CacheInv => UnspentIsReachable
  BY <1>1 DEF UnspentIsReachable
<1> QED BY <1>2, CacheInvariance, PTL
=============================================================================
