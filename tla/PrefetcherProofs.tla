-------------------------- MODULE PrefetcherProofs ---------------------------
(***************************************************************************)
(* Safety of the parallel block fetcher, for every block tree, any number  *)
(* of workers, any channel capacity and any window of recorded hashes.     *)
(*                                                                         *)
(* The invariants TLC checks are not inductive: what a worker has fetched  *)
(* must be known to sit at the height it asked for, and the recorded       *)
(* hashes must be an unbroken range of heights around cur_height.  Inv     *)
(* adds these facts.                                                       *)
(***************************************************************************)
EXTENDS Prefetcher, BlockTreeProofs

(* What a worker, the channel or the reorder buffer holds is filed under   *)
(* the height of the block it is; a worker holds a hash only between its   *)
(* first RPC and the end of its send.                                      *)
HeightsMatch ==
    /\ \A w \in Worker : worker[w].id # NoBlock => Height[worker[w].id] = worker[w].height
    /\ \A w \in Worker : worker[w].id \in Block <=> worker[w].step \in {"get_block", "send"}
    /\ \A i \in DOMAIN channel : Height[channel[i].id] = channel[i].height
    /\ \A i \in out_of_order_items : Height[i.id] = i.height

(* The recorded heights are a range of at most WindowSize heights, with    *)
(* cur_height in it or just above it, and none below last_block.  It grows *)
(* upwards, from last_block or from genesis, until it is full.             *)
RecordedRange ==
    \E lo \in Nat, hi \in Int :
        /\ DOMAIN prev_hashes = lo..hi
        /\ hi - lo < WindowSize
        /\ hi < lo => cur_height = 0 /\ floor = -1
        /\ lo <= hi => cur_height \in lo..hi + 1 /\ floor <= lo
        /\ lo <= hi => hi - lo = WindowSize - 1 \/ lo \in {0, floor}

(* What is recorded is what the caller holds.                              *)
RecordedDelivered ==
    /\ cur_height <= Len(delivered)
    /\ floor < Len(delivered)
    /\ \A h \in DOMAIN prev_hashes : h < Len(delivered) => prev_hashes[h] = delivered[h + 1]

(* A reorg is detected only against a recorded hash, so never at genesis.  *)
ReorgAboveRecorded ==
    pc = "stop_reorg" => cur_height > 0 /\ cur_height - 1 \in DOMAIN prev_hashes

Inv ==
    /\ TypeOK
    /\ HeightsMatch
    /\ RecordedRange
    /\ RecordedDelivered
    /\ ReorgAboveRecorded
    /\ DeliveredIsChain
-----------------------------------------------------------------------------
(* Inv holds when a prefetcher is created, whatever its last_block is.     *)
LEMMA InitInv == Init => Inv
<1> SUFFICES ASSUME Init PROVE Inv
  OBVIOUS
<1>1. chain \in Chains /\ IsChain(chain) /\ Len(chain) \in Nat \ {0}
  BY ChainsAreChains DEF Init
<1>2. IsChain(delivered) /\ delivered \in Seq(Block)
  <2>1. CASE delivered = <<>>
    BY <2>1 DEF IsChain
  <2>2. CASE delivered # <<>>
    <3>1. PICK c \in Chains : \E n \in 1..Len(c) : delivered = SubSeq(c, 1, n)
      BY <2>2 DEF Init, ResumePoints
    <3>2. PICK n \in 1..Len(c) : delivered = SubSeq(c, 1, n)
      BY <3>1
    <3>3. IsChain(c) /\ n \in 0..Len(c)
      BY ChainsAreChains
    <3> QED BY <3>2, <3>3, PrefixIsChain DEF IsChain
  <2> QED BY <2>1, <2>2
<1>3. /\ Len(delivered) \in Nat
      /\ Len(delivered) > 0 => delivered[Len(delivered)] \in Block
  BY <1>2
<1>4. RecordedRange
  <2>1. CASE Len(delivered) = 0
    <3>1. DOMAIN prev_hashes = 0..-1 /\ cur_height = 0 /\ floor = -1
      BY <2>1 DEF Init
    <3>2. 0 \in Nat /\ -1 \in Int /\ -1 - 0 < WindowSize /\ ~(0 <= -1)
      BY PrefetcherAssumption
    <3> QED BY <3>1, <3>2 DEF RecordedRange
  <2>2. CASE Len(delivered) > 0
    <3> DEFINE n == Len(delivered) - 1
    <3>1. n \in Nat /\ DOMAIN prev_hashes = n..n /\ cur_height = n + 1 /\ floor = n
      BY <1>3, <2>2 DEF Init
    <3> HIDE DEF n
    <3>2. n \in Int /\ n - n < WindowSize /\ cur_height \in n..n + 1 /\ ~(n < n) /\ floor <= n
      BY <3>1, PrefetcherAssumption
    <3> QED BY <3>1, <3>2 DEF RecordedRange
  <2> QED BY <1>3, <2>1, <2>2
<1>5. \A h \in DOMAIN prev_hashes : h \in Nat /\ h = Len(delivered) - 1
                                  /\ prev_hashes[h] = delivered[h + 1]
  BY <1>3 DEF Init
<1>6. /\ DOMAIN prev_hashes \in SUBSET Nat
      /\ \A h \in DOMAIN prev_hashes : prev_hashes[h] \in Block
  BY <1>3, <1>5
<1>7. TypeOK
  <2>1. cur_height \in Nat /\ next_height \in Nat /\ workers_finish \in BOOLEAN
    BY <1>3 DEF Init
  <2>6. floor \in Nat \cup {-1}
    <3>1. floor = Len(delivered) - 1
      BY DEF Init
    <3> QED BY <1>3, <3>1
  <2>2. end_of_fast_sync \in Nat
    BY <1>1 DEF Init, TipHeight
  <2>3. thread_num \in Worker
    BY PrefetcherAssumption DEF Init, Worker
  <2>4. worker \in [Worker -> WorkerState]
    BY DEF Init, WorkerState, WorkerStep, Starting
  <2>5. /\ out_of_order_items \in SUBSET Item
        /\ channel \in Seq(Item)
        /\ pc \in ConsumerStep
        /\ replaced \in SUBSET DOMAIN prev_hashes
    BY DEF Init, ConsumerStep, Differs
  <2> QED BY <1>1, <1>2, <1>6, <2>1, <2>2, <2>3, <2>4, <2>5, <2>6 DEF TypeOK
<1>8. HeightsMatch
  BY BlockTreeAssumption DEF Init, HeightsMatch, Starting
<1>9. RecordedDelivered
  BY <1>3, <1>5 DEF Init, RecordedDelivered
<1> QED BY <1>2, <1>4, <1>7, <1>8, <1>9 DEF Inv, Init, ReorgAboveRecorded, DeliveredIsChain
-----------------------------------------------------------------------------
(* The consumer's half of a step: what track_reorgs does with the block    *)
(* that is due, wherever it came from.                                     *)
LEMMA TrackReorgsInv ==
    ASSUME Inv, NEW item, item.id \in Block, Height[item.id] = cur_height,
           TrackReorgs(item), UNCHANGED floor
    PROVE  /\ cur_height' \in Nat
           /\ DOMAIN prev_hashes' \in SUBSET Nat
           /\ \A h \in DOMAIN prev_hashes' : prev_hashes'[h] \in Block
           /\ replaced' \in SUBSET DOMAIN prev_hashes'
           /\ workers_finish' \in BOOLEAN
           /\ pc' \in ConsumerStep
           /\ delivered' \in Seq(Block)
           /\ RecordedRange'
           /\ RecordedDelivered'
           /\ ReorgAboveRecorded'
           /\ DeliveredIsChain'
<1> USE DEF Inv
<1>1. CASE PanicNoHash
  BY <1>1 DEF PanicNoHash, TypeOK, ConsumerStep, RecordedRange, RecordedDelivered,
              ReorgAboveRecorded, DeliveredIsChain
<1>2. CASE DetectReorg(item)
  BY <1>2 DEF DetectReorg, NoStoredHash, Mismatch, TypeOK, ConsumerStep, StopSteps, RecordedRange,
              RecordedDelivered, ReorgAboveRecorded, DeliveredIsChain
<1>3. CASE Accept(item)
  <2>1. /\ cur_height \in Nat /\ cur_height' = cur_height + 1
        /\ WindowSize \in Nat \ {0} /\ floor \in Int
        /\ delivered \in Seq(Block) /\ Len(delivered) \in Nat
        /\ cur_height \in 0..Len(delivered)
    BY <1>3, PrefetcherAssumption DEF Accept, TypeOK, RecordedDelivered
  <2>2. cur_height > 0 => /\ cur_height - 1 \in DOMAIN prev_hashes
                          /\ Parent[item.id] = prev_hashes[cur_height - 1]
                          /\ Parent[item.id] = delivered[cur_height]
    BY <1>3, <2>1 DEF Accept, NoStoredHash, Mismatch, RecordedDelivered
  <2> DEFINE new == ChainInsert(delivered, cur_height, item.id)
  <2>3. /\ IsChain(new)
        /\ Len(new) = cur_height + 1
        /\ \A i \in 1..cur_height : new[i] = delivered[i]
        /\ new[cur_height + 1] = item.id
    BY <2>1, <2>2, ChainInsertIsChain DEF DeliveredIsChain
  <2>4. delivered' = new
    BY <1>3 DEF Accept
  <2> HIDE DEF new
  <2> DEFINE D == (DOMAIN prev_hashes \cup {cur_height}) \ {cur_height - WindowSize}
  <2>5. /\ DOMAIN prev_hashes' = D
        /\ \A h \in D : prev_hashes'[h] = IF h = cur_height THEN item.id ELSE prev_hashes[h]
    BY <1>3 DEF Accept, Remember
  <2>6. D \subseteq Nat /\ \A h \in D : prev_hashes'[h] \in Block
    BY <2>1, <2>5 DEF TypeOK
  <2>7. RecordedRange'
    <3>1. PICK lo \in Nat, hi \in Int :
            /\ DOMAIN prev_hashes = lo..hi
            /\ hi - lo < WindowSize
            /\ hi < lo => cur_height = 0 /\ floor = -1
            /\ lo <= hi => cur_height \in lo..hi + 1 /\ floor <= lo
            /\ lo <= hi => hi - lo = WindowSize - 1 \/ lo \in {0, floor}
      BY DEF RecordedRange
    <3>2. CASE hi < lo
      <4>1. D = 0..0
        BY <2>1, <3>1, <3>2
      <4> QED BY <2>1, <2>5, <3>1, <3>2, <4>1 DEF RecordedRange
    <3>3. CASE lo <= hi /\ cur_height <= hi
      <4>1. cur_height = 0 => lo = 0
        BY <2>1, <3>1, <3>3
      <4>2. cur_height > 0 => lo <= cur_height - 1
        BY <2>1, <2>2, <3>1, <3>3
      <4>3. D = lo..hi
        BY <2>1, <3>1, <3>3, <4>1, <4>2
      <4> QED BY <2>1, <2>5, <3>1, <3>3, <4>3 DEF RecordedRange
    <3>4. CASE lo <= hi /\ cur_height = hi + 1
      <4>1. CASE hi - lo = WindowSize - 1
        <5> DEFINE low == lo + 1
                   high == hi + 1
        <5>1. D = low..high
          BY <2>1, <3>1, <3>4, <4>1
        <5>2. /\ low \in Nat /\ high \in Int /\ high - low < WindowSize
              /\ low <= high /\ cur_height' \in low..high + 1
              /\ floor' = floor /\ floor <= low /\ high - low = WindowSize - 1
          BY <2>1, <3>1, <3>4, <4>1
        <5> HIDE DEF low, high, D
        <5> QED BY <2>5, <5>1, <5>2 DEF RecordedRange
      <4>2. CASE hi - lo < WindowSize - 1
        <5>1. D = lo..hi + 1
          BY <2>1, <3>1, <3>4, <4>2
        <5> QED BY <2>1, <2>5, <3>1, <3>4, <4>2, <5>1 DEF RecordedRange
      <4> QED BY <2>1, <3>1, <4>1, <4>2
    <3> QED BY <2>1, <3>1, <3>2, <3>3, <3>4
  <2>8. RecordedDelivered'
    <3>1. ASSUME NEW h \in D, h < cur_height + 1
          PROVE  prev_hashes'[h] = new[h + 1]
      <4>1. CASE h = cur_height
        BY <2>3, <2>5, <4>1
      <4>2. CASE h # cur_height
        <5>1. h \in DOMAIN prev_hashes /\ h \in Nat /\ h < cur_height
          BY <2>1, <2>6, <3>1, <4>2
        <5>2. h < Len(delivered) /\ h + 1 \in 1..cur_height
          BY <2>1, <5>1
        <5> QED BY <2>3, <2>5, <4>2, <5>1, <5>2 DEF RecordedDelivered
      <4> QED BY <4>1, <4>2
    <3>2. floor < cur_height + 1
      <4>1. cur_height > 0 => floor <= cur_height - 1
        BY <2>1, <2>2 DEF RecordedRange
      <4>2. cur_height = 0 => floor <= 0
        BY <2>1 DEF RecordedRange
      <4> QED BY <2>1, <4>1, <4>2
    <3> QED BY <2>1, <2>3, <2>4, <2>5, <3>1, <3>2 DEF RecordedDelivered
  <2>9. pc' = "idle" /\ workers_finish' \in BOOLEAN
    BY <1>3 DEF Accept, TypeOK
  <2>10. replaced' \in SUBSET DOMAIN prev_hashes'
    BY <1>3 DEF Accept, Differs
  <2> QED
    BY <2>1, <2>3, <2>4, <2>5, <2>6, <2>7, <2>8, <2>9, <2>10
    DEF ConsumerStep, ReorgAboveRecorded, DeliveredIsChain, IsChain
<1> QED BY <1>1, <1>2, <1>3 DEF TrackReorgs

(* A worker that becomes another one, well-formed and holding a hash       *)
(* exactly when it should, keeps all workers so.                           *)
LEMMA BecomeInv ==
    ASSUME Inv, NEW w \in Worker, NEW s \in WorkerStep, NEW h \in Nat,
           NEW b \in Block \cup {NoBlock}, Become(w, s, h, b),
           b \in Block <=> s \in {"get_block", "send"},
           b # NoBlock => Height[b] = h
    PROVE  /\ worker' \in [Worker -> WorkerState]
           /\ \A v \in Worker : worker'[v].id # NoBlock => Height[worker'[v].id] = worker'[v].height
           /\ \A v \in Worker : worker'[v].id \in Block <=> worker'[v].step \in {"get_block", "send"}
<1> DEFINE r == [step |-> s, height |-> h, id |-> b]
<1>1. r \in WorkerState /\ r.step = s /\ r.height = h /\ r.id = b
  BY DEF WorkerState
<1>2. worker \in [Worker -> WorkerState] /\ worker' = [worker EXCEPT ![w] = r]
  BY DEF Inv, TypeOK, Become
<1> HIDE DEF r
<1>3. /\ worker' \in [Worker -> WorkerState]
      /\ \A v \in Worker : worker'[v] = IF v = w THEN r ELSE worker[v]
  BY <1>1, <1>2
<1> QED BY <1>1, <1>3 DEF Inv, HeightsMatch

(* A prefetcher never changes its mind about where it started.             *)
LEMMA FloorKept == [Next]_vars => UNCHANGED floor
  BY DEF Next, ConsumerStepNext, ConsumerGoesOn, NodeChange, NextCall, TakeOutOfOrder, NothingOutOfOrder,
    RecvExpected, RecvOutOfOrder, Drop, Drain, RestartAfterFastSync, RestartAfterReorg,
    FinishDrop, Terminated, WorkerNext, WorkerGetHeight, WorkerCheckFinish, WorkerGetId,
    WorkerGetBlock, WorkerRetry, WorkerSend, workerFrame, consumerFrame, vars

(* Every step of the system preserves Inv.                                 *)
LEMMA StepInv == Inv /\ [Next]_vars => Inv'
<1> SUFFICES ASSUME Inv, [Next]_vars PROVE Inv'
  OBVIOUS
<1>0. UNCHANGED floor
  BY FloorKept
<1> USE <1>0 DEF Inv
<1>1. CASE NodeChange
  <2>1. chain' \in Chains /\ replaced' \in SUBSET DOMAIN prev_hashes
    BY <1>1 DEF NodeChange, TypeOK, Differs
  <2> QED
    BY <1>1, <2>1 DEF NodeChange, TypeOK, HeightsMatch, RecordedRange, RecordedDelivered,
      ReorgAboveRecorded, DeliveredIsChain, sharedVars, Worker
<1>2. CASE \E w \in Worker : WorkerNext(w)
  <2> PICK w \in Worker : WorkerNext(w)
    BY <1>2
  <2>1. /\ UNCHANGED <<chain, cur_height, prev_hashes, out_of_order_items,
                       end_of_fast_sync, thread_num, workers_finish, pc, delivered,
                       replaced>>
    BY DEF WorkerNext, WorkerGetHeight, WorkerCheckFinish, WorkerGetId, WorkerGetBlock,
           WorkerRetry, WorkerSend, workerFrame
  <2>2. /\ next_height' \in Nat
        /\ channel' \in Seq(Item)
        /\ worker' \in [Worker -> WorkerState]
        /\ HeightsMatch'
    <3> USE BlockTreeAssumption DEF TypeOK, WorkerState, WorkerStep
    <3>1. CASE WorkerGetHeight(w)
      BY <2>1, <3>1, BecomeInv DEF WorkerGetHeight, HeightsMatch
    <3>2. CASE WorkerCheckFinish(w)
      BY <2>1, <3>2, BecomeInv DEF WorkerCheckFinish, HeightsMatch
    <3>3. CASE WorkerGetId(w)
      <4> DEFINE b == chain[worker[w].height + 1]
      <4>1. worker[w].height \in 0..Len(chain) - 1
        BY <3>3, ChainsAreChains DEF WorkerGetId
      <4>2. b \in Block /\ Height[b] = worker[w].height
        BY <4>1, ChainsAreChains
      <4>3. /\ Become(w, "get_block", worker[w].height, b)
            /\ UNCHANGED <<next_height, channel>>
        BY <3>3 DEF WorkerGetId
      <4> HIDE DEF b
      <4> QED BY <2>1, <4>2, <4>3, BecomeInv DEF HeightsMatch
    <3>4. CASE WorkerGetBlock(w)
      BY <2>1, <3>4, BecomeInv DEF WorkerGetBlock, HeightsMatch
    <3>5. CASE WorkerRetry(w)
      BY <2>1, <3>5, BecomeInv DEF WorkerRetry, HeightsMatch
    <3>6. CASE WorkerSend(w)
      <4> DEFINE item == [height |-> worker[w].height, id |-> worker[w].id]
      <4>1. /\ item \in Item
            /\ Height[item.id] = item.height
            /\ channel' = Append(channel, item)
            /\ next_height' = next_height
            /\ Become(w, "get_height", 0, NoBlock)
        BY <3>6 DEF WorkerSend, HeightsMatch, Item
      <4> HIDE DEF item
      <4>2. /\ channel' \in Seq(Item)
            /\ \A i \in DOMAIN channel' : Height[channel'[i].id] = channel'[i].height
        BY <4>1 DEF HeightsMatch
      <4> QED BY <2>1, <4>1, <4>2, BecomeInv DEF HeightsMatch
    <3> QED BY <3>1, <3>2, <3>3, <3>4, <3>5, <3>6 DEF WorkerNext
  <2> QED
    BY <2>1, <2>2 DEF TypeOK, RecordedRange, RecordedDelivered, ReorgAboveRecorded, DeliveredIsChain
<1>3. CASE NextCall
  BY <1>3 DEF NextCall, consumerFrame, TypeOK, ConsumerStep, StopSteps, HeightsMatch,
    RecordedRange, RecordedDelivered, ReorgAboveRecorded, DeliveredIsChain, Worker
<1>4. CASE TakeOutOfOrder
  <2>1. PICK item \in out_of_order_items :
          /\ item.height = cur_height
          /\ out_of_order_items' = out_of_order_items \ {item}
          /\ TrackReorgs(item)
    BY <1>4 DEF TakeOutOfOrder
  <2>2. item.id \in Block /\ Height[item.id] = cur_height
    BY <2>1 DEF TypeOK, Item, HeightsMatch
  <2>3. UNCHANGED <<chain, end_of_fast_sync, thread_num, next_height, channel, worker>>
    BY <1>4 DEF TakeOutOfOrder, consumerFrame
  <2>4. TypeOK' /\ HeightsMatch'
    BY <2>1, <2>2, <2>3, TrackReorgsInv DEF TypeOK, HeightsMatch, Worker
  <2> QED BY <2>1, <2>2, <2>4, TrackReorgsInv
<1>5. CASE NothingOutOfOrder
  BY <1>5 DEF NothingOutOfOrder, consumerFrame, sharedVars, TypeOK, ConsumerStep, HeightsMatch,
    RecordedRange, RecordedDelivered, ReorgAboveRecorded, DeliveredIsChain, Worker
<1>6. ASSUME channel # <<>>
      PROVE  /\ Head(channel) \in Item
             /\ Height[Head(channel).id] = Head(channel).height
             /\ Tail(channel) \in Seq(Item)
             /\ \A i \in DOMAIN Tail(channel) : Height[Tail(channel)[i].id] = Tail(channel)[i].height
  BY <1>6 DEF TypeOK, HeightsMatch
<1>7. CASE RecvExpected
  <2> DEFINE item == Head(channel)
  <2>1. /\ channel # <<>> /\ item.height = cur_height
        /\ channel' = Tail(channel)
        /\ TrackReorgs(item)
        /\ UNCHANGED <<chain, end_of_fast_sync, out_of_order_items, thread_num, next_height,
                       worker>>
    BY <1>7 DEF RecvExpected, consumerFrame
  <2>2. item.id \in Block /\ Height[item.id] = cur_height
    BY <1>6, <2>1 DEF Item
  <2> HIDE DEF item
  <2>3. TypeOK' /\ HeightsMatch'
    BY <1>6, <2>1, <2>2, TrackReorgsInv DEF TypeOK, HeightsMatch, Worker
  <2> QED BY <2>1, <2>2, <2>3, TrackReorgsInv
<1>8. CASE RecvOutOfOrder
  <2>1. /\ channel # <<>> /\ channel' = Tail(channel)
        /\ out_of_order_items' \in {out_of_order_items, Keep(Head(channel))}
        /\ pc' \in {pc, "panicked"}
        /\ UNCHANGED <<chain, end_of_fast_sync, cur_height, prev_hashes, thread_num,
                       workers_finish, next_height, worker, delivered, replaced>>
    BY <1>8 DEF RecvOutOfOrder, consumerFrame
  <2>2. /\ out_of_order_items' \in SUBSET Item
        /\ \A i \in out_of_order_items' : Height[i.id] = i.height
    BY <1>6, <2>1 DEF Keep, TypeOK, HeightsMatch
  <2>3. TypeOK' /\ HeightsMatch'
    BY <1>6, <2>1, <2>2 DEF TypeOK, ConsumerStep, HeightsMatch, Worker
  <2> QED BY <2>1, <2>3 DEF RecordedRange, RecordedDelivered, ReorgAboveRecorded, DeliveredIsChain
<1>9. CASE Drop
  BY <1>9 DEF Drop, consumerFrame, TypeOK, ConsumerStep, StopSteps, HeightsMatch,
    RecordedRange, RecordedDelivered, ReorgAboveRecorded, DeliveredIsChain, Worker
<1>10. CASE Drain
  <2>1. channel # <<>> /\ channel' = Tail(channel)
    BY <1>10 DEF Drain
  <2> QED
    BY <1>6, <1>10, <2>1 DEF Drain, consumerFrame, TypeOK, HeightsMatch, RecordedRange,
      RecordedDelivered, ReorgAboveRecorded, DeliveredIsChain, Worker
<1>11. ASSUME NEW n \in Worker, NEW h \in Nat, StartWorkers(n, h), out_of_order_items' = {}
       PROVE  /\ workers_finish' \in BOOLEAN
              /\ channel' \in Seq(Item)
              /\ next_height' \in Nat
              /\ worker' \in [Worker -> WorkerState]
              /\ HeightsMatch'
  <2>1. /\ Starting \in WorkerState /\ Exited \in WorkerState
        /\ Starting.id = NoBlock /\ Starting.step = "get_height"
        /\ Exited.id = NoBlock /\ Exited.step = "exited"
    BY DEF Starting, Exited, WorkerState, WorkerStep
  <2>2. /\ workers_finish' = FALSE /\ channel' = <<>> /\ next_height' = h
        /\ worker' = [w \in Worker |-> IF w <= n THEN Starting ELSE Exited]
    BY <1>11 DEF StartWorkers
  <2>3. \A w \in Worker : worker'[w] \in {Starting, Exited}
    BY <2>2
  <2>4. worker' \in [Worker -> WorkerState]
    BY <2>1, <2>2
  <2>5. channel' \in Seq(Item) /\ DOMAIN channel' = {}
    BY <2>2
  <2>6. \A w \in Worker : /\ worker'[w].id = NoBlock
                          /\ worker'[w].step \notin {"get_block", "send"}
    BY <2>1, <2>3
  <2>7. HeightsMatch'
    BY <1>11, <2>5, <2>6, BlockTreeAssumption DEF HeightsMatch
  <2> QED BY <1>11, <2>2, <2>4, <2>5, <2>7
<1>12. CASE RestartAfterFastSync
  <2>1. 1 \in Worker
    BY PrefetcherAssumption DEF Worker
  <2>2. /\ StartWorkers(1, cur_height) /\ out_of_order_items' = {}
        /\ thread_num' = 1 /\ pc' = "look"
        /\ UNCHANGED <<chain, end_of_fast_sync, cur_height, prev_hashes, delivered, replaced>>
    BY <1>12 DEF RestartAfterFastSync, consumerFrame, KeptOnStop
  <2>3. TypeOK' /\ HeightsMatch'
    BY <1>11, <2>1, <2>2 DEF TypeOK, ConsumerStep, Worker
  <2> QED BY <2>2, <2>3 DEF RecordedRange, RecordedDelivered, ReorgAboveRecorded, DeliveredIsChain
<1>13. CASE RestartAfterReorg
  <2>1. /\ StartWorkers(thread_num, cur_height - 1) /\ out_of_order_items' = {}
        /\ cur_height' = cur_height - 1 /\ pc' = "look"
        /\ cur_height - 1 \in Nat
        /\ UNCHANGED <<chain, end_of_fast_sync, prev_hashes, thread_num, delivered, replaced>>
    BY <1>13 DEF RestartAfterReorg, consumerFrame, KeptOnStop, HeightAfterReorg, TypeOK,
      ReorgAboveRecorded
  <2>2. TypeOK' /\ HeightsMatch'
    BY <1>11, <2>1 DEF TypeOK, ConsumerStep, Worker
  <2>3. RecordedRange'
    <3>1. pc = "stop_reorg"
      BY <1>13 DEF RestartAfterReorg
    <3> QED BY <2>1, <3>1 DEF RecordedRange, ReorgAboveRecorded
  <2>4. RecordedDelivered'
    BY <2>1 DEF RecordedDelivered, TypeOK
  <2> QED BY <2>1, <2>2, <2>3, <2>4 DEF ReorgAboveRecorded, DeliveredIsChain
<1>14. CASE FinishDrop
  BY <1>14 DEF FinishDrop, consumerFrame, sharedVars, KeptOnStop, TypeOK, ConsumerStep,
    HeightsMatch, RecordedRange, RecordedDelivered, ReorgAboveRecorded, DeliveredIsChain, Worker
<1>15. CASE UNCHANGED vars
  BY <1>15 DEF vars, TypeOK, HeightsMatch, RecordedRange, RecordedDelivered,
    ReorgAboveRecorded, DeliveredIsChain, Worker
<1> QED
  BY <1>1, <1>2, <1>3, <1>4, <1>5, <1>7, <1>8, <1>9, <1>10, <1>12, <1>13, <1>14, <1>15
  DEF Next, ConsumerStepNext, ConsumerGoesOn, Terminated
-----------------------------------------------------------------------------
(* Inv holds for ever.                                                     *)
LEMMA SpecInv == Spec => []Inv
  BY InitInv, StepInv, PTL DEF Spec

(* Every variable keeps its type, so cur_height never goes below genesis,  *)
(* and thread_num stays a number of workers start_workers can spawn.       *)
THEOREM TypeCorrect == Spec => []TypeOK
<1>1. Inv => TypeOK
  BY DEF Inv
<1> QED BY <1>1, SpecInv, PTL

(* The recorded hashes are those of the caller's chain, without a gap, and *)
(* the assertion on their number in track_reorgs cannot fail.              *)
THEOREM HashesMatch == Spec => []HashesMatchDelivered
<1>1. ASSUME Inv PROVE HashesMatchDelivered
  <2>1. PICK lo \in Nat, hi \in Int :
          /\ DOMAIN prev_hashes = lo..hi
          /\ hi - lo < WindowSize
          /\ hi < lo => cur_height = 0 /\ floor = -1
          /\ lo <= hi => cur_height \in lo..hi + 1 /\ floor <= lo
    BY <1>1 DEF Inv, RecordedRange
  <2>2. Cardinality(DOMAIN prev_hashes) <= WindowSize
    <3>1. Cardinality(lo..hi) = IF lo > hi THEN 0 ELSE hi - lo + 1
      BY FS_Interval
    <3> QED BY <2>1, <3>1, PrefetcherAssumption
  <2>3. \A h \in DOMAIN prev_hashes, g \in 0..cur_height - 1 :
          h < g => g \in DOMAIN prev_hashes
    BY <1>1, <2>1 DEF Inv, TypeOK
  <2> QED BY <1>1, <2>2, <2>3 DEF HashesMatchDelivered, Inv, RecordedDelivered
<1> QED BY <1>1, SpecInv, PTL

-----------------------------------------------------------------------------
(* Between restarts the flag is down, and the threads start_workers        *)
(* spawned are the ones that have not returned.                            *)
WorkersRun ==
    Running => /\ ~workers_finish
               /\ \A w \in Worker : worker[w] # Exited <=> w <= thread_num

(* A worker that has returned takes no step, and with the flag down none   *)
(* returns.                                                                *)
LEMMA WorkerStepRuns ==
    ASSUME TypeOK, WorkersRun, NEW w \in Worker, WorkerNext(w)
    PROVE  WorkersRun'
<1> DEFINE R(s, h, b) == [step |-> s, height |-> h, id |-> b]
<1>1. UNCHANGED <<thread_num, workers_finish, pc>> /\ worker[w].step # "exited"
  BY DEF WorkerNext, WorkerGetHeight, WorkerCheckFinish, WorkerGetId, WorkerGetBlock,
         WorkerRetry, WorkerSend, workerFrame
<1> SUFFICES ASSUME Running PROVE \A v \in Worker : worker'[v] # Exited <=> v <= thread_num
  BY <1>1 DEF WorkersRun, Running
<1>2. worker[w] # Exited /\ ~workers_finish
  BY <1>1 DEF WorkersRun, Exited
<1>3. \E s, h, b : s \in WorkerStep \ {"exited"} /\ Become(w, s, h, b)
  BY <1>2 DEF WorkerNext, WorkerGetHeight, WorkerCheckFinish, WorkerGetId, WorkerGetBlock,
              WorkerRetry, WorkerSend, WorkerStep
<1>4. PICK s, h, b : s \in WorkerStep \ {"exited"} /\ Become(w, s, h, b)
  BY <1>3
<1>5. \A v \in Worker : worker'[v] = IF v = w THEN R(s, h, b) ELSE worker[v]
  BY <1>4 DEF Become, TypeOK
<1>6. R(s, h, b) # Exited
  <2>1. R(s, h, b).step = s /\ Exited.step = "exited"
    BY DEF Exited
  <2> QED BY <1>4, <2>1
<1> HIDE DEF R
<1> QED BY <1>2, <1>5, <1>6 DEF WorkersRun

(* No step lets a worker of an old generation live on.                     *)
LEMMA StepWorkersRun == TypeOK /\ WorkersRun /\ [Next]_vars => WorkersRun'
<1> SUFFICES ASSUME TypeOK, WorkersRun, [Next]_vars PROVE WorkersRun'
  OBVIOUS
<1>1. ASSUME NEW n \in Worker, NEW h, StartWorkers(n, h), thread_num' = n
      PROVE  WorkersRun'
  <2>1. Starting # Exited
    <3>1. Starting.step # Exited.step
      BY DEF Starting, Exited
    <3> QED BY <3>1
  <2>2. ~workers_finish' /\ \A w \in Worker : worker'[w] = IF w <= n THEN Starting ELSE Exited
    BY <1>1 DEF StartWorkers
  <2> QED BY <1>1, <2>1, <2>2 DEF WorkersRun
<1>2. CASE \E w \in Worker : WorkerNext(w)
  BY <1>2, WorkerStepRuns
<1>3. CASE RestartAfterFastSync
  <2>1. 1 \in Worker /\ StartWorkers(1, cur_height) /\ thread_num' = 1
    BY <1>3, PrefetcherAssumption DEF RestartAfterFastSync, Worker
  <2> QED BY <1>1, <2>1
<1>4. CASE RestartAfterReorg
  <2>1. thread_num \in Worker /\ StartWorkers(thread_num, HeightAfterReorg)
        /\ thread_num' = thread_num
    BY <1>4 DEF RestartAfterReorg, TypeOK
  <2> QED BY <1>1, <2>1
<1>5. ASSUME UNCHANGED <<worker, thread_num>>,
             Running' => Running /\ workers_finish' = workers_finish
      PROVE  WorkersRun'
  BY <1>5 DEF WorkersRun
<1>6. ASSUME NEW item, TrackReorgs(item), Running
      PROVE  Running' => Running /\ workers_finish' = workers_finish
  BY <1>6 DEF TrackReorgs, PanicNoHash, DetectReorg, Accept, Running
<1>7. CASE TakeOutOfOrder \/ RecvExpected
  BY <1>5, <1>6, <1>7 DEF TakeOutOfOrder, RecvExpected, Running
<1>8. CASE NodeChange \/ NextCall \/ NothingOutOfOrder \/ RecvOutOfOrder
           \/ Drop \/ Drain \/ FinishDrop \/ UNCHANGED vars
  BY <1>5, <1>8 DEF NodeChange, NextCall, NothingOutOfOrder, RecvOutOfOrder, Drop, Drain,
    FinishDrop, sharedVars, vars, Running, StopSteps
<1> QED
  BY <1>2, <1>3, <1>4, <1>7, <1>8 DEF Next, ConsumerStepNext, ConsumerGoesOn, Terminated

(* At first all of them run.                                               *)
LEMMA InitWorkersRun == Init => WorkersRun
<1>1. Starting # Exited
  <2>1. Starting.step # Exited.step
    BY DEF Starting, Exited
  <2> QED BY <2>1
<1> QED BY <1>1 DEF Init, WorkersRun, Worker

(* Between restarts exactly thread_num workers run, with the flag down: no *)
(* thread survives stop_workers, and recv finds the channel connected.     *)
THEOREM WorkersMatch == Spec => []WorkersMatchThreadNum
<1>1. Init => WorkersRun
  BY InitWorkersRun
<1>2. ASSUME TypeOK, WorkersRun PROVE WorkersMatchThreadNum
  <2> SUFFICES ASSUME Running PROVE {w \in Worker : worker[w] # Exited} = 1..thread_num
    BY <1>2 DEF WorkersRun, WorkersMatchThreadNum
  <2>1. \A w : w \in 1..thread_num <=> w \in Worker /\ w <= thread_num
    BY <1>2, PrefetcherAssumption DEF TypeOK, Worker
  <2>2. \A w \in Worker : worker[w] # Exited <=> w <= thread_num
    BY <1>2 DEF WorkersRun
  <2> HIDE DEF Worker
  <2> QED BY <2>1, <2>2
<1> QED BY <1>1, <1>2, StepWorkersRun, TypeCorrect, PTL DEF Spec

(* The prefetcher is a block source: whatever the interleaving, every      *)
(* block it hands over extends the caller's chain where it points to, and  *)
(* lies above the block the caller resumed from.                           *)
THEOREM ImplementsStream == Spec => StreamSpec
<1>1. Init => Stream!Init
  BY InitInv DEF Inv, TypeOK, RecordedDelivered, DeliveredIsChain, IsChain, Stream!Init,
                 Stream!IsChain
<1>2. ASSUME Inv, [Next]_vars PROVE [\E b \in Block : Stream!Deliver(b)]_<<delivered, floor>>
  <2>1. UNCHANGED floor
    BY <1>2, FloorKept
  <2>2. ASSUME NEW item, item.id \in Block, Height[item.id] = cur_height, TrackReorgs(item)
        PROVE  [\E b \in Block : Stream!Deliver(b)]_<<delivered, floor>>
    <3>1. CASE Accept(item)
      <4>1. /\ cur_height \in 0..Len(delivered)
            /\ delivered' = ChainInsert(delivered, cur_height, item.id)
        BY <1>2, <3>1 DEF Inv, TypeOK, RecordedDelivered, Accept
      <4>2. cur_height > 0 => Parent[item.id] = delivered[cur_height]
        BY <1>2, <3>1 DEF Inv, TypeOK, RecordedDelivered, Accept, NoStoredHash, Mismatch
      <4>3. cur_height > floor \/ (cur_height = 0 /\ floor = 0)
        <5>1. PICK lo \in Nat, hi \in Int :
                /\ DOMAIN prev_hashes = lo..hi
                /\ hi < lo => cur_height = 0 /\ floor = -1
                /\ lo <= hi => cur_height \in lo..hi + 1 /\ floor <= lo
          BY <1>2 DEF Inv, RecordedRange
        <5>2. cur_height > 0 => cur_height - 1 \in lo..hi
          BY <3>1, <5>1 DEF Accept, NoStoredHash
        <5>3. cur_height \in Nat /\ floor \in Nat \cup {-1}
          BY <1>2 DEF Inv, TypeOK
        <5> QED BY <5>1, <5>2, <5>3
      <4> QED BY <2>2, <2>1, <4>1, <4>2, <4>3 DEF ChainInsert, Stream!Deliver, Stream!ChainInsert
    <3> QED BY <2>2, <2>1, <3>1 DEF TrackReorgs, PanicNoHash, DetectReorg
  <2>3. CASE TakeOutOfOrder
    <3>1. PICK item \in out_of_order_items : item.height = cur_height /\ TrackReorgs(item)
      BY <2>3 DEF TakeOutOfOrder
    <3>2. item.id \in Block /\ Height[item.id] = cur_height
      BY <1>2, <3>1 DEF Inv, TypeOK, Item, HeightsMatch
    <3> QED BY <2>2, <3>1, <3>2
  <2>4. CASE RecvExpected
    <3>1. /\ channel # <<>> /\ Head(channel).height = cur_height
          /\ TrackReorgs(Head(channel))
      BY <2>4 DEF RecvExpected
    <3>2. channel \in Seq(Item) /\ Head(channel) = channel[1] /\ 1 \in DOMAIN channel
      BY <1>2, <3>1 DEF Inv, TypeOK
    <3>3. channel[1] \in Item /\ Height[channel[1].id] = channel[1].height
      BY <1>2, <3>2 DEF Inv, HeightsMatch
    <3>4. Head(channel).id \in Block /\ Height[Head(channel).id] = cur_height
      BY <3>1, <3>2, <3>3 DEF Item
    <3> QED BY <2>2, <3>1, <3>4
  <2>5. CASE \E w \in Worker : WorkerNext(w)
    BY <2>5, <2>1 DEF WorkerNext, WorkerGetHeight, WorkerCheckFinish, WorkerGetId, WorkerGetBlock,
                WorkerRetry, WorkerSend, workerFrame
  <2> QED
    BY <1>2, <2>3, <2>4, <2>5, <2>1
    DEF Next, ConsumerStepNext, ConsumerGoesOn, NodeChange, NextCall, NothingOutOfOrder, RecvOutOfOrder, Drop,
        Drain, RestartAfterFastSync, RestartAfterReorg, FinishDrop, Terminated, vars
<1> QED BY <1>1, <1>2, SpecInv, PTL DEF Spec, StreamSpec, Stream!Spec
-----------------------------------------------------------------------------
(* Who holds which height.  HeightsAccountedFor in parts, with what makes  *)
(* it inductive: the shared counter is never below cur_height.             *)
FetchedOnce == \A v, w \in Fetching : worker[v].height = worker[w].height => v = w
SentOnce    == \A i, j \in DOMAIN channel : channel[i].height = channel[j].height => i = j
KeptOnce    == \A i, j \in out_of_order_items : i.height = j.height => i = j

Partition(F, C, R, lo, hi) ==
    /\ F \cup C \cup R = lo..hi
    /\ F \cap C = {} /\ F \cap R = {} /\ C \cap R = {}

HeldInv ==
    Running =>
        /\ cur_height <= next_height
        /\ Partition(FetchedHeights, ChannelHeights, ReorderHeights,
                     cur_height, next_height - 1)
        /\ FetchedOnce /\ SentOnce /\ KeptOnce

(* The parts make up the property.                                         *)
LEMMA HeldIsAccounted == HeldInv => HeightsAccountedFor
  BY DEF HeldInv, HeightsAccountedFor, Partition, FetchedOnce, SentOnce, KeptOnce

(* A worker goes on without taking a height or giving one away.            *)
LEMMA KeepsHeight ==
    ASSUME TypeOK, NEW w \in Worker, NEW s, NEW b, Become(w, s, worker[w].height, b),
           worker[w].step \notin {"get_height", "exited"}, s \notin {"get_height", "exited"}
    PROVE  FetchedHeights' = FetchedHeights /\ (FetchedOnce => FetchedOnce')
<1> DEFINE r == [step |-> s, height |-> worker[w].height, id |-> b]
<1>1. \A v \in Worker : worker'[v] = IF v = w THEN r ELSE worker[v]
  BY DEF Become, TypeOK
<1>2. r.step = s /\ r.height = worker[w].height
  OBVIOUS
<1> HIDE DEF r
<1>3. Fetching' = Fetching
  BY <1>1, <1>2 DEF Fetching
<1>4. \A v \in Worker : worker'[v].height = worker[v].height
  BY <1>1, <1>2
<1>5. Fetching \subseteq Worker
  BY DEF Fetching
<1> QED BY <1>3, <1>4, <1>5 DEF FetchedHeights, FetchedOnce

(* A worker takes a height from the counter.                               *)
LEMMA TakesHeight ==
    ASSUME TypeOK, NEW w \in Worker, NEW h, Become(w, "retry", h, NoBlock),
           worker[w].step = "get_height", h \notin FetchedHeights
    PROVE  FetchedHeights' = FetchedHeights \cup {h} /\ (FetchedOnce => FetchedOnce')
<1> DEFINE r == [step |-> "retry", height |-> h, id |-> NoBlock]
<1>1. \A v \in Worker : worker'[v] = IF v = w THEN r ELSE worker[v]
  BY DEF Become, TypeOK
<1>2. r.step = "retry" /\ r.height = h
  OBVIOUS
<1> HIDE DEF r
<1>3. Fetching' = Fetching \cup {w} /\ w \notin Fetching /\ Fetching \subseteq Worker
  BY <1>1, <1>2 DEF Fetching
<1>4. \A v \in Fetching : worker'[v].height = worker[v].height
  BY <1>1, <1>3
<1>5. worker'[w].height = h
  BY <1>1, <1>2
<1>6. FetchedHeights' = FetchedHeights \cup {h}
  BY <1>3, <1>4, <1>5 DEF FetchedHeights
<1>7. ASSUME FetchedOnce PROVE FetchedOnce'
  <2>1. \A v \in Fetching : worker[v].height # h
    BY DEF FetchedHeights
  <2> QED BY <1>3, <1>4, <1>5, <1>7, <2>1 DEF FetchedOnce
<1> QED BY <1>6, <1>7

(* A worker gives its height away.                                         *)
LEMMA GivesHeight ==
    ASSUME TypeOK, NEW w \in Worker, Become(w, "get_height", 0, NoBlock),
           worker[w].step = "send", FetchedOnce
    PROVE  /\ worker[w].height \in FetchedHeights
           /\ FetchedHeights' = FetchedHeights \ {worker[w].height}
           /\ FetchedOnce'
<1> DEFINE r == [step |-> "get_height", height |-> 0, id |-> NoBlock]
<1>1. \A v \in Worker : worker'[v] = IF v = w THEN r ELSE worker[v]
  BY DEF Become, TypeOK
<1>2. r.step = "get_height"
  OBVIOUS
<1> HIDE DEF r
<1>3. Fetching' = Fetching \ {w} /\ w \in Fetching /\ Fetching \subseteq Worker
  BY <1>1, <1>2 DEF Fetching
<1>4. \A v \in Fetching' : worker'[v].height = worker[v].height
  BY <1>1, <1>3
<1>5. \A v \in Fetching : worker[v].height = worker[w].height => v = w
  BY <1>3 DEF FetchedOnce
<1> QED BY <1>3, <1>4, <1>5 DEF FetchedHeights, FetchedOnce

(* The channel takes an item at its end and gives one from its front.      *)
LEMMA SentHeights ==
    ASSUME channel \in Seq(Item), NEW item \in Item, channel' = Append(channel, item),
           SentOnce, item.height \notin ChannelHeights
    PROVE  ChannelHeights' = ChannelHeights \cup {item.height} /\ SentOnce'
<1> DEFINE n == Len(channel)
<1>1. /\ n \in Nat /\ DOMAIN channel = 1..n /\ DOMAIN channel' = 1..n + 1
      /\ \A i \in 1..n : channel'[i] = channel[i]
      /\ channel'[n + 1] = item
  OBVIOUS
<1>2. DOMAIN channel' = DOMAIN channel \cup {n + 1} /\ n + 1 \notin DOMAIN channel
  BY <1>1
<1>3. \A i \in DOMAIN channel : channel'[i] = channel[i] /\ channel[i].height # item.height
  BY <1>1 DEF ChannelHeights
<1> HIDE DEF n
<1>4. ChannelHeights' = ChannelHeights \cup {item.height}
  BY <1>1, <1>2, <1>3 DEF ChannelHeights
<1>5. SentOnce'
  BY <1>1, <1>2, <1>3 DEF SentOnce
<1> QED BY <1>4, <1>5

(* The height at the front of the channel.                                 *)
LEMMA HeadHeight ==
    ASSUME channel \in Seq(Item), channel # <<>>
    PROVE  Head(channel).height \in ChannelHeights
<1>1. 1 \in DOMAIN channel /\ Head(channel) = channel[1]
  OBVIOUS
<1> QED BY <1>1 DEF ChannelHeights

(* A receive takes the item at the front.                                  *)
LEMMA ReceivedHeights ==
    ASSUME channel \in Seq(Item), channel # <<>>, channel' = Tail(channel), SentOnce
    PROVE  /\ Head(channel).height \in ChannelHeights
           /\ ChannelHeights' = ChannelHeights \ {Head(channel).height}
           /\ SentOnce'
<1> DEFINE n == Len(channel)
<1>1. /\ n \in Nat \ {0} /\ DOMAIN channel = 1..n /\ DOMAIN channel' = 1..n - 1
      /\ \A i \in 1..n - 1 : channel'[i] = channel[i + 1]
      /\ Head(channel) = channel[1]
  OBVIOUS
<1> HIDE DEF n
<1>2. \A i \in 1..n : i # 1 => channel[i].height # channel[1].height
  BY <1>1 DEF SentOnce
<1>3. ChannelHeights = {channel[i].height : i \in 1..n}
  BY <1>1 DEF ChannelHeights
<1>4. ChannelHeights' = {channel[i + 1].height : i \in 1..n - 1}
  <2>1. ChannelHeights' = {channel'[i].height : i \in 1..n - 1}
    BY <1>1 DEF ChannelHeights
  <2>2. \A i \in 1..n - 1 : channel'[i].height = channel[i + 1].height
    BY <1>1
  <2> QED BY <2>1, <2>2
<1>5. ChannelHeights' = ChannelHeights \ {channel[1].height}
  <2>1. \A i \in 1..n : i # 1 => i - 1 \in 1..n - 1 /\ channel[(i - 1) + 1] = channel[i]
    BY <1>1
  <2>2. \A i \in 1..n - 1 : i + 1 \in 1..n /\ i + 1 # 1
    BY <1>1
  <2> QED BY <1>2, <1>3, <1>4, <2>1, <2>2
<1>6. SentOnce'
  <2> SUFFICES ASSUME NEW i \in 1..n - 1, NEW j \in 1..n - 1,
                      channel'[i].height = channel'[j].height
               PROVE  i = j
    BY <1>1 DEF SentOnce
  <2>1. i + 1 \in DOMAIN channel /\ j + 1 \in DOMAIN channel
    BY <1>1
  <2> QED BY <1>1, <2>1 DEF SentOnce
<1> QED BY <1>1, <1>3, <1>5, <1>6

(* A worker's step moves heights from the counter to the workers, and from *)
(* there to the channel; with the flag down none is lost.                  *)
LEMMA WorkerStepHeld ==
    ASSUME TypeOK, TypeOK', WorkersRun, HeldInv, NEW w \in Worker, WorkerNext(w)
    PROVE  HeldInv'
<1>1. UNCHANGED <<cur_height, out_of_order_items, pc>>
  BY DEF WorkerNext, WorkerGetHeight, WorkerCheckFinish, WorkerGetId, WorkerGetBlock,
         WorkerRetry, WorkerSend, workerFrame
<1> SUFFICES ASSUME Running
             PROVE  /\ cur_height <= next_height'
                    /\ Partition(FetchedHeights', ChannelHeights', ReorderHeights,
                                 cur_height, next_height' - 1)
                    /\ FetchedOnce' /\ SentOnce' /\ KeptOnce'
  BY <1>1 DEF HeldInv, Running, ReorderHeights
<1>2. /\ ~workers_finish
      /\ cur_height <= next_height
      /\ Partition(FetchedHeights, ChannelHeights, ReorderHeights, cur_height, next_height - 1)
      /\ FetchedOnce /\ SentOnce /\ KeptOnce
  BY DEF WorkersRun, HeldInv
<1>3. KeptOnce' /\ cur_height \in Nat /\ next_height \in Nat
  BY <1>1, <1>2 DEF KeptOnce, TypeOK
<1>4. ASSUME UNCHANGED <<channel, next_height>>, FetchedHeights' = FetchedHeights, FetchedOnce'
      PROVE  /\ cur_height <= next_height'
             /\ Partition(FetchedHeights', ChannelHeights', ReorderHeights,
                          cur_height, next_height' - 1)
             /\ FetchedOnce' /\ SentOnce' /\ KeptOnce'
  BY <1>2, <1>3, <1>4 DEF ChannelHeights, SentOnce
<1>5. CASE WorkerGetHeight(w)
  <2>1. /\ worker[w].step = "get_height" /\ Become(w, "retry", next_height, NoBlock)
        /\ next_height' = next_height + 1 /\ channel' = channel
    BY <1>5 DEF WorkerGetHeight
  <2>2. next_height \notin FetchedHeights \cup ChannelHeights \cup ReorderHeights
    BY <1>2, <1>3 DEF Partition
  <2>3. FetchedHeights' = FetchedHeights \cup {next_height} /\ FetchedOnce'
    BY <1>2, <2>1, <2>2, TakesHeight
  <2>4. ChannelHeights' = ChannelHeights /\ SentOnce'
    BY <1>2, <2>1 DEF ChannelHeights, SentOnce
  <2>5. (cur_height..next_height - 1) \cup {next_height} = cur_height..next_height' - 1
    BY <1>2, <1>3, <2>1
  <2>6. cur_height <= next_height'
    BY <1>2, <1>3, <2>1
  <2> QED BY <1>2, <1>3, <2>2, <2>3, <2>4, <2>5, <2>6 DEF Partition
<1>6. CASE WorkerCheckFinish(w) \/ WorkerGetId(w) \/ WorkerGetBlock(w) \/ WorkerRetry(w)
  <2>1. UNCHANGED <<channel, next_height>>
    BY <1>6 DEF WorkerCheckFinish, WorkerGetId, WorkerGetBlock, WorkerRetry
  <2>2. /\ worker[w].step \notin {"get_height", "exited"}
        /\ \E s, b : /\ s \notin {"get_height", "exited"}
                     /\ Become(w, s, worker[w].height, b)
    BY <1>2, <1>6 DEF WorkerCheckFinish, WorkerGetId, WorkerGetBlock, WorkerRetry, WorkerStep
  <2>3. FetchedHeights' = FetchedHeights /\ FetchedOnce'
    BY <1>2, <2>2, KeepsHeight
  <2> QED BY <1>4, <2>1, <2>3
<1>7. CASE WorkerSend(w)
  <2> DEFINE item == [height |-> worker[w].height, id |-> worker[w].id]
  <2>1. /\ worker[w].step = "send" /\ Become(w, "get_height", 0, NoBlock)
        /\ channel' = Append(channel, item) /\ next_height' = next_height
        /\ channel \in Seq(Item) /\ channel' \in Seq(Item)
    BY <1>7 DEF WorkerSend, TypeOK
  <2>2. item.height = worker[w].height
    OBVIOUS
  <2>3. item \in Item
    <3>1. Len(channel) + 1 \in DOMAIN channel' /\ channel'[Len(channel) + 1] = item
      BY <2>1
    <3> QED BY <2>1, <3>1
  <2> HIDE DEF item
  <2>4. /\ item.height \in FetchedHeights
        /\ FetchedHeights' = FetchedHeights \ {item.height}
        /\ FetchedOnce'
    BY <1>2, <2>1, <2>2, GivesHeight
  <2>5. item.height \notin ChannelHeights /\ item.height \notin ReorderHeights
    BY <1>2, <2>4 DEF Partition
  <2>6. ChannelHeights' = ChannelHeights \cup {item.height} /\ SentOnce'
    BY <1>2, <2>1, <2>3, <2>5, SentHeights
  <2> QED BY <1>2, <1>3, <2>1, <2>4, <2>5, <2>6 DEF Partition
<1> QED BY <1>5, <1>6, <1>7 DEF WorkerNext

(* The consumer has taken the item that is due out of the buffer or the    *)
(* channel, and goes on to the next height, or stops the workers.          *)
LEMMA TrackReorgsHeld ==
    ASSUME TypeOK, HeldInv, Running, NEW item, TrackReorgs(item),
           UNCHANGED <<worker, next_height>>,
           cur_height \in ChannelHeights \cup ReorderHeights,
           ChannelHeights' = ChannelHeights \ {cur_height},
           ReorderHeights' = ReorderHeights \ {cur_height},
           SentOnce', KeptOnce'
    PROVE  HeldInv'
<1>1. CASE PanicNoHash \/ DetectReorg(item)
  BY <1>1 DEF PanicNoHash, DetectReorg, HeldInv, Running
<1>2. CASE Accept(item)
  <2>1. /\ cur_height \in Nat /\ next_height \in Nat
        /\ cur_height' = cur_height + 1 /\ next_height' = next_height
    BY <1>2 DEF Accept, TypeOK
  <2>2. /\ Partition(FetchedHeights, ChannelHeights, ReorderHeights,
                     cur_height, next_height - 1)
        /\ FetchedOnce /\ SentOnce /\ KeptOnce
    BY DEF HeldInv
  <2>3. FetchedHeights' = FetchedHeights /\ FetchedOnce'
    BY <2>2 DEF FetchedHeights, Fetching, FetchedOnce, Worker
  <2>4. cur_height \in cur_height..next_height - 1
    BY <2>2 DEF Partition
  <2>5. cur_height' <= next_height'
    BY <2>1, <2>4
  <2>6. (cur_height..next_height - 1) \ {cur_height} = cur_height'..next_height' - 1
    BY <2>1
  <2>7. cur_height \notin FetchedHeights
    BY <2>2 DEF Partition
  <2>8. Partition(FetchedHeights', ChannelHeights', ReorderHeights',
                  cur_height', next_height' - 1)
    BY <2>2, <2>3, <2>6, <2>7 DEF Partition
  <2> QED BY <2>3, <2>5, <2>8 DEF HeldInv
<1> QED BY <1>1, <1>2 DEF TrackReorgs

(* New workers hold nothing, and begin at cur_height.                      *)
LEMMA StartWorkersHeld ==
    ASSUME NEW n, NEW h \in Nat, StartWorkers(n, h), cur_height' = h,
           out_of_order_items' = {}
    PROVE  HeldInv'
<1>1. \A w \in Worker : worker'[w].step \in {"get_height", "exited"}
  BY DEF StartWorkers, Starting, Exited
<1>2. Fetching' = {} /\ DOMAIN channel' = {} /\ next_height' = h
  BY <1>1 DEF Fetching, StartWorkers, Worker
<1>3. FetchedHeights' = {} /\ ChannelHeights' = {} /\ ReorderHeights' = {}
  BY <1>2 DEF FetchedHeights, ChannelHeights, ReorderHeights
<1>4. cur_height' <= next_height' /\ cur_height'..next_height' - 1 = {}
  BY <1>2
<1> QED BY <1>2, <1>3, <1>4 DEF HeldInv, Partition, FetchedOnce, SentOnce, KeptOnce

(* Every step keeps each height in exactly one place.                      *)
LEMMA StepHeld == TypeOK /\ TypeOK' /\ ReorgAboveRecorded /\ WorkersRun /\ HeldInv
                     /\ [Next]_vars => HeldInv'
<1> SUFFICES ASSUME TypeOK, TypeOK', ReorgAboveRecorded, WorkersRun, HeldInv, [Next]_vars
             PROVE  HeldInv'
  OBVIOUS
<1>1. CASE \E w \in Worker : WorkerNext(w)
  BY <1>1, WorkerStepHeld
<1>2. CASE TakeOutOfOrder
  <2>1. PICK item \in out_of_order_items :
            /\ item.height = cur_height
            /\ out_of_order_items' = out_of_order_items \ {item}
            /\ TrackReorgs(item)
    BY <1>2 DEF TakeOutOfOrder
  <2>2. Running /\ KeptOnce /\ SentOnce /\ UNCHANGED <<worker, next_height, channel>>
    BY <1>2 DEF TakeOutOfOrder, Running, HeldInv
  <2>3. cur_height \in ReorderHeights
    BY <2>1 DEF ReorderHeights
  <2>4. ReorderHeights' = ReorderHeights \ {cur_height} /\ KeptOnce'
    BY <2>1, <2>2 DEF ReorderHeights, KeptOnce
  <2>5. cur_height \notin ChannelHeights
    BY <2>2, <2>3 DEF HeldInv, Partition
  <2>6. ChannelHeights' = ChannelHeights \ {cur_height} /\ SentOnce'
    BY <2>2, <2>5 DEF ChannelHeights, SentOnce
  <2> QED BY <2>1, <2>2, <2>3, <2>4, <2>6, TrackReorgsHeld
<1>3. CASE RecvExpected
  <2>1. /\ Running /\ channel # <<>> /\ Head(channel).height = cur_height
        /\ channel' = Tail(channel) /\ TrackReorgs(Head(channel))
        /\ UNCHANGED <<worker, next_height, out_of_order_items>>
        /\ channel \in Seq(Item) /\ SentOnce /\ KeptOnce
    BY <1>3 DEF RecvExpected, Running, HeldInv, TypeOK
  <2>2. /\ cur_height \in ChannelHeights
        /\ ChannelHeights' = ChannelHeights \ {cur_height} /\ SentOnce'
    BY <2>1, ReceivedHeights
  <2>3. cur_height \notin ReorderHeights
    BY <2>1, <2>2 DEF HeldInv, Partition
  <2>4. ReorderHeights' = ReorderHeights \ {cur_height} /\ KeptOnce'
    BY <2>1, <2>3 DEF ReorderHeights, KeptOnce
  <2> QED BY <2>1, <2>2, <2>4, TrackReorgsHeld
<1>4. CASE RecvOutOfOrder
  <2> DEFINE item == Head(channel)
  <2>1. /\ Running /\ channel # <<>> /\ channel' = Tail(channel)
        /\ UNCHANGED <<worker, next_height, cur_height>>
        /\ channel \in Seq(Item) /\ cur_height \in Nat /\ next_height \in Nat
        /\ Partition(FetchedHeights, ChannelHeights, ReorderHeights,
                     cur_height, next_height - 1)
        /\ FetchedOnce /\ SentOnce /\ KeptOnce /\ cur_height <= next_height
    BY <1>4 DEF RecvOutOfOrder, Running, HeldInv, TypeOK
  <2>2. /\ item.height \in ChannelHeights
        /\ ChannelHeights' = ChannelHeights \ {item.height} /\ SentOnce'
    BY <2>1, ReceivedHeights
  <2>3. item.height \in cur_height..next_height - 1
        /\ item.height \notin ReorderHeights /\ item.height \notin FetchedHeights
    BY <2>1, <2>2 DEF Partition
  <2>4. out_of_order_items' = Keep(item)
    BY <1>4, <2>1, <2>3 DEF RecvOutOfOrder
  <2>5. Keep(item) = out_of_order_items \cup {item}
    BY <2>3 DEF Keep, ReorderHeights
  <2> HIDE DEF item
  <2>6. ReorderHeights' = ReorderHeights \cup {item.height}
    BY <2>4, <2>5 DEF ReorderHeights
  <2>7. KeptOnce'
    BY <2>1, <2>3, <2>4, <2>5 DEF KeptOnce, ReorderHeights
  <2>8. FetchedHeights' = FetchedHeights /\ FetchedOnce'
    BY <2>1 DEF FetchedHeights, Fetching, FetchedOnce, Worker
  <2>9. Partition(FetchedHeights', ChannelHeights', ReorderHeights',
                  cur_height', next_height' - 1)
    BY <2>1, <2>2, <2>3, <2>6, <2>8 DEF Partition
  <2> QED BY <2>1, <2>2, <2>7, <2>8, <2>9 DEF HeldInv
<1>5. CASE RestartAfterFastSync
  BY <1>5, StartWorkersHeld DEF RestartAfterFastSync, KeptOnStop, TypeOK
<1>6. CASE RestartAfterReorg
  <2>1. cur_height - 1 \in Nat
    BY <1>6 DEF RestartAfterReorg, ReorgAboveRecorded, TypeOK
  <2> QED BY <1>6, <2>1, StartWorkersHeld DEF RestartAfterReorg, KeptOnStop, HeightAfterReorg
<1>7. ASSUME Running' => Running,
             UNCHANGED <<cur_height, out_of_order_items, next_height, channel, worker>>
      PROVE  HeldInv'
  BY <1>7 DEF HeldInv, FetchedHeights, Fetching, ChannelHeights, ReorderHeights, FetchedOnce,
    SentOnce, KeptOnce, Worker
<1>8. CASE NodeChange \/ NextCall \/ NothingOutOfOrder \/ Drop \/ UNCHANGED vars
  <2>1. UNCHANGED <<cur_height, out_of_order_items, next_height, channel, worker>>
    BY <1>8 DEF NodeChange, NextCall, NothingOutOfOrder, Drop, sharedVars, vars
  <2>2. Running' => Running
    BY <1>8 DEF NodeChange, NextCall, NothingOutOfOrder, Drop, vars, Running
  <2> QED BY <1>7, <2>1, <2>2
<1>9. CASE Drain \/ FinishDrop
  BY <1>9 DEF Drain, FinishDrop, Running, StopSteps, HeldInv
<1> QED
  BY <1>1, <1>2, <1>3, <1>4, <1>5, <1>6, <1>8, <1>9
  DEF Next, ConsumerStepNext, ConsumerGoesOn, Terminated

(* Both hold from the start.                                               *)
LEMMA RunningInv == Spec => [](WorkersRun /\ HeldInv)
<1>1. Init => WorkersRun
  BY InitWorkersRun
<1>2. Init => HeldInv
  <2> SUFFICES ASSUME Init PROVE HeldInv
    OBVIOUS
  <2>1. \A w \in Worker : worker[w].step = "get_height"
    BY DEF Init, Starting
  <2>2. Fetching = {} /\ DOMAIN channel = {} /\ out_of_order_items = {}
    BY <2>1 DEF Init, Fetching
  <2>3. FetchedHeights = {} /\ ChannelHeights = {} /\ ReorderHeights = {}
    BY <2>2 DEF FetchedHeights, ChannelHeights, ReorderHeights
  <2>4. cur_height \in Nat /\ next_height = cur_height
    BY InitInv DEF Init, Inv, TypeOK
  <2>5. cur_height <= next_height /\ cur_height..next_height - 1 = {}
    BY <2>4
  <2> QED BY <2>2, <2>3, <2>5 DEF HeldInv, Partition, FetchedOnce, SentOnce, KeptOnce
<1>3. Inv /\ Inv' => TypeOK /\ TypeOK' /\ ReorgAboveRecorded
  BY DEF Inv
<1> QED BY <1>1, <1>2, <1>3, StepWorkersRun, StepHeld, SpecInv, PTL DEF Spec

(* Between restarts every height from cur_height up to the counter is in   *)
(* exactly one place: none is lost, none is handed over twice, and the     *)
(* assertion on the height of an item out of order cannot fail (next).     *)
THEOREM HeightsAccounted == Spec => []HeightsAccountedFor
  BY RunningInv, HeldIsAccounted, PTL
-----------------------------------------------------------------------------
(* Where the items come from.  The node, now on chain k, has block b at    *)
(* height h, or had it there on a chain it left for a longer one.          *)
SeenBy(k, h, b) ==
    \E c \in Chains : (c = k \/ Len(c) < Len(k)) /\ h < Len(c) /\ c[h + 1] = b

Seen(h, b) == SeenBy(chain, h, b)

(* What was fetched and has not reached the consumer yet.                  *)
WorkerItems ==
    {[height |-> worker[w].height, id |-> worker[w].id] :
        w \in {v \in Worker : worker[v].id # NoBlock}}
ChannelItems == {channel[i] : i \in DOMAIN channel}
InFlight == WorkerItems \cup ChannelItems \cup out_of_order_items

SeenInv == \A i \in InFlight : Seen(i.height, i.id)

(* The node's chain only gets longer, so what was seen stays seen.         *)
LEMMA ChainGrows ==
    ASSUME Inv, [Next]_vars
    PROVE  /\ chain' = chain \/ Len(chain') > Len(chain)
           /\ Len(chain') >= Len(chain) /\ Len(chain) \in Nat /\ Len(chain') \in Nat
<1>1. chain \in Chains /\ Len(chain) \in Nat
  BY ChainsAreChains DEF Inv, TypeOK
<1>2. CASE NodeChange
  <2>1. chain' \in Chains /\ Len(chain') > Len(chain)
    BY <1>2 DEF NodeChange
  <2>2. Len(chain') \in Nat
    BY <2>1, ChainsAreChains
  <2> QED BY <1>1, <2>1, <2>2
<1>3. CASE UNCHANGED chain
  BY <1>1, <1>3
<1>4. CASE ~NodeChange
  <2>1. UNCHANGED chain
    BY <1>4 DEF Next, ConsumerStepNext, ConsumerGoesOn, NextCall, TakeOutOfOrder, NothingOutOfOrder,
    RecvExpected, RecvOutOfOrder, Drop, Drain, RestartAfterFastSync, RestartAfterReorg,
    FinishDrop, Terminated, WorkerNext, WorkerGetHeight, WorkerCheckFinish, WorkerGetId,
    WorkerGetBlock, WorkerRetry, WorkerSend, workerFrame, consumerFrame, vars
  <2> QED BY <2>1, <1>3
<1> QED BY <1>2, <1>4

(* What was seen stays seen.                                               *)
LEMMA StaysSeen ==
    ASSUME Inv, [Next]_vars, NEW h, NEW b, Seen(h, b)
    PROVE  SeenBy(chain', h, b)
<1>1. PICK c \in Chains : (c = chain \/ Len(c) < Len(chain)) /\ h < Len(c) /\ c[h + 1] = b
  BY DEF Seen, SeenBy
<1>2. Len(c) \in Nat
  BY ChainsAreChains
<1>3. c = chain' \/ Len(c) < Len(chain')
  BY <1>1, <1>2, ChainGrows
<1> QED BY <1>1, <1>3 DEF SeenBy

(* What goes into flight in a step is what one worker asks the node for.   *)
LEMMA NewInFlight ==
    ASSUME Inv, [Next]_vars, NEW i \in InFlight', i \notin InFlight
    PROVE  \E w \in Worker : /\ WorkerGetId(w)
                             /\ i.height = worker[w].height
                             /\ i.id = chain[worker[w].height + 1]
<1>0. channel \in Seq(Item) /\ worker \in [Worker -> WorkerState]
  BY DEF Inv, TypeOK
<1>1. ASSUME UNCHANGED worker PROVE WorkerItems' = WorkerItems
  BY <1>1 DEF WorkerItems, Worker
<1>2. ASSUME UNCHANGED channel PROVE ChannelItems' = ChannelItems
  BY <1>2 DEF ChannelItems
<1>3. ASSUME channel # <<>>, channel' = Tail(channel)
      PROVE  ChannelItems' \subseteq ChannelItems /\ Head(channel) \in ChannelItems
  <2>1. /\ 1 \in DOMAIN channel /\ Head(channel) = channel[1]
        /\ \A n \in DOMAIN channel' : n + 1 \in DOMAIN channel /\ channel'[n] = channel[n + 1]
    BY <1>0, <1>3
  <2> QED BY <2>1 DEF ChannelItems
<1>4. ASSUME NEW n, NEW h, StartWorkers(n, h)
      PROVE  WorkerItems' = {} /\ ChannelItems' = {}
  <2>1. \A w \in Worker : worker'[w].id = NoBlock
    BY <1>4 DEF StartWorkers, Starting, Exited
  <2>2. DOMAIN channel' = {}
    BY <1>4 DEF StartWorkers
  <2> QED BY <2>1, <2>2 DEF WorkerItems, ChannelItems, Worker
<1>5. ASSUME NEW w \in Worker, NEW s, NEW h, NEW b, Become(w, s, h, b)
      PROVE  /\ WorkerItems' \subseteq WorkerItems \cup {[height |-> h, id |-> b]}
             /\ b = NoBlock => WorkerItems' \subseteq WorkerItems
  <2> DEFINE r == [step |-> s, height |-> h, id |-> b]
  <2>1. \A v \in Worker : worker'[v] = IF v = w THEN r ELSE worker[v]
    BY <1>0, <1>5 DEF Become
  <2>2. r.height = h /\ r.id = b
    OBVIOUS
  <2> HIDE DEF r
  <2>3. ASSUME NEW v \in Worker, worker'[v].id # NoBlock
        PROVE  \/ v # w /\ worker'[v] = worker[v]
               \/ v = w /\ worker'[v].height = h /\ worker'[v].id = b
    BY <2>1, <2>2
  <2>4. ASSUME NEW j \in WorkerItems'
        PROVE  j \in WorkerItems \/ (j = [height |-> h, id |-> b] /\ b # NoBlock)
    <3>1. PICK v \in Worker : /\ worker'[v].id # NoBlock
                              /\ j = [height |-> worker'[v].height, id |-> worker'[v].id]
      BY <2>4 DEF WorkerItems, Worker
    <3> QED BY <2>3, <3>1 DEF WorkerItems
  <2> QED BY <2>4
<1>6. CASE \E w \in Worker : WorkerNext(w)
  <2>1. PICK w \in Worker : WorkerNext(w)
    BY <1>6
  <2>2. out_of_order_items' = out_of_order_items
    BY <2>1 DEF WorkerNext, WorkerGetHeight, WorkerCheckFinish, WorkerGetId, WorkerGetBlock,
           WorkerRetry, WorkerSend, workerFrame
  <2>3. CASE WorkerGetHeight(w) \/ WorkerCheckFinish(w) \/ WorkerRetry(w)
    <3>1. (\E s, h : Become(w, s, h, NoBlock)) /\ channel' = channel
      BY <2>3 DEF WorkerGetHeight, WorkerCheckFinish, WorkerRetry
    <3> QED BY <1>2, <1>5, <2>2, <3>1 DEF InFlight
  <2>4. CASE WorkerGetId(w)
    <3> DEFINE h == worker[w].height
               b == chain[h + 1]
    <3>1. Become(w, "get_block", h, b) /\ channel' = channel
      BY <2>4 DEF WorkerGetId
    <3>2. i = [height |-> h, id |-> b]
      BY <1>2, <1>5, <2>2, <3>1 DEF InFlight
    <3> QED BY <2>4, <3>2
  <2>5. CASE WorkerGetBlock(w)
    <3> DEFINE h == worker[w].height
               b == worker[w].id
    <3>1. Become(w, "send", h, b) /\ channel' = channel /\ worker[w].step = "get_block"
      BY <2>5 DEF WorkerGetBlock
    <3>2. b # NoBlock
      BY <3>1, BlockTreeAssumption DEF Inv, HeightsMatch
    <3>3. [height |-> h, id |-> b] \in WorkerItems
      BY <3>2 DEF WorkerItems
    <3> QED BY <1>2, <1>5, <2>2, <3>1, <3>3 DEF InFlight
  <2>6. CASE WorkerSend(w)
    <3> DEFINE item == [height |-> worker[w].height, id |-> worker[w].id]
    <3>1. /\ channel' = Append(channel, item) /\ Become(w, "get_height", 0, NoBlock)
          /\ worker[w].step = "send"
      BY <2>6 DEF WorkerSend
    <3>2. worker[w].id # NoBlock
      BY <3>1, BlockTreeAssumption DEF Inv, HeightsMatch
    <3>3. item \in WorkerItems /\ item \in Item
      BY <1>0, <3>1, <3>2 DEF WorkerItems, Inv, HeightsMatch, WorkerState, Item
    <3> HIDE DEF item
    <3>4. \A n \in DOMAIN channel' :
            \/ n \in DOMAIN channel /\ channel'[n] = channel[n]
            \/ channel'[n] = item
      BY <1>0, <3>1, <3>3
    <3>5. ChannelItems' \subseteq ChannelItems \cup {item}
      BY <3>4 DEF ChannelItems
    <3>6. WorkerItems' \subseteq WorkerItems
      BY <1>5, <3>1
    <3> QED BY <2>2, <3>3, <3>5, <3>6 DEF InFlight
  <2> QED BY <2>1, <2>3, <2>4, <2>5, <2>6 DEF WorkerNext
<1>7. CASE TakeOutOfOrder
  <2>1. UNCHANGED <<worker, channel>> /\ out_of_order_items' \subseteq out_of_order_items
    BY <1>7 DEF TakeOutOfOrder
  <2> QED BY <1>1, <1>2, <2>1 DEF InFlight
<1>8. CASE RecvExpected \/ Drain
  <2>1. /\ channel # <<>> /\ channel' = Tail(channel)
        /\ UNCHANGED <<worker, out_of_order_items>>
    BY <1>8 DEF RecvExpected, Drain
  <2> QED BY <1>1, <1>3, <2>1 DEF InFlight
<1>9. CASE RecvOutOfOrder
  <2>1. /\ channel # <<>> /\ channel' = Tail(channel) /\ UNCHANGED worker
        /\ out_of_order_items' \subseteq out_of_order_items \cup {Head(channel)}
    BY <1>9 DEF RecvOutOfOrder, Keep
  <2> QED BY <1>1, <1>3, <2>1 DEF InFlight
<1>10. CASE RestartAfterFastSync \/ RestartAfterReorg
  <2>1. out_of_order_items' = {} /\ \E n, h : StartWorkers(n, h)
    BY <1>10 DEF RestartAfterFastSync, RestartAfterReorg, KeptOnStop
  <2> QED BY <1>4, <2>1 DEF InFlight
<1>11. CASE NodeChange \/ NextCall \/ NothingOutOfOrder \/ Drop \/ FinishDrop \/ UNCHANGED vars
  <2>1. UNCHANGED <<worker, channel>> /\ out_of_order_items' \subseteq out_of_order_items
    BY <1>11 DEF NodeChange, NextCall, NothingOutOfOrder, Drop, FinishDrop, KeptOnStop,
       sharedVars, vars
  <2> QED BY <1>1, <1>2, <2>1 DEF InFlight
<1> QED
  BY <1>6, <1>7, <1>8, <1>9, <1>10, <1>11
  DEF Next, ConsumerStepNext, ConsumerGoesOn, Terminated

(* Items are passed on as they came from the node.                         *)
LEMMA StepSeen == ASSUME Inv, SeenInv, [Next]_vars PROVE SeenInv'
<1> SUFFICES ASSUME NEW i \in InFlight' PROVE SeenBy(chain', i.height, i.id)
  BY DEF SeenInv, Seen
<1>1. CASE i \in InFlight
  BY <1>1, StaysSeen DEF SeenInv
<1>2. CASE i \notin InFlight
  <2>1. PICK w \in Worker : /\ WorkerGetId(w)
                            /\ i.height = worker[w].height
                            /\ i.id = chain[worker[w].height + 1]
    BY <1>2, NewInFlight
  <2>2. chain \in Chains /\ i.height < Len(chain) /\ chain' = chain
    BY <2>1 DEF WorkerGetId, workerFrame, Inv, TypeOK
  <2> QED BY <2>1, <2>2 DEF SeenBy
<1> QED BY <1>1, <1>2

(* The item that is due, wherever it came from, is a block the node has or *)
(* had.                                                                    *)
LEMMA DueItem ==
    ASSUME Inv, SeenInv, TakeOutOfOrder \/ RecvExpected
    PROVE  /\ pc \in {"look", "recv"}
           /\ \E item \in InFlight : /\ item.id \in Block /\ item.height = cur_height
                                    /\ Seen(cur_height, item.id)
                                    /\ TrackReorgs(item)
<1>1. CASE TakeOutOfOrder
  <2>1. PICK item \in out_of_order_items : item.height = cur_height /\ TrackReorgs(item)
    BY <1>1 DEF TakeOutOfOrder
  <2>2. item \in InFlight /\ item.id \in Block /\ Seen(cur_height, item.id)
    BY <2>1 DEF Inv, TypeOK, Item, SeenInv, InFlight
  <2>3. pc = "look"
    BY <1>1 DEF TakeOutOfOrder
  <2> QED BY <2>1, <2>2, <2>3
<1>2. CASE RecvExpected
  <2>1. /\ channel # <<>> /\ Head(channel).height = cur_height
        /\ TrackReorgs(Head(channel)) /\ pc = "recv" /\ channel \in Seq(Item)
    BY <1>2 DEF RecvExpected, Inv, TypeOK
  <2>2. 1 \in DOMAIN channel /\ Head(channel) = channel[1] /\ channel[1] \in Item
    BY <2>1
  <2>3. Head(channel) \in InFlight
    BY <2>2 DEF InFlight, ChannelItems
  <2>4. Head(channel).id \in Block /\ Seen(cur_height, Head(channel).id)
    BY <2>1, <2>2, <2>3 DEF Item, SeenInv
  <2> QED BY <2>1, <2>3, <2>4
<1> QED BY <1>1, <1>2

(* Whatever is fetched has been seen.                                      *)
LEMMA ItemsSeen == Spec => []SeenInv
<1>1. Init => SeenInv
  <2> SUFFICES ASSUME Init PROVE InFlight = {}
    BY DEF SeenInv
  <2>1. \A w \in Worker : worker[w].id = NoBlock
    BY DEF Init, Starting
  <2> QED BY <2>1 DEF Init, InFlight, WorkerItems, ChannelItems
<1>2. Inv /\ SeenInv /\ [Next]_vars => SeenInv'
  BY StepSeen
<1> QED BY <1>1, <1>2, SpecInv, PTL DEF Spec
-----------------------------------------------------------------------------
(* Why track_reorgs panics.  With two hashes or more in the window, no     *)
(* reply from before the last block was recorded can be compared with the  *)
(* lowest hash: that takes a step back, and a step back starts new workers.*)
LowestIn(hashes, l) == l \in DOMAIN hashes /\ l > 0 /\ l - 1 \notin DOMAIN hashes

FreshBy(hashes, gone, h, b) ==
    LowestIn(hashes, h - 1) => Parent[b] = hashes[h - 1] \/ h - 1 \in gone

FreshInv == \A i \in InFlight : FreshBy(prev_hashes, replaced, i.height, i.id)

(* The prefetcher goes below the lowest recorded height only because the   *)
(* node has replaced the block recorded there.                             *)
ReorgInv ==
    /\ Differs(chain, prev_hashes) \subseteq replaced
    /\ pc = "stop_reorg" /\ LowestIn(prev_hashes, cur_height - 1) => cur_height - 1 \in replaced
    /\ NoStoredHash => cur_height \in replaced
    /\ pc = "panicked" => NoStoredHash

(* While the consumer looks for a block, all that is in flight is due.     *)
FlightAbove == \A i \in InFlight : i.height \in Nat /\ cur_height <= i.height

LEMMA HeldFlight == Inv /\ HeldInv /\ Running => FlightAbove
<1> SUFFICES ASSUME Inv, HeldInv, Running, NEW i \in InFlight
             PROVE  i.height \in cur_height..next_height - 1
  BY DEF FlightAbove, Inv, TypeOK
<1>1. Partition(FetchedHeights, ChannelHeights, ReorderHeights, cur_height, next_height - 1)
  BY DEF HeldInv
<1>2. CASE i \in WorkerItems
  <2>1. PICK w \in Worker : worker[w].id # NoBlock /\ i.height = worker[w].height
    BY <1>2 DEF WorkerItems
  <2>2. worker[w].id \in Block
    BY <2>1 DEF Inv, TypeOK, WorkerState
  <2>3. w \in Fetching
    BY <2>2 DEF Inv, HeightsMatch, Fetching
  <2> QED BY <1>1, <2>1, <2>3 DEF FetchedHeights, Partition
<1>3. CASE i \in ChannelItems
  BY <1>1, <1>3 DEF ChannelItems, ChannelHeights, Partition
<1>4. CASE i \in out_of_order_items
  BY <1>1, <1>4 DEF ReorderHeights, Partition
<1> QED BY <1>2, <1>3, <1>4 DEF InFlight

(* The records change only when a block is accepted.                       *)
LEMMA RecordsStep ==
    ASSUME Inv, SeenInv, [Next]_vars
    PROVE  \/ /\ UNCHANGED chain
              /\ \E item \in InFlight : /\ item.id \in Block /\ item.height = cur_height
                                        /\ Seen(cur_height, item.id) /\ Accept(item)
           \/ UNCHANGED <<chain, prev_hashes, replaced>>
           \/ NodeChange
<1>1. CASE TakeOutOfOrder \/ RecvExpected
  <2>1. PICK item \in InFlight : /\ item.id \in Block /\ item.height = cur_height
                                 /\ Seen(cur_height, item.id) /\ TrackReorgs(item)
    BY <1>1, DueItem
  <2>2. UNCHANGED chain
    BY <1>1 DEF TakeOutOfOrder, RecvExpected, consumerFrame
  <2> QED BY <2>1, <2>2 DEF TrackReorgs, PanicNoHash, DetectReorg
<1>2. CASE ~TakeOutOfOrder /\ ~RecvExpected
  BY <1>2 DEF Next, ConsumerStepNext, ConsumerGoesOn, NextCall, NothingOutOfOrder,
    RecvOutOfOrder, Drop, Drain, RestartAfterFastSync, RestartAfterReorg,
    FinishDrop, Terminated, WorkerNext, WorkerGetHeight, WorkerCheckFinish, WorkerGetId,
    WorkerGetBlock, WorkerRetry, WorkerSend, workerFrame, consumerFrame, vars
<1> QED BY <1>1, <1>2

(* A window of two or more never has the block just accepted at its low    *)
(* end, unless that is genesis.                                            *)
LEMMA AcceptedAboveLowest ==
    ASSUME WindowSize > 1, Inv, NEW item, Accept(item), NEW l, LowestIn(prev_hashes', l)
    PROVE  /\ l \in Nat /\ l < cur_height
           /\ l \in DOMAIN prev_hashes /\ prev_hashes'[l] = prev_hashes[l]
<1>1. PICK lo \in Nat, hi \in Int :
        /\ DOMAIN prev_hashes = lo..hi
        /\ hi < lo => cur_height = 0
        /\ lo <= hi => cur_height \in lo..hi + 1
  BY DEF Inv, RecordedRange
<1> DEFINE D == (DOMAIN prev_hashes \cup {cur_height}) \ {cur_height - WindowSize}
<1>2. /\ DOMAIN prev_hashes' = D
      /\ \A h \in D : prev_hashes'[h] = IF h = cur_height THEN item.id ELSE prev_hashes[h]
  BY DEF Accept, Remember
<1>3. /\ l \in D /\ l > 0 /\ l - 1 \notin D
      /\ cur_height \in Nat /\ WindowSize \in Nat
      /\ cur_height > 0 => cur_height - 1 \in DOMAIN prev_hashes
  BY <1>2, PrefetcherAssumption DEF LowestIn, Accept, NoStoredHash, Inv, TypeOK
<1>4. l \in Nat
  BY <1>1, <1>3
<1>5. cur_height \in D /\ (cur_height > 0 => cur_height - 1 \in D)
  BY <1>3
<1>6. l # cur_height
  BY <1>3, <1>5
<1>7. ~(l > cur_height)
  <2> SUFFICES ASSUME l > cur_height PROVE FALSE
    OBVIOUS
  <2>1. l \in lo..hi
    BY <1>1, <1>3, <1>6
  <2>2. CASE l - 1 = cur_height
    BY <1>3, <1>5, <2>2
  <2>3. CASE l - 1 > cur_height
    BY <1>1, <1>3, <1>4, <2>1, <2>3
  <2> QED BY <1>3, <1>4, <2>2, <2>3
<1> QED BY <1>2, <1>3, <1>4, <1>6, <1>7

(* What is in flight stays fresh.                                          *)
LEMMA StepFresh ==
    ASSUME WindowSize > 1, Inv, SeenInv, FreshInv, ReorgInv, [Next]_vars,
           pc' = "idle" => FlightAbove'
    PROVE  FreshInv'
<1> SUFFICES ASSUME NEW i \in InFlight'
             PROVE  FreshBy(prev_hashes', replaced', i.height, i.id)
  BY DEF FreshInv
<1>1. ASSUME NEW item, Accept(item)
      PROVE  FreshBy(prev_hashes', replaced', i.height, i.id)
  <2>1. /\ pc' = "idle" /\ cur_height' = cur_height + 1 /\ cur_height \in Nat
    BY <1>1 DEF Accept, Inv, TypeOK
  <2>2. i.height \in Nat /\ cur_height + 1 <= i.height
    BY <2>1 DEF FlightAbove
  <2>3. ~(i.height - 1 < cur_height)
    BY <2>1, <2>2
  <2> QED BY <1>1, <2>3, AcceptedAboveLowest DEF FreshBy
<1>2. ASSUME prev_hashes' = prev_hashes, replaced \subseteq replaced'
      PROVE  FreshBy(prev_hashes', replaced', i.height, i.id)
  <2>1. CASE i \in InFlight
    <3>1. FreshBy(prev_hashes, replaced, i.height, i.id)
      BY <2>1 DEF FreshInv
    <3> QED BY <1>2, <3>1 DEF FreshBy
  <2>2. CASE i \notin InFlight
    <3>1. PICK w \in Worker : /\ WorkerGetId(w)
                              /\ i.height = worker[w].height
                              /\ i.id = chain[worker[w].height + 1]
      BY <2>2, NewInFlight
    <3>2. /\ chain \in Chains /\ i.height < Len(chain) /\ i.height \in Nat
          /\ i.id = chain[i.height + 1]
      BY <3>1 DEF WorkerGetId, Inv, TypeOK, WorkerState
    <3>3. IsChain(chain) /\ Len(chain) \in Nat
      BY <3>2, ChainsAreChains
    <3> SUFFICES ASSUME LowestIn(prev_hashes, i.height - 1)
                 PROVE  Parent[i.id] = prev_hashes[i.height - 1] \/ i.height - 1 \in replaced
      BY <1>2 DEF FreshBy
    <3>4. /\ i.height - 1 \in DOMAIN prev_hashes /\ i.height - 1 > 0
          /\ i.height + 1 \in 2..Len(chain)
      BY <3>2, <3>3 DEF LowestIn
    <3>5. Parent[i.id] = chain[i.height]
      BY <3>2, <3>3, <3>4 DEF IsChain
    <3>6. CASE chain[i.height] # prev_hashes[i.height - 1]
      <4>1. i.height - 1 < Len(chain) /\ (i.height - 1) + 1 = i.height
        BY <3>2, <3>3
      <4>2. i.height - 1 \in Differs(chain, prev_hashes)
        BY <3>4, <3>6, <4>1 DEF Differs
      <4> QED BY <4>2 DEF ReorgInv
    <3> QED BY <3>5, <3>6
  <2> QED BY <2>1, <2>2
<1> QED BY <1>1, <1>2, RecordsStep DEF NodeChange

(* What track_reorgs finds out about the block below.                      *)
LEMMA TrackReorgsReorg ==
    ASSUME Inv, ReorgInv, UNCHANGED chain, NEW item, item.height = cur_height,
           FreshBy(prev_hashes, replaced, item.height, item.id), TrackReorgs(item)
    PROVE  ReorgInv'
<1>1. CASE PanicNoHash
  BY <1>1 DEF PanicNoHash, NoStoredHash, ReorgInv, Differs
<1>2. CASE DetectReorg(item)
  <2>1. /\ ~NoStoredHash /\ cur_height > 0 /\ prev_hashes[cur_height - 1] # Parent[item.id]
        /\ pc' = "stop_reorg" /\ UNCHANGED <<cur_height, prev_hashes, replaced>>
    BY <1>2 DEF DetectReorg, Mismatch
  <2>2. LowestIn(prev_hashes, cur_height - 1) => cur_height - 1 \in replaced
    BY <2>1 DEF FreshBy
  <2>3. Differs(chain, prev_hashes) \subseteq replaced
    BY DEF ReorgInv
  <2> QED BY <2>1, <2>2, <2>3 DEF ReorgInv, NoStoredHash, Differs
<1>3. CASE Accept(item)
  <2>1. /\ pc' = "idle" /\ cur_height' = cur_height + 1 /\ cur_height \in Nat
        /\ prev_hashes' = Remember(item) /\ replaced' = Differs(chain, prev_hashes')
    BY <1>3 DEF Accept, Inv, TypeOK
  <2>2. cur_height \in DOMAIN prev_hashes'
    BY <2>1, PrefetcherAssumption DEF Remember
  <2>3. ~NoStoredHash'
    BY <2>1, <2>2 DEF NoStoredHash
  <2> QED BY <2>1, <2>3 DEF ReorgInv
<1> QED BY <1>1, <1>2, <1>3 DEF TrackReorgs

(* Every step keeps the reason for going below a height.                   *)
LEMMA StepReorg ==
    ASSUME Inv, SeenInv, HeldInv, FreshInv, ReorgInv, [Next]_vars
    PROVE  ReorgInv'
<1>1. CASE TakeOutOfOrder \/ RecvExpected
  <2>1. PICK item \in InFlight : item.height = cur_height /\ TrackReorgs(item)
    BY <1>1, DueItem
  <2>2. UNCHANGED chain
    BY <1>1 DEF TakeOutOfOrder, RecvExpected, consumerFrame
  <2> QED BY <2>1, <2>2, TrackReorgsReorg DEF FreshInv
<1>2. ASSUME UNCHANGED <<cur_height, prev_hashes>>,
             Differs(chain', prev_hashes) \subseteq replaced', replaced \subseteq replaced',
             pc' = "stop_reorg" => pc = "stop_reorg",
             pc' = "panicked" => pc = "panicked"
      PROVE  ReorgInv'
  <2>1. NoStoredHash' <=> NoStoredHash
    BY <1>2 DEF NoStoredHash
  <2> QED BY <1>2, <2>1 DEF ReorgInv
<1>3. CASE RecvOutOfOrder
  <2>1. /\ UNCHANGED <<cur_height, prev_hashes, chain, replaced>>
        /\ pc = "recv" /\ channel # <<>>
    BY <1>3 DEF RecvOutOfOrder, consumerFrame
  <2>2. Head(channel).height \in ChannelHeights
    BY <2>1, HeadHeight DEF Inv, TypeOK
  <2>3. Head(channel).height \in cur_height..next_height - 1
    BY <2>1, <2>2 DEF HeldInv, Running, Partition
  <2>4. Head(channel).height > cur_height
    BY <1>3, <2>3 DEF RecvOutOfOrder, Inv, TypeOK
  <2>5. pc' = pc
    BY <1>3, <2>4 DEF RecvOutOfOrder
  <2> QED BY <1>2, <2>1, <2>5 DEF ReorgInv
<1>4. CASE RestartAfterReorg
  <2>1. /\ pc = "stop_reorg" /\ pc' = "look" /\ cur_height' = cur_height - 1
        /\ UNCHANGED <<prev_hashes, replaced, chain>>
    BY <1>4 DEF RestartAfterReorg, HeightAfterReorg, consumerFrame
  <2>2. cur_height - 1 \in DOMAIN prev_hashes
    BY <2>1 DEF Inv, ReorgAboveRecorded
  <2>3. NoStoredHash' => LowestIn(prev_hashes, cur_height - 1)
    BY <2>1, <2>2 DEF NoStoredHash, LowestIn
  <2> QED BY <2>1, <2>3 DEF ReorgInv
<1>5. CASE NodeChange
  BY <1>2, <1>5 DEF NodeChange
<1>6. CASE \/ NextCall \/ NothingOutOfOrder \/ Drop \/ Drain
           \/ RestartAfterFastSync \/ FinishDrop \/ UNCHANGED vars
           \/ \E w \in Worker : WorkerNext(w)
  <2>1. /\ UNCHANGED <<chain, cur_height, prev_hashes, replaced>>
        /\ pc' = "stop_reorg" => pc = "stop_reorg"
        /\ pc' = "panicked" => pc = "panicked"
    BY <1>6 DEF NextCall, NothingOutOfOrder, Drop, Drain, RestartAfterFastSync,
       FinishDrop, WorkerNext, WorkerGetHeight, WorkerCheckFinish, WorkerGetId,
       WorkerGetBlock, WorkerRetry, WorkerSend, workerFrame, consumerFrame, vars
  <2> QED BY <1>2, <2>1 DEF ReorgInv
<1> QED
  BY <1>1, <1>3, <1>4, <1>5, <1>6 DEF Next, ConsumerStepNext, ConsumerGoesOn, Terminated

(* All recorded blocks were recorded on top of the lowest one, unless that *)
(* is genesis, and lie on chains no longer than the node's: so the node    *)
(* cannot leave the lowest of them without leaving them all.               *)
OnTopOf(h, l) ==
    \A c \in Chains : h < Len(c) /\ c[h + 1] = prev_hashes[h] => c[l + 1] = prev_hashes[l]

DescentInv ==
    /\ \A h \in DOMAIN prev_hashes : h < Len(chain)
    /\ \A l : LowestIn(prev_hashes, l) => \A h \in DOMAIN prev_hashes : OnTopOf(h, l)

(* If the lowest recorded block is replaced, all are.                      *)
AllReplaced ==
    \A l : LowestIn(prev_hashes, l) /\ l \in replaced => DOMAIN prev_hashes \subseteq replaced

(* A longer chain without the lowest recorded block has none of them.      *)
LEMMA LosesAll ==
    ASSUME Inv, DescentInv, NEW c \in Chains, Len(c) >= Len(chain), NEW l,
           LowestIn(prev_hashes, l), l \in Differs(c, prev_hashes)
    PROVE  DOMAIN prev_hashes \subseteq Differs(c, prev_hashes)
<1> SUFFICES ASSUME NEW h \in DOMAIN prev_hashes PROVE h \in Differs(c, prev_hashes)
  OBVIOUS
<1>1. chain \in Chains /\ h \in Nat
  BY DEF Inv, TypeOK
<1>2. Len(c) \in Nat /\ Len(chain) \in Nat
  BY <1>1, ChainsAreChains
<1>3. h < Len(c)
  BY <1>1, <1>2 DEF DescentInv
<1>4. c[h + 1] # prev_hashes[h]
  BY <1>3 DEF DescentInv, OnTopOf, Differs
<1> QED BY <1>3, <1>4 DEF Differs

(* An accepted block is linked, by the chain handed over, to all recorded  *)
(* hashes below it; those above it were recorded on top of the same ones.  *)
LEMMA AcceptDescends ==
    ASSUME WindowSize > 1, Inv, Inv', DescentInv, UNCHANGED chain,
           NEW item, Accept(item), Seen(cur_height, item.id)
    PROVE  DescentInv'
<1>1. /\ cur_height \in Nat /\ cur_height' = cur_height + 1
      /\ prev_hashes' = Remember(item) /\ delivered' \in Seq(Block)
      /\ WindowSize \in Nat
      /\ cur_height + 1 <= Len(delivered') /\ Len(delivered') \in Nat
  BY PrefetcherAssumption DEF Accept, Inv, TypeOK, RecordedDelivered
<1>2. /\ DOMAIN prev_hashes' \subseteq DOMAIN prev_hashes \cup {cur_height}
      /\ \A h \in DOMAIN prev_hashes' : h # cur_height => prev_hashes'[h] = prev_hashes[h]
  BY <1>1 DEF Remember
<1>3. \A h \in DOMAIN prev_hashes' : h < Len(chain')
  <2>1. chain \in Chains /\ \A c \in Chains : Len(c) \in Nat
    BY ChainsAreChains DEF Inv, TypeOK
  <2>2. PICK c \in Chains : (c = chain \/ Len(c) < Len(chain)) /\ cur_height < Len(c)
    BY DEF Seen, SeenBy
  <2>3. cur_height < Len(chain)
    BY <1>1, <2>1, <2>2
  <2> QED BY <1>2, <2>3 DEF DescentInv
<1>4. ASSUME NEW l, LowestIn(prev_hashes', l), NEW h \in DOMAIN prev_hashes',
             NEW c \in Chains, h < Len(c), c[h + 1] = prev_hashes'[h]
      PROVE  c[l + 1] = prev_hashes'[l]
  <2>1. /\ l \in Nat /\ l < cur_height /\ l \in DOMAIN prev_hashes
        /\ prev_hashes'[l] = prev_hashes[l]
    BY <1>4, AcceptedAboveLowest
  <2>2. h \in Nat /\ l <= h
    <3>1. PICK lo \in Nat, hi \in Int : DOMAIN prev_hashes' = lo..hi
      BY DEF Inv, RecordedRange
    <3>2. lo \notin lo..hi \/ lo <= hi
      BY <3>1
    <3> QED BY <1>4, <2>1, <3>1, <3>2 DEF LowestIn
  <2>n. /\ h \in Nat /\ l \in Nat /\ cur_height \in Nat /\ l < cur_height /\ l <= h
        /\ h < Len(c) /\ WindowSize \in Nat
    BY <1>1, <1>4, <2>1, <2>2
  <2>3. CASE h <= cur_height
    <3>1. delivered'[h + 1] = prev_hashes'[h] /\ delivered'[l + 1] = prev_hashes'[l]
      <4>1. h < Len(delivered') /\ l < Len(delivered') /\ l \in DOMAIN prev_hashes'
        BY <1>1, <1>4, <2>1, <2>2, <2>3 DEF LowestIn
      <4> QED BY <4>1 DEF Inv, RecordedDelivered
    <3>2. IsChain(delivered') /\ IsChain(c) /\ Len(c) \in Nat
      BY ChainsAreChains DEF Inv, DeliveredIsChain, IsChain
    <3>3. h + 1 \in 1..Len(delivered') /\ h + 1 \in 1..Len(c) /\ l + 1 \in 1..h + 1
      <4>1. cur_height + 1 <= Len(delivered') /\ Len(delivered') \in Nat /\ Len(c) \in Nat
        BY <1>1, <3>2
      <4> QED BY <2>n, <2>3, <4>1
    <3> QED BY <1>4, <3>1, <3>2, <3>3, SameBelow
  <2>4. CASE h > cur_height
    <3>1. h \in DOMAIN prev_hashes /\ prev_hashes'[h] = prev_hashes[h]
      BY <1>1, <1>2, <2>2, <2>4
    <3>2. LowestIn(prev_hashes, l)
      <4>1. PICK lo \in Nat, hi \in Int :
              DOMAIN prev_hashes = lo..hi /\ hi - lo < WindowSize
        BY DEF Inv, RecordedRange
      <4>2. ASSUME l - 1 \in DOMAIN prev_hashes PROVE FALSE
        <5>1. l - 1 \in lo..hi /\ h \in lo..hi
          BY <3>1, <4>1, <4>2
        <5>2. l - 1 # cur_height - WindowSize
          <6>1. l - 1 >= lo /\ h <= hi /\ hi - lo < WindowSize
            BY <2>n, <4>1, <5>1
          <6> QED BY <2>n, <2>4, <6>1
        <5>3. l - 1 \in DOMAIN prev_hashes'
          BY <1>1, <4>2, <5>2 DEF Remember
        <5> QED BY <1>4, <5>3 DEF LowestIn
      <4> QED BY <1>4, <2>1, <4>2 DEF LowestIn
    <3>3. c[l + 1] = prev_hashes[l]
      BY <1>4, <3>1, <3>2 DEF DescentInv, OnTopOf
    <3> QED BY <2>1, <3>3
  <2> QED BY <1>1, <2>2, <2>3, <2>4
<1> QED BY <1>3, <1>4 DEF DescentInv, OnTopOf

LEMMA StepDescent ==
    ASSUME WindowSize > 1, Inv, Inv', SeenInv, DescentInv, AllReplaced, ReorgInv', [Next]_vars
    PROVE  DescentInv' /\ AllReplaced'
<1>0. chain \in Chains /\ chain' \in Chains /\ DOMAIN prev_hashes \subseteq Nat
  BY DEF Inv, TypeOK
<1>1. ASSUME NEW item, UNCHANGED chain, Accept(item), Seen(cur_height, item.id)
      PROVE  DescentInv' /\ AllReplaced'
  <2>1. DescentInv'
    BY <1>1, AcceptDescends
  <2>2. replaced' = Differs(chain', prev_hashes')
    BY <1>1 DEF Accept
  <2>3. Len(chain') \in Nat
    BY <1>0, ChainsAreChains
  <2>4. ASSUME NEW l, LowestIn(prev_hashes', l), l \in replaced'
        PROVE  DOMAIN prev_hashes' \subseteq replaced'
    <3> SUFFICES ASSUME NEW h \in DOMAIN prev_hashes' PROVE h \in Differs(chain', prev_hashes')
      BY <2>2
    <3>1. h < Len(chain')
      BY <2>1 DEF DescentInv
    <3>2. chain'[l + 1] # prev_hashes'[l]
      BY <2>2, <2>4 DEF Differs
    <3>3. chain'[h + 1] # prev_hashes'[h]
      BY <1>0, <2>1, <2>4, <3>1, <3>2 DEF DescentInv, OnTopOf
    <3> QED BY <3>1, <3>3 DEF Differs
  <2> QED BY <2>1, <2>4 DEF AllReplaced
<1>2. CASE UNCHANGED <<chain, prev_hashes, replaced>>
  BY <1>2 DEF DescentInv, AllReplaced, OnTopOf
<1>3. CASE NodeChange
  <2>1. /\ prev_hashes' = prev_hashes /\ Len(chain') > Len(chain)
        /\ replaced' = replaced \cup Differs(chain', prev_hashes)
    BY <1>3 DEF NodeChange
  <2>2. Len(chain) \in Nat /\ Len(chain') \in Nat
    BY <1>0, ChainsAreChains
  <2>3. \A h \in DOMAIN prev_hashes : h < Len(chain')
    BY <1>0, <2>1, <2>2 DEF DescentInv
  <2>4. DescentInv'
    BY <2>1, <2>3 DEF DescentInv, OnTopOf
  <2>5. ASSUME NEW l, LowestIn(prev_hashes, l), l \in replaced'
        PROVE  DOMAIN prev_hashes \subseteq replaced'
    <3>1. CASE l \in replaced
      BY <2>1, <2>5, <3>1 DEF AllReplaced
    <3>2. CASE l \in Differs(chain', prev_hashes)
      BY <1>0, <2>1, <2>2, <2>5, <3>2, LosesAll
    <3> QED BY <2>1, <2>5, <3>1, <3>2
  <2> QED BY <2>1, <2>4, <2>5 DEF AllReplaced
<1> QED BY <1>1, <1>2, <1>3, RecordsStep

(* All of this holds for ever.                                             *)
LEMMA ReorgsSeen ==
    ASSUME WindowSize > 1
    PROVE  Spec => [](FreshInv /\ ReorgInv /\ DescentInv /\ AllReplaced)
<1>1. Init => FreshInv /\ ReorgInv /\ DescentInv /\ AllReplaced
  <2> SUFFICES ASSUME Init PROVE FreshInv /\ ReorgInv /\ DescentInv /\ AllReplaced
    OBVIOUS
  <2>1. InFlight = {}
    <3>1. \A w \in Worker : worker[w].id = NoBlock
      BY DEF Init, Starting
    <3> QED BY <3>1 DEF Init, InFlight, WorkerItems, ChannelItems
  <2>2. /\ pc = "idle" /\ cur_height \in Nat /\ cur_height = Len(delivered)
        /\ chain \in Chains /\ Len(delivered) <= Len(chain)
        /\ DOMAIN prev_hashes = {cur_height - 1} \cap Nat
        /\ replaced = Differs(chain, prev_hashes)
    BY InitInv DEF Init, Inv, TypeOK
  <2>3. Len(chain) \in Nat
    BY <2>2, ChainsAreChains
  <2>4. ~NoStoredHash
    BY <2>2 DEF NoStoredHash
  <2>5. \A h \in DOMAIN prev_hashes : h = cur_height - 1 /\ h < Len(chain)
    BY <2>2, <2>3
  <2>6. \A l, h \in DOMAIN prev_hashes : l = h
    BY <2>5
  <2>7. DescentInv
    BY <2>5, <2>6 DEF DescentInv, OnTopOf, LowestIn
  <2>8. AllReplaced
    BY <2>6 DEF AllReplaced, LowestIn
  <2> QED BY <2>1, <2>2, <2>4, <2>7, <2>8 DEF FreshInv, ReorgInv
<1>2. ASSUME Inv, Inv', SeenInv, HeldInv, HeldInv', FreshInv, ReorgInv, DescentInv, AllReplaced,
             [Next]_vars, (Inv /\ HeldInv /\ Running => FlightAbove)'
      PROVE  FreshInv' /\ ReorgInv' /\ DescentInv' /\ AllReplaced'
  <2>1. pc' = "idle" => FlightAbove'
    BY <1>2 DEF Running
  <2>2. FreshInv' /\ ReorgInv'
    BY <1>2, <2>1, StepFresh, StepReorg
  <2> QED BY <1>2, <2>2, StepDescent
<1> QED BY <1>1, <1>2, HeldFlight, SpecInv, RunningInv, ItemsSeen, PTL DEF Spec

(* The panic about too deep a reorg is raised only when the node has       *)
(* replaced every recorded block since next() last returned one, and the   *)
(* window is full or reaches down to last_block (track_reorgs).  A window  *)
(* of one hash would not do: a reply from before the last block was        *)
(* recorded would look like a reorg too deep.                              *)
THEOREM PanicIsJustified ==
    ASSUME WindowSize > 1
    PROVE  Spec => []PanicOnlyOnDeepReorg
<1>1. ASSUME Inv, ReorgInv, AllReplaced PROVE PanicOnlyOnDeepReorg
  <2> SUFFICES ASSUME pc = "panicked"
               PROVE  /\ cur_height \in DOMAIN prev_hashes
                      /\ \A h \in DOMAIN prev_hashes : cur_height <= h
                      /\ \/ Cardinality(DOMAIN prev_hashes) = WindowSize
                         \/ floor \in DOMAIN prev_hashes
                      /\ DOMAIN prev_hashes \subseteq replaced
    BY DEF PanicOnlyOnDeepReorg
  <2>1. NoStoredHash /\ cur_height \in replaced
    BY <1>1 DEF ReorgInv
  <2>2. cur_height > 0 /\ cur_height - 1 \notin DOMAIN prev_hashes /\ cur_height \in Nat
    BY <1>1, <2>1 DEF NoStoredHash, Inv, TypeOK
  <2>3. PICK lo \in Nat, hi \in Int :
          /\ DOMAIN prev_hashes = lo..hi
          /\ hi < lo => cur_height = 0 /\ floor = -1
          /\ lo <= hi => cur_height \in lo..hi + 1 /\ floor <= lo
          /\ lo <= hi => hi - lo = WindowSize - 1 \/ lo \in {0, floor}
    BY <1>1 DEF Inv, RecordedRange
  <2>4. lo <= hi /\ cur_height = lo
    BY <2>2, <2>3
  <2>5. LowestIn(prev_hashes, cur_height)
    BY <2>2, <2>3, <2>4 DEF LowestIn
  <2>6. DOMAIN prev_hashes \subseteq replaced
    BY <1>1, <2>1, <2>5 DEF AllReplaced
  <2>7. Cardinality(DOMAIN prev_hashes) = WindowSize \/ floor \in DOMAIN prev_hashes
    <3>1. Cardinality(lo..hi) = hi - lo + 1
      BY <2>4, FS_Interval
    <3>2. hi - lo = WindowSize - 1 \/ lo = floor
      BY <2>2, <2>3, <2>4
    <3> QED BY <2>3, <2>4, <3>1, <3>2, PrefetcherAssumption
  <2> QED BY <2>3, <2>4, <2>6, <2>7
<1> QED BY <1>1, SpecInv, ReorgsSeen, PTL
=============================================================================
