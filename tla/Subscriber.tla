------------------------------ MODULE Subscriber -----------------------------
(***************************************************************************)
(* A subscriber that follows the table `event` with a cursor (src/db/pg.rs, *)
(* EventSource for postgres::Client; src/bin/example_subscriber.rs), while *)
(* the indexer commits transactions (finish_reorg, and the pipeline's last *)
(* thread) that draw the ids of their events from a sequence.              *)
(*                                                                         *)
(* An id is drawn when its row is inserted and is visible when the         *)
(* transaction commits; a transaction that is rolled back leaves a gap.    *)
(* The two sessions of the indexer take turns: the pipeline is joined      *)
(* before a reorg and starts again after it.                               *)
(*                                                                         *)
(* Abstracted: where the blocks come from (see IndexerStore), and what the *)
(* transactions write besides the events.                                  *)
(***************************************************************************)
EXTENDS EventLog, FiniteSets, FiniteSetsExt, SequencesExt

CONSTANTS
    Limit,      \* events a poll returns at most
    MaxId,      \* bound on the ids drawn, for model checking
    MaxFaults   \* bound on crashes, restarts and wipes, for model checking

ASSUME SubscriberAssumption ==
    /\ Limit \in Nat \ {0}
    /\ MaxId \in Nat
    /\ MaxFaults \in Nat

VARIABLES
    index,      \* the chain of blocks that are committed and not extinct
    event,      \* committed rows of table event, by id
    last_id,    \* the last id drawn from the sequence of column id
    session,    \* the open transaction of each session of the indexer
    \* the subscriber
    cursor,
    followed,   \* what it has made of the events so far
    stale,      \* did a wipe take back the events it has seen? (not in the code)
    faults

subscriber == <<cursor, followed, stale>>
evars == <<index, event, last_id, session, subscriber, faults>>

(* The numbers in S, in order: the i-th is not above i of them.            *)
InOrder(S) ==
    [i \in 1..Cardinality(S) |->
        CHOOSE n \in S : Cardinality({m \in S : m <= n}) = i]

(* The ids from m to n that are in the table, in order, and their events.  *)
Ids(m, n) == InOrder((m..n) \cap DOMAIN event)

Events(ids) == [i \in DOMAIN ids |-> event[ids[i]]]

(* A table by id, with more rows in it.                                    *)
WithRows(table, rows) ==
    [n \in DOMAIN table \cup DOMAIN rows |->
        IF n \in DOMAIN rows THEN rows[n] ELSE table[n]]

Index == INSTANCE ChainIndex WITH log <- Events(Ids(1, last_id))

(* The connections of the pipeline's last thread and of the main thread.   *)
Session == {"writer", "main"}

Closed == [open |-> FALSE, target |-> <<>>, rows |-> <<>>, rest |-> <<>>]

NoCursor == -1

EInit ==
    /\ index = <<>>
    /\ event = <<>>
    /\ last_id = 0
    /\ session = [s \in Session |-> Closed]
    /\ cursor = NoCursor
    /\ followed = <<>>
    /\ stale = FALSE
    /\ faults = 0
-----------------------------------------------------------------------------
(* Mutant: a reorg does not wait for the writer.                           *)
MainIsClosed == ~session["main"].open

(* At most one transaction is open: stop_workers and start_workers.        *)
NobodyWrites == \A s \in Session : ~session[s].open

(* Session s moves the index to chain d, which shares k blocks with it.    *)
Begin(s, d, k) ==
    /\ ForkPoint(index, d, k)
    /\ LET events == MoveEvents(index, d, k) IN
        /\ last_id + Len(events) <= MaxId
        /\ session' = [session EXCEPT ![s] =
                        [open |-> TRUE, target |-> d, rows |-> <<>>, rest |-> events]]
    /\ UNCHANGED <<index, event, last_id, subscriber, faults>>

(* The writer has a batch of blocks on top of the index.                   *)
BeginBatch ==
    /\ NobodyWrites
    /\ \E c \in Chains : \E n \in Len(index) + 1 .. Len(c) :
            Begin("writer", SubSeq(c, 1, n), Len(index))

(* finish_reorg: a branch that is one block longer than the index.         *)
BeginReorg ==
    /\ NobodyWrites
    /\ \E c \in Chains : \E k \in 0 .. Len(index) - 1 :
        /\ Len(c) > Len(index)
        /\ Begin("main", SubSeq(c, 1, Len(index) + 1), k)

(* INSERT INTO event: the row takes the next id.                           *)
InsertEvent ==
    /\ \E s \in Session :
        /\ session[s].rest # <<>>
        /\ session' = [session EXCEPT
                ![s].rows = WithRows(@, [n \in {last_id + 1} |-> Head(session[s].rest)]),
                ![s].rest = Tail(@)]
    /\ last_id' = last_id + 1
    /\ UNCHANGED <<index, event, subscriber, faults>>

Commit ==
    /\ \E s \in Session :
        /\ session[s].open
        /\ session[s].rest = <<>>
        /\ event' = WithRows(event, session[s].rows)
        /\ index' = session[s].target
        /\ session' = [session EXCEPT ![s] = Closed]
    /\ UNCHANGED <<last_id, subscriber, faults>>

(* The transaction fails or its process dies; the ids do not come back.    *)
Rollback ==
    /\ faults < MaxFaults
    /\ faults' = faults + 1
    /\ \E s \in Session :
        /\ session[s].open
        /\ session' = [session EXCEPT ![s] = Closed]
    /\ UNCHANGED <<index, event, last_id, subscriber>>

(* Tables and sequence are dropped and created again; cursors are not.     *)
Wipe ==
    /\ NobodyWrites
    /\ faults < MaxFaults
    /\ faults' = faults + 1
    /\ index' = <<>>
    /\ event' = <<>>
    /\ last_id' = 0
    /\ stale' = (stale \/ cursor # NoCursor)
    /\ UNCHANGED <<session, cursor, followed>>
-----------------------------------------------------------------------------
NewIds == Ids(cursor + 1, last_id)

FirstOf(ids) == SubSeq(ids, 1, Min({Limit, Len(ids)}))

(* Mutants: the newest events first; only full pages are returned.         *)
NewestPage == FirstOf(Reverse(NewIds))
FullPage == IF Len(NewIds) < Limit THEN <<>> ELSE FirstOf(NewIds)

(* WHERE event.id > cursor ORDER BY id ASC LIMIT limit.                    *)
Page == FirstOf(NewIds)

(* Mutant: ids are taken to have no gaps.                                  *)
CursorByCount == cursor + Len(Page)

NextCursor == IF Page = <<>> THEN cursor ELSE Last(Page)

(* next: the subscriber applies the events it gets, one by one.            *)
Poll ==
    /\ cursor' = NextCursor
    /\ followed' = Follow(followed, Events(Page))
    /\ UNCHANGED <<index, event, last_id, session, stale, faults>>

(* It starts again, without a cursor.                                      *)
Restart ==
    /\ faults < MaxFaults \/ stale
    /\ faults' = IF stale THEN faults ELSE faults + 1
    /\ cursor' = NoCursor
    /\ followed' = <<>>
    /\ stale' = FALSE
    /\ UNCHANGED <<index, event, last_id, session>>

ENext ==
    \/ BeginBatch \/ BeginReorg \/ InsertEvent \/ Commit
    \/ Rollback \/ Wipe
    \/ Poll \/ Restart

(* The subscriber polls in a loop.                                         *)
ESpec == EInit /\ [][ENext]_evars /\ WF_evars(Poll)
-----------------------------------------------------------------------------
(* In the order of their ids the events are the log of ChainIndex: no      *)
(* commit puts an event before one that readers may have seen, whatever    *)
(* was rolled back in between.                                             *)
IdsAreTheLog == Index!Spec

(* The subscriber holds what the events up to its cursor make of the empty *)
(* chain: none is applied twice, out of order or before it is committed,   *)
(* and none becomes visible below the cursor later, over page boundaries,  *)
(* gaps and restarts of either side.                                       *)
FollowsLog ==
    ~stale => followed = Replay(Events(Ids(1, cursor)))

(* A subscriber for which a poll returns nothing has exactly the chain     *)
(* that readers of the tables see, also after reorgs both ways.            *)
UpToDateHasIndex == ~stale /\ NewIds = <<>> => followed = index

(* Every committed event reaches the subscriber, unless a wipe comes first. *)
CatchesUp ==
    \A n \in 1..MaxId :
        ~stale /\ n \in DOMAIN event ~> cursor >= n \/ stale \/ n \notin DOMAIN event
=============================================================================
