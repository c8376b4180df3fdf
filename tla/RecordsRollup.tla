---------------------------- MODULE RecordsRollup ----------------------------
(***************************************************************************)
(* The rollup of canonical records into the Iceberg table (rollup.py,      *)
(* rollup_schema.py, RecordsRollupFunction).  Writing a record object      *)
(* queues its key; the rollup Lambda drains keys, reads their objects and  *)
(* merges the rows; the reconcile Lambda queues again the keys an S3       *)
(* inventory shows to be missing from the table or rewritten since.        *)
(*                                                                         *)
(* Each of the two Lambdas runs one invocation at a time (reserved         *)
(* concurrency 1, no retries).  A rollup that dies does not stop the MERGE *)
(* it had started.  Time counts the writes of objects: a write is after    *)
(* every MERGE that was started before it.                                 *)
(***************************************************************************)
EXTENDS Integers, Sequences, FiniteSets, FiniteSetsExt

CONSTANTS
    Keys,              \* keys of the record objects
    natural_key,       \* natural key of the row each object flattens to
    Preexisting,       \* keys of the objects written before the rollup was deployed
    EventTimes,        \* of each key: timestamp of the last event of each version
    Unreadable,        \* <<key, version>>: those whose body is no record
    max_keys,          \* distinct keys a run drains
    max_depth,         \* length of a chain of self-invocations
    receive_batch,     \* _RECEIVE_BATCH
    max_receive_count, \* receives before the queue redrives a message
    page_size,         \* keys in one page of Athena results
    MaxFaults          \* bound: failures and losses of one behaviour

ASSUME RollupAssumption ==
    /\ {max_keys, max_depth, receive_batch, max_receive_count, page_size} \subseteq Nat \ {0}
    /\ MaxFaults \in Nat /\ IsFiniteSet(Keys)
    /\ DOMAIN natural_key = Keys
    /\ EventTimes \in [Keys -> Seq(Nat \ {0})] /\ Unreadable \subseteq Keys \X Nat
    /\ Preexisting \subseteq {k \in Keys : EventTimes[k] # <<>>}

NaturalKeys == {natural_key[k] : k \in Keys}

VARIABLES
    clock,      \* writes of objects so far
    object,     \* records/: version written, when, and whether it is there
    inventory,  \* newest S3 inventory: when each object was modified, 0 if absent
    queue,      \* visible messages of the rollup queue
    abandoned,  \* messages received and not deleted, until they are visible again
    dlq,        \* keys of the messages redriven to the dead-letter queue
    lost,       \* versions of keys whose notification was lost
    table,      \* the Iceberg table: a row or NoRow for each natural key
    orphans,    \* MERGEs whose invocation has died
    faults,
    \* The rollup invocation:
    pc, depth,
    drained,    \* messages whose receipt handles it has
    fetching,   \* keys drained whose objects are not read yet
    rows,       \* rows fetched, then those staged
    started,    \* when its MERGE was started
    chain,      \* depths of the self-invocations to come
    \* The reconcile invocation:
    pages,      \* keys of the query result not enqueued yet, {} when none runs
    page_depth,
    paused      \* whether a self-invocation is to go on with them

storage == <<clock, object, inventory>>
messages == <<queue, abandoned, dlq, lost>>
invocation == <<pc, depth, drained, fetching, rows, started>>
reconcile == <<pages, page_depth, paused>>
vars == <<storage, messages, table, orphans, faults, invocation, chain, reconcile>>

NoRow == [source_key |-> "none", version |-> 0, time |-> 0, rolled_up_at |-> 0]
Fault == faults < MaxFaults /\ faults' = faults + 1

\* A new message with key k, under an id no other message of k has.
Message(k) ==
    LET used == {m.id : m \in {n \in queue \cup abandoned \cup drained : n.key = k}}
    IN  [key |-> k, id |-> CHOOSE i \in 1..Cardinality(used) + 1 : i \notin used, receives |-> 0]
Sent(keys) == queue \cup {Message(k) : k \in keys}

\* Objects that are there already have no notification.
Init ==
    /\ clock = 1
    /\ object = [k \in Keys |->
                    IF k \in Preexisting THEN [version |-> 1, modified |-> 1, there |-> TRUE]
                    ELSE [version |-> 0, modified |-> 0, there |-> FALSE]]
    /\ lost = {<<k, 1>> : k \in Preexisting}
    /\ inventory = [k \in Keys |-> 0]
    /\ queue = {} /\ abandoned = {} /\ dlq = {} /\ orphans = {}
    /\ table = [n \in NaturalKeys |-> NoRow]
    /\ pc = "idle" /\ depth = 0 /\ drained = {} /\ fetching = {} /\ rows = {} /\ started = 0
    /\ chain = {}
    /\ pages = {} /\ page_depth = 0 /\ paused = FALSE
    /\ faults = 0

-----------------------------------------------------------------------------
(* S3, EventBridge and SQS *)

\* The monitor writes a record, and its notification is queued or lost.
WriteObject(k) ==
    /\ object[k].version < Len(EventTimes[k])
    /\ clock' = clock + 1
    /\ object' = [object EXCEPT ![k] =
                     [version |-> @.version + 1, modified |-> clock + 1, there |-> TRUE]]
    /\ \/ queue' = Sent({k}) /\ UNCHANGED <<lost, faults>>
       \/ Fault /\ lost' = lost \cup {<<k, object'[k].version>>} /\ UNCHANGED queue
    /\ UNCHANGED <<inventory, abandoned, dlq, table, orphans, invocation, chain, reconcile>>

\* Bound: an object is deleted between its notification and its read only.
DeleteObject(k) ==
    /\ Fault
    /\ object[k].there /\ k \in fetching
    /\ object' = [object EXCEPT ![k].there = FALSE]
    /\ UNCHANGED <<clock, inventory, messages, table, orphans, invocation, chain, reconcile>>

TakeInventory ==
    /\ inventory' = [k \in Keys |-> IF object[k].there THEN object[k].modified ELSE 0]
    /\ UNCHANGED <<clock, object, messages, table, orphans, faults, invocation, chain, reconcile>>

\* The visibility timeout, which is longer than an invocation may run.
Reappear(m) ==
    /\ m \in abandoned
    /\ abandoned' = abandoned \ {m}
    /\ queue' = queue \cup {m}
    /\ UNCHANGED <<storage, dlq, lost, table, orphans, faults, invocation, chain, reconcile>>

Redrive(m) ==
    /\ m \in queue /\ m.receives = max_receive_count
    /\ queue' = queue \ {m}
    /\ dlq' = dlq \cup {m.key}
    /\ UNCHANGED <<storage, abandoned, lost, table, orphans, faults, invocation, chain, reconcile>>

-----------------------------------------------------------------------------
(* run_rollup *)

Start(d) ==
    /\ pc = "idle"
    /\ pc' = "drain" /\ depth' = d
    /\ UNCHANGED <<storage, messages, table, orphans, faults, drained, fetching, rows,
                   started, reconcile>>

StartScheduled == Start(0) /\ UNCHANGED chain
StartChained == \E d \in chain : Start(d) /\ chain' = chain \ {d}

Idle ==
    /\ pc' = "idle" /\ depth' = 0
    /\ drained' = {} /\ fetching' = {} /\ rows' = {} /\ started' = 0

Capped == Cardinality(fetching) >= max_keys
Receives(ms) == {[m EXCEPT !.receives = @ + 1] : m \in ms}
Receivable == {m \in queue : m.receives < max_receive_count}

\* Mutant: a full batch is asked for, however few keys are still needed.
AskedForBatch == receive_batch

\* MaxNumberOfMessages of the next receive.
Asked == Min({receive_batch, max_keys - Cardinality(fetching)})

\* The messages of a batch whose receipt handles are captured: the loop over them
\* breaks off at the one that brings the keys to max_keys.
KeysWith(messages_) == fetching \cup {m.key : m \in messages_}
Captured(batch) ==
    {captured \in SUBSET batch :
        /\ \E last \in captured : Cardinality(KeysWith(captured \ {last})) < max_keys
        /\ captured # batch => Cardinality(KeysWith(captured)) >= max_keys}

\* One receive_message and the loop over what it returns.
Drain ==
    /\ pc = "drain" /\ ~Capped
    /\ \E batch \in SUBSET Receivable : \E captured \in Captured(batch) :
          /\ Cardinality(batch) <= Asked
          /\ fetching' = KeysWith(captured)
          /\ queue' = queue \ batch
          /\ drained' = drained \cup Receives(captured)
          /\ abandoned' = abandoned \cup Receives(batch \ captured)
    /\ UNCHANGED <<storage, dlq, lost, table, orphans, faults, pc, depth, rows, started,
                   chain, reconcile>>

\* Mutant: an empty receive does not end the drain.
EndDrainCapped ==
    /\ pc = "drain" /\ Capped
    /\ pc' = "fetch"
    /\ UNCHANGED <<storage, messages, table, orphans, faults, depth, drained, fetching, rows,
                   started, chain, reconcile>>

EndDrain ==
    /\ pc = "drain"
    /\ Capped \/ Receivable = {}
    /\ pc' = "fetch"
    /\ UNCHANGED <<storage, messages, table, orphans, faults, depth, drained, fetching, rows,
                   started, chain, reconcile>>

Readable(k) == object[k].there /\ <<k, object[k].version>> \notin Unreadable

\* fetch_one and record_to_row; an object that is gone, or is no record, is
\* counted and left out.
Fetch(k) ==
    /\ pc = "fetch" /\ k \in fetching
    /\ fetching' = fetching \ {k}
    /\ rows' = IF Readable(k)
               THEN rows \cup {[source_key |-> k, version |-> object[k].version,
                                time |-> EventTimes[k][object[k].version]]}
               ELSE rows
    /\ UNCHANGED <<storage, messages, table, orphans, faults, pc, depth, drained, started,
                   chain, reconcile>>

RowsOf(n, rs) == {r \in rs : natural_key[r.source_key] = n}

\* Mutant: any one row of a natural key is kept.
AnyOfEach(rs) ==
    {staged \in SUBSET rs : \A n \in NaturalKeys :
        RowsOf(n, rs) # {} => Cardinality(RowsOf(n, staged)) = 1}

\* dedupe_rows_by_natural_key: one row of each natural key, of the latest time.
Deduped(rs) ==
    {staged \in SUBSET rs : \A n \in NaturalKeys :
        RowsOf(n, rs) # {} => \E r \in RowsOf(n, rs) :
            /\ RowsOf(n, staged) = {r}
            /\ \A other \in RowsOf(n, rs) : other.time <= r.time}

\* The staging object is written under a run id of its own, and the MERGE that
\* reads it is started.
StartMerge ==
    /\ pc = "fetch" /\ fetching = {} /\ rows # {}
    /\ rows' \in Deduped(rows)
    /\ started' = clock
    /\ pc' = "merge"
    /\ UNCHANGED <<storage, messages, table, orphans, faults, depth, drained, fetching,
                   chain, reconcile>>

NothingFetched ==
    /\ pc = "fetch" /\ fetching = {} /\ rows = {}
    /\ pc' = "delete"
    /\ UNCHANGED <<storage, messages, table, orphans, faults, depth, drained, fetching, rows,
                   started, chain, reconcile>>

RolledUp(r, at) ==
    [source_key |-> r.source_key, version |-> r.version, time |-> r.time, rolled_up_at |-> at]

\* Mutant: a matched row is updated whatever its time.
MergedAlways(staged, at) ==
    [n \in NaturalKeys |->
        IF RowsOf(n, staged) = {} THEN table[n]
        ELSE RolledUp(CHOOSE r \in RowsOf(n, staged) : TRUE, at)]

\* merge_sql: a row is inserted, or updated by one that is not older.
Merged(staged, at) ==
    LET new(n) == {r \in RowsOf(n, staged) : table[n] = NoRow \/ r.time >= table[n].time}
    IN  [n \in NaturalKeys |->
            IF new(n) = {} THEN table[n] ELSE RolledUp(CHOOSE r \in new(n) : TRUE, at)]

\* run_query sees SUCCEEDED.
CommitMerge ==
    /\ pc = "merge"
    /\ table' = Merged(rows, started)
    /\ pc' = "delete"
    /\ UNCHANGED <<storage, messages, orphans, faults, depth, drained, fetching, rows,
                   started, chain, reconcile>>

\* AthenaQueryError: the messages drained become visible again later.
FailMerge ==
    /\ Fault
    /\ pc = "merge"
    /\ abandoned' = abandoned \cup drained
    /\ Idle
    /\ UNCHANGED <<storage, queue, dlq, lost, table, orphans, chain, reconcile>>

\* A timeout or an exception: a MERGE that has been started goes on.
Crash ==
    /\ Fault
    /\ pc # "idle"
    /\ abandoned' = abandoned \cup drained
    /\ orphans' = IF pc = "merge" THEN orphans \cup {[rows |-> rows, started |-> started]}
                  ELSE orphans
    /\ Idle
    /\ UNCHANGED <<storage, queue, dlq, lost, table, chain, reconcile>>

EndOrphan(q) ==
    /\ q \in orphans
    /\ orphans' = orphans \ {q}
    /\ table' = Merged(q.rows, q.started) \/ UNCHANGED table
    /\ UNCHANGED <<storage, messages, faults, invocation, chain, reconcile>>

\* delete_message_batch may fail for some, and the result is not looked at.
DeleteMessages ==
    /\ pc = "delete"
    /\ \/ UNCHANGED <<abandoned, faults>>
       \/ Fault /\ \E m \in drained : abandoned' = abandoned \cup {m}
    /\ drained' = {} /\ rows' = {} /\ started' = 0
    /\ pc' = "check"
    /\ UNCHANGED <<storage, queue, dlq, lost, table, orphans, depth, fetching, chain, reconcile>>

\* Mutant: the chain goes one deeper than it may.
MayChainDeeper(d) == d <= max_depth

\* _chain's limit, on the depth of the invocation to come.
MayChain(d) == d < max_depth

\* queue_has_messages is approximate: it may chain on an empty queue and may not
\* on one that holds messages.
Check ==
    /\ pc = "check"
    /\ \/ MayChain(depth + 1) /\ chain' = chain \cup {depth + 1}
       \/ UNCHANGED chain
    /\ Idle
    /\ UNCHANGED <<storage, messages, table, orphans, faults, reconcile>>

-----------------------------------------------------------------------------
(* run_reconcile *)

\* Mutant: objects that have no row are left out.
RewrittenOnly ==
    {k \in Keys : inventory[k] > 0 /\
        \E n \in NaturalKeys : table[n].source_key = k /\ inventory[k] > table[n].rolled_up_at}

\* reconcile_sql: objects of the inventory with no row, or rewritten after it.
Drift ==
    {k \in Keys : inventory[k] > 0 /\
        \A n \in NaturalKeys :
            table[n].source_key = k => inventory[k] > table[n].rolled_up_at}

\* Bound: a pass starts once the keys of the pass before have been consumed.
StartReconcile ==
    /\ pages = {} /\ queue = {} /\ abandoned = {} /\ drained = {}
    /\ Drift # {}
    /\ pages' = Drift
    /\ page_depth' = 0 /\ paused' = FALSE
    /\ UNCHANGED <<storage, messages, table, orphans, faults, invocation, chain>>

EndReconcile == pages' = {} /\ page_depth' = 0 /\ paused' = FALSE

\* A page is enqueued; when time is short the rest is left to a self-invocation,
\* or given up at max_depth.
EnqueuePage ==
    /\ pages # {} /\ ~paused
    /\ \E page \in SUBSET pages :
          /\ page # {} /\ Cardinality(page) <= page_size
          /\ page # pages => Cardinality(page) = page_size
          /\ queue' = Sent(page)
          /\ \/ page = pages /\ EndReconcile
             \/ page # pages /\ pages' = pages \ page /\ UNCHANGED <<page_depth, paused>>
             \/ /\ page # pages /\ MayChain(page_depth + 1)
                /\ pages' = pages \ page /\ page_depth' = page_depth + 1 /\ paused' = TRUE
             \/ page # pages /\ ~MayChain(page_depth + 1) /\ EndReconcile
    /\ UNCHANGED <<storage, abandoned, dlq, lost, table, orphans, faults, invocation, chain>>

ResumeReconcile ==
    /\ paused
    /\ paused' = FALSE
    /\ UNCHANGED <<storage, messages, table, orphans, faults, invocation, chain, pages, page_depth>>

FailReconcile ==
    /\ Fault
    /\ pages # {} /\ ~paused
    /\ EndReconcile
    /\ UNCHANGED <<storage, messages, table, orphans, invocation, chain>>

-----------------------------------------------------------------------------
Writes == \E k \in Keys : WriteObject(k)
SQS == \E m \in queue \cup abandoned : Reappear(m) \/ Redrive(m)
Rollup ==
    \/ StartScheduled \/ StartChained \/ Drain \/ EndDrain \/ (\E k \in Keys : Fetch(k))
    \/ StartMerge \/ NothingFetched \/ CommitMerge \/ DeleteMessages \/ Check
Reconcile == StartReconcile \/ EnqueuePage \/ ResumeReconcile
Faults ==
    \/ \E k \in Keys : DeleteObject(k)
    \/ FailMerge \/ Crash \/ FailReconcile
    \/ \E q \in orphans : EndOrphan(q)

Next == Writes \/ SQS \/ Rollup \/ Reconcile \/ TakeInventory \/ Faults

\* The schedules fire, what AWS runs goes on, and inventories are delivered.
Fairness ==
    /\ WF_vars(SQS) /\ WF_vars(Rollup) /\ WF_vars(Reconcile) /\ WF_vars(TakeInventory)

Spec == Init /\ [][Next]_vars /\ Fairness

-----------------------------------------------------------------------------
MessageType(m) == m.key \in Keys /\ m.id \in Nat \ {0} /\ m.receives \in 0..max_receive_count
\* Messages are in one place, rows are of versions written, chains are bounded.
TypeOK ==
    /\ \A k \in Keys : object[k].version \in 0..Len(EventTimes[k]) /\ object[k].modified <= clock
    /\ \A m \in queue \cup abandoned \cup drained : MessageType(m)
    /\ \A m, n \in queue \cup abandoned \cup drained : m.key = n.key /\ m.id = n.id => m = n
    /\ \A n \in NaturalKeys : table[n] # NoRow =>
          /\ natural_key[table[n].source_key] = n
          /\ table[n].version \in 1..object[table[n].source_key].version
    /\ dlq \subseteq Keys /\ lost \subseteq Keys \X Nat /\ pages \subseteq Keys
    /\ {depth, page_depth} \cup chain \subseteq 0..max_depth - 1

LastEvent(k) == EventTimes[k][object[k].version]
Row(k) == table[natural_key[k]]
Unnotified(k) == <<k, object[k].version>> \in lost
Behind(k) == Readable(k) /\ Row(k).time < LastEvent(k)

\* A row that is behind its object has a message on its way, whatever was
\* drained, rewritten meanwhile, merged late or failed; a message that is not
\* was lost before the queue or dead-lettered.  An object that is no record is
\* behind no row until it is rewritten.
BehindIsQueued ==
    \A k \in Keys : Behind(k) =>
        Unnotified(k) \/ k \in dlq \/ \E m \in queue \cup abandoned \cup drained : m.key = k

\* A row is never replaced by one of an earlier event, be it by the MERGE of an
\* invocation that died long ago.
RowNeverOlder == [][\A n \in NaturalKeys : table'[n].time >= table[n].time]_vars

\* drain_keys: "every returned message [is] on a path to either a captured receipt
\* handle or staying visible": the loop never breaks off before the last message
\* of a batch, so that without a fault none is received and set aside.
NoneAbandoned == faults = 0 => abandoned = {}

\* Every row catches up with its object, unless a notification was lost or
\* dead-lettered.
TableCatchesUp == <>[](\A k \in Keys : Behind(k) => Unnotified(k) \/ k \in dlq)

\* Reconcile is the backfill: every object that is a record, of whatever age and
\* whatever became of its notifications, gets its row.
BackfillCompletes == <>[](\A k \in Keys : Readable(k) => Row(k) # NoRow)

\* "Convergent: each enqueued key gets merged, so the next pass matches strictly
\* fewer": once its MERGE has succeeded, an object's row is of the version read.
EnqueuedKeyIsMerged ==
    pc = "delete" =>
        \A r \in rows : table[natural_key[r.source_key]].version >= r.version
===============================================================================
