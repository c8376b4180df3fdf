------------------------------ MODULE JobMonitor ------------------------------
(***************************************************************************)
(* monitor_job (lambda_core.py) and the S3RecordStore calls it makes, one  *)
(* action per S3 or SQS call, run by several Lambda invocations at once.   *)
(*                                                                         *)
(* Nothing in the deployment serialises invocations: EventBridge delivers  *)
(* at least once and in any order, and the function has no reserved        *)
(* concurrency.  An invocation can fail between any two calls, after which *)
(* its event is tried again until MaxTries invocations have been started.  *)
(*                                                                         *)
(* What an invocation computes between two calls is folded into the later  *)
(* of the two.  An event carries the state job.classify returns for it:    *)
(* classify reads the event and the deployed configuration only, and is    *)
(* modelled in JobDetails.                                                 *)
(***************************************************************************)
EXTENDS ProcessingStates, FiniteSets

CONSTANTS
    Entities,        \* input entity ids
    Events,          \* job state change events, see EventType
    Invocations,     \* Lambda invocations that may run at the same time
    States,          \* outcomes.states(): the states a lookup scans, in order
    SubmitterStates, \* names of the job type's submitter states, in order
    max_attempts,    \* retry_policy.max_attempts
    retry_queue_url, \* whether a retry queue is configured
    dlq_url,         \* whether a failure dead-letter queue is configured
    MaxTries,        \* bound: invocations started for one event
    Crashes,         \* whether an invocation may fail half way
    ReadFaults,      \* whether a GET after a LIST may fail and be skipped
    DeleteFaults     \* whether a DELETE may fail and be swallowed

StateSet == {States[i] : i \in DOMAIN States}
StateNames == {s.name : s \in StateSet}
SubmitterNames == {SubmitterStates[i] : i \in DOMAIN SubmitterStates}
Attempts == {ev.attempt : ev \in Events}

\* An event as monitor_job sees it: the decoded JobGroup, the Batch job's id,
\* its classification, and its log stream ("none" when absent).
EventType(ev) ==
    /\ ev.group \in Seq(Entities)
    /\ Len(ev.group) >= 1
    /\ ev.attempt \in Nat
    /\ ev.state \in StateSet

ASSUME EventsAssumption == Events # {} /\ \A ev \in Events : EventType(ev)

ASSUME StatesAssumption ==
    /\ States \in Seq(StateSet) /\ Len(States) >= 1
    /\ \A s \in StateSet : IsProcessingState(s)

\* _validate_submitter_states rejects a submitter state that shares a name
\* with a state the monitor records.
ASSUME SubmitterAssumption ==
    /\ SubmitterStates \in Seq(SubmitterNames)
    /\ SubmitterNames \cap StateNames = {}

ASSUME ParametersAssumption ==
    /\ max_attempts \in Nat /\ MaxTries \in Nat
    /\ {retry_queue_url, dlq_url, Crashes, ReadFaults, DeleteFaults} \subseteq BOOLEAN

VARIABLES
    pointers,    \* state/: the keys of the state pointers in the bucket
    records,     \* records/: canonical record of each (entity, attempt)
    outputs,     \* outputs/: the keys of the output index
    retry_queue, \* messages sent to the retry queue, counted by event
    failure_dlq, \* messages sent to the failure dead-letter queue
    tries,       \* invocations started for each event
    handled,     \* events an invocation has returned from
    discarded,   \* events whose last invocation failed
    \* Local to an invocation:
    pc,          \* the call it makes next
    event,       \* the event it was invoked with
    ctx,         \* index of the current context in the event's group
    scan,        \* index of the state to look up or to delete next
    hits,        \* pointers the lookup of the current context has seen
    record,      \* canonical record as read
    fresh        \* any_fresh

store == <<pointers, records, outputs>>
queues == <<retry_queue, failure_dlq>>
delivery == <<tries, handled, discarded>>
task == <<event, ctx, fresh>>
lookup == <<scan, hits>>
vars == <<store, queues, delivery, pc, task, lookup, record>>

-----------------------------------------------------------------------------
(* Keys and records *)

PointerKey(name, entity, attempt) ==
    [name |-> name, entity |-> entity, attempt |-> attempt]

\* A record with no events stands for a key that holds no object.
NoRecord == [batch_job_id |-> "none", events |-> <<>>, log_stream |-> "none"]

\* Mutant: the record is rewritten with this event alone.
AppendedAlone(rec, ev) ==
    [batch_job_id |-> ev.job, log_stream |-> ev.log_stream,
     events |-> <<[job |-> ev.job, state |-> ev.state.name]>>]

\* Mutant: an event without a log stream overwrites the one recorded.
AppendedErasing(rec, ev) ==
    [batch_job_id |-> IF rec.events = <<>> THEN ev.job ELSE rec.batch_job_id,
     events |-> Append(rec.events, [job |-> ev.job, state |-> ev.state.name]),
     log_stream |-> ev.log_stream]

\* The record append_canonical_event puts after reading rec.
Appended(rec, ev) ==
    [batch_job_id |-> IF rec.events = <<>> THEN ev.job ELSE rec.batch_job_id,
     events |-> Append(rec.events, [job |-> ev.job, state |-> ev.state.name]),
     log_stream |-> IF ev.log_stream # "none" THEN ev.log_stream ELSE rec.log_stream]

-----------------------------------------------------------------------------
(* Local state of an invocation *)

group(v) == event[v].group
attempt(v) == event[v].attempt
new_state(v) == event[v].state
entity(v) == group(v)[ctx[v]]
canonical_key(v) == <<entity(v), attempt(v)>>

\* Next call of an invocation that starts on a context, or leaves the loop.
Enter(v, call, ev, k, any_fresh) ==
    /\ pc' = [pc EXCEPT ![v] = call]
    /\ event' = [event EXCEPT ![v] = ev]
    /\ ctx' = [ctx EXCEPT ![v] = k]
    /\ fresh' = [fresh EXCEPT ![v] = any_fresh]
    /\ scan' = [scan EXCEPT ![v] = 1]
    /\ hits' = [hits EXCEPT ![v] = {}]
    /\ record' = [record EXCEPT ![v] = NoRecord]

NoEvent == CHOOSE ev \in Events : TRUE
End(v) == Enter(v, "idle", NoEvent, 1, FALSE)

\* The for loop over contexts moves on, or ends.
NextContext(v, any_fresh) ==
    IF ctx[v] < Len(group(v))
    THEN Enter(v, "head", event[v], ctx[v] + 1, any_fresh)
    ELSE Enter(v, "route", event[v], 1, any_fresh)

Goto(v, call) ==
    pc' = [pc EXCEPT ![v] = call] /\ UNCHANGED <<task, lookup, record>>

\* Mutant: the loop runs one state too far.
NextScanTooFar(v, last, call) ==
    IF scan[v] <= last
    THEN scan' = [scan EXCEPT ![v] = @ + 1] /\ UNCHANGED pc
    ELSE scan' = [scan EXCEPT ![v] = 1] /\ pc' = [pc EXCEPT ![v] = call]

\* A loop over last states goes on to the next one, or ends at another call.
NextScan(v, last, call) ==
    IF scan[v] < last
    THEN scan' = [scan EXCEPT ![v] = @ + 1] /\ UNCHANGED pc
    ELSE scan' = [scan EXCEPT ![v] = 1] /\ pc' = [pc EXCEPT ![v] = call]

\* Attempt first, then rank: the order in which find_active_pointer compares
\* hits, as a number (rank is at most 2).
Level(s, a) == 3 * a + rank(s)
HitLevel(h) == Level(h.state, h.attempt)
Position(s) == CHOOSE i \in DOMAIN States : States[i] = s

\* max(hits, key=...): the first of the greatest, in the order scanned.
Best(v) ==
    {h \in hits[v] : \A g \in hits[v] \ {h} :
        \/ HitLevel(g) < HitLevel(h)
        \/ HitLevel(g) = HitLevel(h) /\ Position(h.state) < Position(g.state)}

\* The pointer that was found is of a later attempt.
Stale(v) == \E h \in Best(v) : h.attempt > attempt(v)

\* old_state and old_attempt: the pointer to retire, {} when there is none.
Old(v) == {h \in Best(v) : h.attempt <= attempt(v)}

-----------------------------------------------------------------------------
(* Delivery *)

Init ==
    /\ pointers \in SUBSET {PointerKey(name, e, a) :
                                name \in SubmitterNames, e \in Entities, a \in Attempts}
    /\ records = [x \in Entities \X Attempts |-> NoRecord]
    /\ outputs = {}
    /\ retry_queue = [ev \in Events |-> 0]
    /\ failure_dlq = [ev \in Events |-> 0]
    /\ tries = [ev \in Events |-> 0]
    /\ handled = {}
    /\ discarded = {}
    /\ pc = [v \in Invocations |-> "idle"]
    /\ event = [v \in Invocations |-> NoEvent]
    /\ ctx = [v \in Invocations |-> 1]
    /\ scan = [v \in Invocations |-> 1]
    /\ hits = [v \in Invocations |-> {}]
    /\ record = [v \in Invocations |-> NoRecord]
    /\ fresh = [v \in Invocations |-> FALSE]

\* An event that was handled may be delivered once more: at-least-once.
Deliver(v, ev) ==
    /\ pc[v] = "idle"
    /\ tries[ev] < MaxTries
    /\ tries' = [tries EXCEPT ![ev] = @ + 1]
    /\ Enter(v, "head", ev, 1, FALSE)
    /\ UNCHANGED <<store, queues, handled, discarded>>

\* Mutant: the handler swallows the exception and returns.
CrashSwallowed(v) ==
    /\ Crashes
    /\ pc[v] # "idle"
    /\ handled' = handled \cup {event[v]}
    /\ End(v)
    /\ UNCHANGED <<store, queues, tries, discarded>>

\* A raised exception, a timeout, or the sandbox going away.
Crash(v) ==
    /\ Crashes
    /\ pc[v] # "idle"
    /\ discarded' = IF tries[event[v]] = MaxTries
                    THEN discarded \cup {event[v]} ELSE discarded
    /\ End(v)
    /\ UNCHANGED <<store, queues, tries, handled>>

-----------------------------------------------------------------------------
(* The loop over contexts *)

\* find_state_pointer: one HEAD per state.
HeadState(v) ==
    /\ pc[v] = "head"
    /\ LET s == States[scan[v]]
           seen == IF PointerKey(s.name, entity(v), attempt(v)) \in pointers
                   THEN hits[v] \cup {[state |-> s, attempt |-> attempt(v)]} ELSE hits[v]
       IN  /\ hits' = [hits EXCEPT ![v] = seen]
           /\ NextScan(v, Len(States), IF seen = {} THEN "list" ELSE "get")
    /\ UNCHANGED <<store, queues, delivery, task, record>>

\* find_active_pointer: one LIST per state, then a GET of each key listed.
ListState(v) ==
    /\ pc[v] = "list"
    /\ LET s == States[scan[v]]
           listed == {p \in pointers : p.name = s.name /\ p.entity = entity(v)}
       IN  \E read \in SUBSET listed :
             /\ ReadFaults \/ read = listed
             /\ hits' = [hits EXCEPT ![v] =
                             @ \cup {[state |-> s, attempt |-> p.attempt] : p \in read}]
    /\ NextScan(v, Len(States), "get")
    /\ UNCHANGED <<store, queues, delivery, task, record>>

\* append_canonical_event: GET, then PUT of what was read with the event added.
GetRecord(v) ==
    /\ pc[v] = "get"
    /\ record' = [record EXCEPT ![v] = records[canonical_key(v)]]
    /\ pc' = [pc EXCEPT ![v] = "append"]
    /\ UNCHANGED <<store, queues, delivery, task, lookup>>

\* Mutant: an event of a superseded attempt leaves the submitter pointer behind.
PutRecordWhenStale(v) ==
    /\ pc[v] = "append"
    /\ records' = [records EXCEPT ![canonical_key(v)] = Appended(record[v], event[v])]
    /\ record' = [record EXCEPT ![v] = NoRecord]
    /\ pc' = [pc EXCEPT ![v] =
                  IF SubmitterStates = <<>> \/ Stale(v) THEN "guard" ELSE "submitter"]
    /\ UNCHANGED <<pointers, outputs, queues, delivery, task, lookup>>

PutRecord(v) ==
    /\ pc[v] = "append"
    /\ records' = [records EXCEPT ![canonical_key(v)] = Appended(record[v], event[v])]
    /\ record' = [record EXCEPT ![v] = NoRecord]
    /\ pc' = [pc EXCEPT ![v] = IF SubmitterStates = <<>> THEN "guard" ELSE "submitter"]
    /\ UNCHANGED <<pointers, outputs, queues, delivery, task, lookup>>

\* delete_state_pointer for each declared submitter state, stale event or not.
DeleteSubmitterPointer(v) ==
    /\ pc[v] = "submitter"
    /\ \/ pointers' = pointers \ {PointerKey(SubmitterStates[scan[v]], entity(v), attempt(v))}
       \/ DeleteFaults /\ UNCHANGED pointers
    /\ NextScan(v, Len(SubmitterStates), "guard")
    /\ UNCHANGED <<records, outputs, queues, delivery, task, hits, record>>

\* Mutant: the guard compares attempts only.
OutOfOrderByAttempt(v) == Stale(v)

\* Mutant: a pointer that is already there makes its event out of order.
OutOfOrderOrSame(v) ==
    \/ Stale(v)
    \/ \E h \in Old(v) : h.attempt = attempt(v) /\ rank(new_state(v)) <= rank(h.state)

\* The monotonicity guard: a superseded attempt, or a lower rank.
OutOfOrder(v) ==
    \/ Stale(v)
    \/ \E h \in Old(v) : h.attempt = attempt(v) /\ rank(new_state(v)) < rank(h.state)

SameState(v) == \E h \in Old(v) : h.attempt = attempt(v) /\ h.state = new_state(v)

\* Mutant: the last context decides whether any was fresh.
SkipContextForgets(v) ==
    /\ pc[v] = "guard"
    /\ OutOfOrder(v)
    /\ NextContext(v, FALSE)
    /\ UNCHANGED <<store, queues, delivery>>

SkipContext(v) ==
    /\ pc[v] = "guard"
    /\ OutOfOrder(v)
    /\ NextContext(v, fresh[v])
    /\ UNCHANGED <<store, queues, delivery>>

\* Mutant: a context whose pointer is already there ends the loop.
KeepPointerBreaks(v) ==
    /\ pc[v] = "guard"
    /\ ~OutOfOrder(v) /\ SameState(v)
    /\ Enter(v, "route", event[v], 1, TRUE)
    /\ UNCHANGED <<store, queues, delivery>>

KeepPointer(v) ==
    /\ pc[v] = "guard"
    /\ ~OutOfOrder(v) /\ SameState(v)
    /\ NextContext(v, TRUE)
    /\ UNCHANGED <<store, queues, delivery>>

\* write_state_pointer: PUT the new pointer, then DELETE the old one.
PutPointer(v) ==
    /\ pc[v] = "guard"
    /\ ~OutOfOrder(v) /\ ~SameState(v)
    /\ pointers' = pointers \cup {PointerKey(new_state(v).name, entity(v), attempt(v))}
    /\ IF Old(v) = {} THEN NextContext(v, TRUE) ELSE Goto(v, "delete_old")
    /\ UNCHANGED <<records, outputs, queues, delivery>>

\* Mutant: every other pointer of the entity is deleted.
DeleteOtherPointers(v) ==
    /\ pc[v] = "delete_old"
    /\ pointers' = {p \in pointers :
                      p.entity = entity(v) =>
                          p = PointerKey(new_state(v).name, entity(v), attempt(v))}
    /\ NextContext(v, TRUE)
    /\ UNCHANGED <<records, outputs, queues, delivery>>

\* Mutant: the old state is deleted at the new attempt's key.
DeleteOldStateOnly(v) ==
    /\ pc[v] = "delete_old"
    /\ pointers' = pointers \ {PointerKey(h.state.name, entity(v), attempt(v)) : h \in Old(v)}
    /\ NextContext(v, TRUE)
    /\ UNCHANGED <<records, outputs, queues, delivery>>

DeleteOldPointer(v) ==
    /\ pc[v] = "delete_old"
    /\ \/ pointers' = pointers \ {PointerKey(h.state.name, entity(v), h.attempt) : h \in Old(v)}
       \/ DeleteFaults /\ UNCHANGED pointers
    /\ NextContext(v, TRUE)
    /\ UNCHANGED <<records, outputs, queues, delivery>>

-----------------------------------------------------------------------------
(* After the loop: output index, routing, return *)

terminal(v) == is_terminal(new_state(v), attempt(v), max_attempts)
ToRetryQueue(v) ==
    retry_queue_url /\ goes_to_retry_queue(new_state(v), attempt(v), max_attempts)
ToFailureDlq(v) ==
    dlq_url /\ goes_to_failure_dlq(new_state(v), attempt(v), max_attempts)

\* One entry for the whole group: its key has no entity in it.
WriteOutputIndex(v) ==
    /\ pc[v] = "route"
    /\ fresh[v] /\ terminal(v)
    /\ outputs' = outputs \cup {[name |-> new_state(v).name, output |-> event[v].output]}
    /\ Goto(v, IF ToFailureDlq(v) THEN "send" ELSE "return")
    /\ UNCHANGED <<pointers, records, queues, delivery>>

SendRetry(v) ==
    /\ pc[v] = "route"
    /\ fresh[v] /\ ToRetryQueue(v)
    /\ retry_queue' = [retry_queue EXCEPT ![event[v]] = @ + 1]
    /\ Goto(v, "return")
    /\ UNCHANGED <<store, failure_dlq, delivery>>

SendDlq(v) ==
    /\ pc[v] = "send"
    /\ failure_dlq' = [failure_dlq EXCEPT ![event[v]] = @ + 1]
    /\ Goto(v, "return")
    /\ UNCHANGED <<store, retry_queue, delivery>>

\* Every context was stale, or there is nothing left to write or to send.
Return(v) ==
    /\ \/ pc[v] = "return"
       \/ pc[v] = "route" /\ (fresh[v] => ~terminal(v) /\ ~ToRetryQueue(v))
    /\ handled' = handled \cup {event[v]}
    /\ End(v)
    /\ UNCHANGED <<store, queues, tries, discarded>>

-----------------------------------------------------------------------------
Step(v) ==
    \/ HeadState(v) \/ ListState(v) \/ GetRecord(v) \/ PutRecord(v)
    \/ DeleteSubmitterPointer(v)
    \/ SkipContext(v) \/ KeepPointer(v) \/ PutPointer(v) \/ DeleteOldPointer(v)
    \/ WriteOutputIndex(v) \/ SendRetry(v) \/ SendDlq(v) \/ Return(v)

MonitorNext ==
    \E v \in Invocations : (\E ev \in Events : Deliver(v, ev)) \/ Step(v) \/ Crash(v)

\* Every delivery is done and every invocation has ended.
Quiet ==
    /\ \A v \in Invocations : pc[v] = "idle"
    /\ \A ev \in Events : tries[ev] = MaxTries

Next == MonitorNext \/ (Quiet /\ UNCHANGED vars)

Spec == Init /\ [][Next]_vars

-----------------------------------------------------------------------------
(* Properties *)

JobIds == {ev.job : ev \in Events} \cup {"none"}
LogStreams == {ev.log_stream : ev \in Events} \cup {"none"}
Record == [batch_job_id : JobIds, log_stream : LogStreams,
           events : Seq([job : JobIds, state : StateNames])]
Hit == [state : StateSet, attempt : Attempts]
Pointer == [name : StateNames \cup SubmitterNames, entity : Entities, attempt : Attempts]

PCs == {"idle", "head", "list", "get", "append", "submitter", "guard", "delete_old",
        "route", "send", "return"}
\* Every variable holds a value of its type: pointers are keys of the bucket,
\* counters are naturals, an invocation is at one of monitor_job's calls with a
\* context of its event's group at hand.
TypeOK ==
    /\ pointers \subseteq Pointer
    /\ records \in [Entities \X Attempts -> Record]
    /\ outputs \subseteq [name : StateNames, output : {ev.output : ev \in Events}]
    /\ retry_queue \in [Events -> Nat] /\ failure_dlq \in [Events -> Nat]
    /\ handled \subseteq Events /\ discarded \subseteq Events
    /\ tries \in [Events -> 0..MaxTries]
    /\ pc \in [Invocations -> PCs] /\ event \in [Invocations -> Events]
    /\ ctx \in [Invocations -> Nat] /\ scan \in [Invocations -> Nat]
    /\ hits \in [Invocations -> SUBSET Hit] /\ record \in [Invocations -> Record]
    /\ fresh \in [Invocations -> BOOLEAN]
    /\ \A v \in Invocations : /\ ctx[v] \in DOMAIN group(v)
                              /\ pc[v] \in {"head", "list"} => scan[v] \in DOMAIN States
                              /\ pc[v] = "submitter" => scan[v] \in DOMAIN SubmitterStates
                              /\ pc[v] \in PCs \ {"head", "list", "submitter"} => scan[v] = 1

\* The bucket holds a pointer of entity e, in one of the monitor's states, at
\* level l or above: what find_active_pointer returns is at least l.
Reached(e, l) ==
    \E p \in pointers : \E s \in StateSet :
        /\ p.entity = e
        /\ p.name = s.name
        /\ Level(s, p.attempt) >= l

\* The same as a set, bounded by the levels there are.
Levels == {Level(s, a) : s \in StateSet, a \in Attempts}

\* The pointer that is authoritative for an entity never disappears and never
\* goes back to an earlier attempt or a lower rank, whatever is interleaved,
\* duplicated, reordered or cut short (write_state_pointer, find_active_pointer).
PointerNeverRegresses ==
    [][\A e \in Entities : \A l \in Levels : Reached(e, l) => Reached(e, l)']_vars

\* Once monitor_job has returned for an event, every entity of its group has an
\* authoritative pointer at that event's level or above.
HandledIsReflected ==
    \A ev \in handled : \A k \in DOMAIN ev.group :
        Reached(ev.group[k], Level(ev.state, ev.attempt))

\* A later attempt has a pointer for every entity of the event's group.
Superseded(ev) == \A k \in DOMAIN ev.group : Reached(ev.group[k], 3 * (ev.attempt + 1))

\* monitor_job never returns from a failure it owes to a queue without having
\* sent it there, unless a later attempt has superseded the whole group.
HandledFailureIsRouted ==
    \A ev \in handled :
        /\ retry_queue_url /\ goes_to_retry_queue(ev.state, ev.attempt, max_attempts)
               => retry_queue[ev] > 0 \/ Superseded(ev)
        /\ dlq_url /\ goes_to_failure_dlq(ev.state, ev.attempt, max_attempts)
               => failure_dlq[ev] > 0 \/ Superseded(ev)

\* A terminal outcome monitor_job has returned from is in the output index,
\* unless a later attempt has superseded the whole group.
HandledTerminalIsIndexed ==
    \A ev \in handled :
        is_terminal(ev.state, ev.attempt, max_attempts)
            => \/ [name |-> ev.state.name, output |-> ev.output] \in outputs
               \/ Superseded(ev)

\* No submitter pointer outlives the first event of its attempt that is handled
\* (JobTypeConfig.submitter_states: "never left behind once the job is in Batch").
SubmitterPointersCleared ==
    \A ev \in handled : \A k \in DOMAIN ev.group : \A name \in SubmitterNames :
        PointerKey(name, ev.group[k], ev.attempt) \notin pointers

Resting == \A v \in Invocations : pc[v] = "idle"

\* Between invocations that run one at a time and to the end, an entity has at
\* most one pointer of the monitor's: each transition retires the one before.
OnePointerPerEntity ==
    Resting => \A p, q \in pointers :
        p.entity = q.entity /\ p.name \in StateNames /\ q.name \in StateNames => p = q

\* An event monitor_job has returned from is in the canonical record of each of
\* its entities, stale or not ("still records it for audit history").
InRecord(e, ev) ==
    LET events == records[<<e, ev.attempt>>].events
    IN  \E n \in DOMAIN events : events[n] = [job |-> ev.job, state |-> ev.state.name]
HandledEventIsRecorded ==
    \A ev \in handled : \A k \in DOMAIN ev.group : InRecord(ev.group[k], ev)

\* A log stream, once recorded, is never erased by an event that carries none.
LogStreamNeverErased ==
    [][\A x \in DOMAIN records :
        records[x].log_stream # "none" => records'[x].log_stream # "none"]_vars

\* The monitor implements EntityTracking: what an entity has attained is read
\* off the bucket, a notification off the queues.
NotifiedEvents == {ev \in Events : retry_queue[ev] + failure_dlq[ev] > 0}
OwedTo(ev) ==
    \/ retry_queue_url /\ goes_to_retry_queue(ev.state, ev.attempt, max_attempts)
    \/ dlq_url /\ goes_to_failure_dlq(ev.state, ev.attempt, max_attempts)
EventLevel(ev) == Level(ev.state, ev.attempt)
NextAttemptLevel(ev) == 3 * (ev.attempt + 1)

Tracking == INSTANCE EntityTracking WITH
    LevelOf <- EventLevel, SupersededLevel <- NextAttemptLevel, Owed <- OwedTo,
    attained <- [e \in Entities |-> {l \in Levels : Reached(e, l)}],
    notified <- NotifiedEvents,
    acknowledged <- handled

\* Every behaviour of the monitor is one EntityTracking allows.
ImplementsTracking == Tracking!Spec
===============================================================================
