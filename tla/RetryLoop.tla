------------------------------ MODULE RetryLoop ------------------------------
(***************************************************************************)
(* The loop around the monitor: Batch emits job state change events, the   *)
(* EventBridge rule delivers them to the monitor Lambda, a retryable       *)
(* failure goes to the retry queue, and the resubmit Lambda submits its    *)
(* group for the next attempt (JobMonitorFunction, MonitoringQueues,       *)
(* JobResubmitFunction and the two bundled handlers).                      *)
(*                                                                         *)
(* An invocation of the monitor is one step here: JobMonitor shows, call   *)
(* by call, that it moves an entity's authoritative pointer up or leaves   *)
(* it alone, and EntityTracking what a failed one may leave done.  A group *)
(* is one entity.  The deployment decides what becomes of an event whose   *)
(* delivery or invocation fails, and that is modelled as deployed.         *)
(***************************************************************************)
EXTENDS ProcessingStates, FiniteSets

CONSTANTS
    Groups,            \* job groups submitted at attempt 1
    Outcomes,          \* states a job may end in
    max_attempts,      \* retry_policy.max_attempts
    async_retries,     \* Lambda's retries of a failed asynchronous invocation
    max_receive_count, \* receives before the retry queue redrives a message
    batch_size,        \* messages one invocation of the resubmit Lambda gets
    MaxFaults          \* bound: failures and duplicates of one behaviour

ASSUME RetryLoopAssumption ==
    /\ {max_attempts, async_retries, max_receive_count, batch_size, MaxFaults} \subseteq Nat
    /\ IsFiniteSet(Groups)
    /\ max_attempts >= 1 /\ max_receive_count >= 1 /\ batch_size >= 1
    /\ \A s \in Outcomes : IsProcessingState(s) /\ rank(s) = 2

VARIABLES
    jobs,        \* Batch jobs submitted: group, attempt, copy
    ended,       \* events of the jobs that have ended
    pending,     \* events on their way to the monitor, with its failed invocations
    pointer,     \* authoritative pointer of each group
    retry_queue, \* messages that can be received
    batch,       \* messages the resubmit invocation was given, {} when none runs
    submitted,   \* those it has resubmitted
    reported,    \* those it reports as failed
    sent,        \* messages sent so far, from which the next takes its id
    retry_dlq, failure_dlq, event_dlq,
    discarded,   \* events Lambda has dropped after its retries
    faults       \* faults so far

resubmission == <<retry_queue, batch, submitted, reported>>
dlqs == <<retry_dlq, failure_dlq, event_dlq, discarded>>
vars == <<jobs, ended, pending, pointer, resubmission, sent, dlqs, faults>>

Copies(g, a) == {j \in jobs : j.group = g /\ j.attempt = a}
NextJob(g, a) == [group |-> g, attempt |-> a, copy |-> Cardinality(Copies(g, a)) + 1]
Event(job, s) == [job |-> job, state |-> s]
Arriving(ev) == [event |-> ev, tries |-> 0]
NoPointer == [state |-> submitter("none"), attempt |-> 0]
Fault == faults < MaxFaults /\ faults' = faults + 1

\* resubmit_job: advance the group to its next attempt, and submit it.  Batch
\* emits the job's first event.
Resubmitted(m) == NextJob(m.group, m.attempt + 1)
Submit(job) ==
    /\ jobs' = jobs \cup {job}
    /\ pending' = pending \cup {Arriving(Event(job, AWAITING))}

FirstJob(g) == [group |-> g, attempt |-> 1, copy |-> 1]
Init ==
    /\ jobs = {FirstJob(g) : g \in Groups}
    /\ ended = {}
    /\ pending = {Arriving(Event(FirstJob(g), AWAITING)) : g \in Groups}
    /\ pointer = [g \in Groups |-> NoPointer]
    /\ retry_queue = {} /\ batch = {} /\ submitted = {} /\ reported = {}
    /\ sent = 0
    /\ retry_dlq = {} /\ failure_dlq = {} /\ event_dlq = {} /\ discarded = {}
    /\ faults = 0

-----------------------------------------------------------------------------
(* Batch and EventBridge *)

HasEnded(job) == \E ev \in ended : ev.job = job

EndJob(job, s) ==
    /\ ~HasEnded(job)
    /\ ended' = ended \cup {Event(job, s)}
    /\ pending' = pending \cup {Arriving(Event(job, s))}
    /\ UNCHANGED <<jobs, pointer, resubmission, sent, dlqs, faults>>

\* Every one of the target's retries has failed to reach Lambda.
DeadLetterEvent(i) ==
    /\ Fault
    /\ i \in pending /\ i.tries = 0
    /\ pending' = pending \ {i}
    /\ event_dlq' = event_dlq \cup {i.event}
    /\ UNCHANGED <<jobs, ended, pointer, resubmission, sent, retry_dlq, failure_dlq, discarded>>

\* EventBridge delivers an event once more.
DuplicateEvent(ev) ==
    /\ Fault
    /\ ev \in ended /\ Arriving(ev) \notin pending
    /\ pending' = pending \cup {Arriving(ev)}
    /\ UNCHANGED <<jobs, ended, pointer, resubmission, sent, dlqs>>

-----------------------------------------------------------------------------
(* The monitor Lambda *)

\* monitor_job's guard: of a later attempt, or of a higher rank.
OutOfOrder(ev) ==
    LET old == pointer[ev.job.group]
    IN  \/ old.attempt > ev.job.attempt
        \/ old.attempt = ev.job.attempt /\ rank(ev.state) < rank(old.state)

WritePointer(ev) ==
    pointer' = IF OutOfOrder(ev) THEN pointer
               ELSE [pointer EXCEPT ![ev.job.group] =
                        [state |-> ev.state, attempt |-> ev.job.attempt]]

\* Mutant: one attempt too many is allowed.
RouteOneMore(ev) ==
    LET a == ev.job.attempt
        m == [id |-> sent + 1, group |-> ev.job.group, attempt |-> a, receives |-> 0]
    IN  IF ~OutOfOrder(ev) /\ goes_to_retry_queue(ev.state, a, max_attempts + 1)
        THEN retry_queue' = retry_queue \cup {m} /\ sent' = sent + 1 /\ UNCHANGED failure_dlq
        ELSE /\ failure_dlq' = IF ~OutOfOrder(ev) /\ goes_to_failure_dlq(ev.state, a, max_attempts)
                               THEN failure_dlq \cup {ev} ELSE failure_dlq
             /\ UNCHANGED <<retry_queue, sent>>

\* monitor_job's routing of a fresh outcome.
Route(ev) ==
    LET a == ev.job.attempt
        m == [id |-> sent + 1, group |-> ev.job.group, attempt |-> a, receives |-> 0]
        retry == ~OutOfOrder(ev) /\ goes_to_retry_queue(ev.state, a, max_attempts)
        dlq == ~OutOfOrder(ev) /\ goes_to_failure_dlq(ev.state, a, max_attempts)
    IN  /\ retry_queue' = IF retry THEN retry_queue \cup {m} ELSE retry_queue
        /\ sent' = IF retry THEN sent + 1 ELSE sent
        /\ failure_dlq' = IF dlq THEN failure_dlq \cup {ev} ELSE failure_dlq

Monitor(i) ==
    /\ i \in pending
    /\ WritePointer(i.event)
    /\ Route(i.event)
    /\ pending' = pending \ {i}
    /\ UNCHANGED <<jobs, ended, batch, submitted, reported, retry_dlq,
                   event_dlq, discarded, faults>>

\* The invocation fails before the pointer, before the queue or after it.
\* Lambda runs it again, async_retries times, and then drops the event: the
\* function has no failure destination.
FailMonitor(i) ==
    /\ Fault
    /\ i \in pending
    /\ \/ UNCHANGED <<pointer, retry_queue, sent, failure_dlq>>
       \/ WritePointer(i.event) /\ UNCHANGED <<retry_queue, sent, failure_dlq>>
       \/ WritePointer(i.event) /\ Route(i.event)
    /\ IF i.tries < async_retries
       THEN /\ pending' = (pending \ {i}) \cup {[i EXCEPT !.tries = @ + 1]}
            /\ UNCHANGED discarded
       ELSE /\ pending' = pending \ {i}
            /\ discarded' = discarded \cup {i.event}
    /\ UNCHANGED <<jobs, ended, batch, submitted, reported, retry_dlq, event_dlq>>

-----------------------------------------------------------------------------
(* The retry queue and the resubmit Lambda *)

Receives(m) == [m EXCEPT !.receives = @ + 1]

\* Mutant: the event source waits for a full batch.
ReceiveFullBatch ==
    /\ batch = {}
    /\ \E received \in SUBSET {m \in retry_queue : m.receives < max_receive_count} :
          /\ Cardinality(received) = batch_size
          /\ retry_queue' = retry_queue \ received
          /\ batch' = {Receives(m) : m \in received}
    /\ UNCHANGED <<jobs, ended, pending, pointer, submitted, reported, sent, dlqs, faults>>

ReceiveBatch ==
    /\ batch = {}
    /\ \E received \in SUBSET {m \in retry_queue : m.receives < max_receive_count} :
          /\ received # {} /\ Cardinality(received) <= batch_size
          /\ retry_queue' = retry_queue \ received
          /\ batch' = {Receives(m) : m \in received}
    /\ UNCHANGED <<jobs, ended, pending, pointer, submitted, reported, sent, dlqs, faults>>

\* Mutant: a message is redriven one receive too late.
RedriveLate(m) ==
    /\ m \in retry_queue /\ m.receives > max_receive_count
    /\ retry_queue' = retry_queue \ {m}
    /\ retry_dlq' = retry_dlq \cup {m}
    /\ UNCHANGED <<jobs, ended, pending, pointer, batch, submitted, reported, sent,
                   failure_dlq, event_dlq, discarded, faults>>

\* A message that was received max_receive_count times goes to retry_dlq.
Redrive(m) ==
    /\ m \in retry_queue /\ m.receives = max_receive_count
    /\ retry_queue' = retry_queue \ {m}
    /\ retry_dlq' = retry_dlq \cup {m}
    /\ UNCHANGED <<jobs, ended, pending, pointer, batch, submitted, reported, sent,
                   failure_dlq, event_dlq, discarded, faults>>

Unprocessed == batch \ (submitted \cup reported)

ResubmitJob(m) ==
    /\ m \in Unprocessed
    /\ Submit(Resubmitted(m))
    /\ submitted' = submitted \cup {m}
    /\ UNCHANGED <<ended, pointer, retry_queue, batch, reported, sent, dlqs, faults>>

\* An exception: SubmitJob may have created the job all the same.
FailResubmit(m) ==
    /\ Fault
    /\ m \in Unprocessed
    /\ Submit(Resubmitted(m)) \/ UNCHANGED <<jobs, pending>>
    /\ reported' = reported \cup {m}
    /\ UNCHANGED <<ended, pointer, retry_queue, batch, submitted, sent, dlqs>>

\* Mutant: the handler reports the messages it has resubmitted.
ReportSubmitted ==
    /\ batch # {} /\ Unprocessed = {}
    /\ retry_queue' = retry_queue \cup submitted
    /\ batch' = {} /\ submitted' = {} /\ reported' = {}
    /\ UNCHANGED <<jobs, ended, pending, pointer, sent, dlqs, faults>>

\* Mutant: the failures are caught and not reported.
SwallowFailures ==
    /\ batch # {} /\ Unprocessed = {}
    /\ batch' = {} /\ submitted' = {} /\ reported' = {}
    /\ UNCHANGED <<jobs, ended, pending, pointer, retry_queue, sent, dlqs, faults>>

\* The handler returns batchItemFailures: SQS deletes the rest of the batch, and
\* what was reported can be received again.
ReportFailures ==
    /\ batch # {} /\ Unprocessed = {}
    /\ retry_queue' = retry_queue \cup reported
    /\ batch' = {} /\ submitted' = {} /\ reported' = {}
    /\ UNCHANGED <<jobs, ended, pending, pointer, sent, dlqs, faults>>

\* Mutant: messages become visible while the invocation that has them still runs.
ReappearEarly ==
    /\ Fault
    /\ batch # {}
    /\ retry_queue' = retry_queue \cup batch
    /\ UNCHANGED <<jobs, ended, pending, pointer, batch, submitted, reported, sent, dlqs>>

\* The invocation dies: the whole batch can be received again, those messages
\* included whose jobs were submitted.
CrashResubmit ==
    /\ Fault
    /\ batch # {}
    /\ retry_queue' = retry_queue \cup batch
    /\ batch' = {} /\ submitted' = {} /\ reported' = {}
    /\ UNCHANGED <<jobs, ended, pending, pointer, sent, dlqs>>

-----------------------------------------------------------------------------
Batch == \E job \in jobs : \E s \in Outcomes : EndJob(job, s)
MonitorLambda == \E i \in pending : Monitor(i)
SQS == ReceiveBatch \/ \E m \in retry_queue : Redrive(m)
ResubmitLambda == ReportFailures \/ \E m \in batch : ResubmitJob(m)
Faults ==
    \/ \E i \in pending : DeadLetterEvent(i)
    \/ \E ev \in ended : DuplicateEvent(ev)
    \/ \E i \in pending : FailMonitor(i)
    \/ \E m \in batch : FailResubmit(m)
    \/ CrashResubmit

\* Nothing is left to end, deliver, invoke, receive or resubmit.
Idle ==
    /\ \A job \in jobs : HasEnded(job)
    /\ pending = {} /\ retry_queue = {} /\ batch = {}

Next ==
    \/ Batch \/ MonitorLambda \/ SQS \/ ResubmitLambda \/ Faults
    \/ Idle /\ UNCHANGED vars

\* A Batch job ends, and AWS keeps delivering, invoking and polling.
Fairness ==
    /\ WF_vars(Batch) /\ WF_vars(MonitorLambda)
    /\ WF_vars(SQS) /\ WF_vars(ResubmitLambda)

Spec == Init /\ [][Next]_vars /\ Fairness

-----------------------------------------------------------------------------
JobType(j) == j.group \in Groups /\ j.attempt \in Nat \ {0} /\ j.copy \in Nat \ {0}
EventType(ev) == ev.job \in jobs /\ ev.state \in Outcomes \cup {AWAITING}
MessageType(m) == m.id \in 1..sent /\ m.group \in Groups /\ m.receives \in 0..max_receive_count
\* Events are of submitted jobs, messages have distinct ids and are in one place.
TypeOK ==
    /\ \A j \in jobs : JobType(j)
    /\ \A ev \in ended \cup failure_dlq \cup event_dlq \cup discarded :
          EventType(ev)
    /\ \A i \in pending : EventType(i.event) /\ i.tries \in 0..async_retries
    /\ \A m \in retry_queue \cup batch \cup retry_dlq : MessageType(m)
    /\ \A m, n \in retry_queue \cup batch \cup retry_dlq : m.id = n.id => m = n
    /\ batch \cap (retry_queue \cup retry_dlq) = {} /\ retry_queue \cap retry_dlq = {}
    /\ submitted \subseteq batch /\ reported \subseteq batch /\ submitted \cap reported = {}
    /\ faults \in 0..MaxFaults

\* No duplicated event, failed call or redelivered message ever gets a group
\* past retry_policy.max_attempts.
AttemptsBounded == \A j \in jobs : j.attempt <= max_attempts

\* Without a fault, an attempt of a group is one Batch job: what makes the
\* premise of JobMonitorInvariant, one outcome per attempt, true.
OneJobPerAttempt ==
    faults = 0 => \A g \in Groups : \A a \in 1..max_attempts + 1 : Cardinality(Copies(g, a)) <= 1

\* The group of event ev has moved on to a later attempt.
Retried(ev) == \E j \in jobs : j.group = ev.job.group /\ j.attempt > ev.job.attempt
\* Something that will still act on the failure, or keeps evidence of it.
Delivering(ev) == \E i \in pending : i.event = ev
Retrying(ev) ==
    \E m \in retry_queue \cup batch : m.group = ev.job.group /\ m.attempt = ev.job.attempt
DeadLettered(ev) ==
    \/ ev \in failure_dlq \cup event_dlq
    \/ \E m \in retry_dlq : m.group = ev.job.group /\ m.attempt = ev.job.attempt

\* A failure of a job is, at any moment, on its way through a queue, retried, or
\* in a dead-letter queue; or it is a later copy of a retried attempt; or Lambda
\* has dropped it.
Fails(ev) == goes_to_retry_queue(ev.state, ev.job.attempt, max_attempts)
                \/ goes_to_failure_dlq(ev.state, ev.job.attempt, max_attempts)
FailureAccounted ==
    \A ev \in ended : Fails(ev) =>
        Delivering(ev) \/ Retrying(ev) \/ Retried(ev) \/ DeadLettered(ev) \/ ev \in discarded

\* "Every failure path terminates in one of the MonitoringQueues rather than
\* dropping an event: target failures go to the EventBridge DLQ".
NoEventDropped == discarded \subseteq event_dlq

\* Every retryable failure is eventually retried or ends in a dead-letter queue,
\* unless Lambda dropped its event: no cycle of failures and redeliveries keeps
\* it going for ever, and none leaves it lying.
FailureSettles ==
    <>[](\A ev \in ended : Fails(ev) =>
            Retried(ev) \/ DeadLettered(ev) \/ ev \in discarded)

\* The loop winds down: everything submitted ends and everything sent is consumed.
LoopEnds == <>[]Idle
===============================================================================
