--------------------------- MODULE RetryLoop_proofs ---------------------------
(***************************************************************************)
(* Proofs about RetryLoop, for any groups and retry policy and any number  *)
(* of faults.  Fairness plays no part in them.                             *)
(***************************************************************************)
EXTENDS RetryLoopInvariant, FiniteSetTheorems, TLAPS

-----------------------------------------------------------------------------
(* Constants, and what an action does *)

LEMMA ConstantFacts ==
    /\ max_attempts \in Nat /\ max_attempts >= 1 /\ async_retries \in Nat
    /\ max_receive_count \in Nat /\ max_receive_count >= 1 /\ MaxFaults \in Nat
    /\ \A s \in Outcomes : rank(s) = 2
    /\ rank(AWAITING) = 1
BY RetryLoopAssumption DEF rank, AWAITING

\* Where an outcome goes depends on its rank and on the attempts used up.
LEMMA OutcomeFacts ==
    ASSUME NEW s, NEW a \in Nat
    PROVE  /\ goes_to_retry_queue(s, a, max_attempts) => rank(s) = 2 /\ a < max_attempts
           /\ goes_to_failure_dlq(s, a, max_attempts) => rank(s) = 2
           /\ rank(s) <= 2
BY ConstantFacts DEF goes_to_retry_queue, goes_to_failure_dlq, is_terminal, retryable, rank

\* The next copy of a group's attempt is a job.
LEMMA NextJobType ==
    ASSUME IsFiniteSet(jobs), NEW g \in Groups, NEW a \in Nat \ {0}
    PROVE  /\ JobType(NextJob(g, a))
           /\ NextJob(g, a).group = g /\ NextJob(g, a).attempt = a
<1>1. Cardinality(Copies(g, a)) \in Nat
  BY FS_Subset, FS_CardinalityType DEF Copies
<1> QED
  BY <1>1 DEF JobType, NextJob

\* A message the monitor sends has an id of its own.
LEMMA RouteSends ==
    ASSUME LoopInv, NEW ev, EventType(ev), Route(ev)
    PROVE  /\ sent' \in Nat /\ sent' >= sent
           /\ \/ retry_queue' = retry_queue /\ ~goes_to_retry_queue(ev.state, ev.job.attempt, max_attempts)
              \/ retry_queue' = retry_queue /\ OutOfOrder(ev)
              \/ /\ goes_to_retry_queue(ev.state, ev.job.attempt, max_attempts)
                 /\ sent' = sent + 1
                 /\ retry_queue' = retry_queue \cup
                      {[id |-> sent + 1, group |-> ev.job.group, attempt |-> ev.job.attempt,
                        receives |-> 0]}
           /\ failure_dlq' \in {failure_dlq, failure_dlq \cup {ev}}
           /\ goes_to_failure_dlq(ev.state, ev.job.attempt, max_attempts) /\ ~OutOfOrder(ev)
                 => ev \in failure_dlq'
BY DEF Route, LoopInv, ShapeOK

-----------------------------------------------------------------------------
(* Types *)

LEMMA LoopInitInv == Init => LoopInv
<1> SUFFICES ASSUME Init PROVE LoopInv
  OBVIOUS
<1>1. IsFiniteSet(jobs)
  <2> DEFINE f == [g \in Groups |-> FirstJob(g)]
  <2>1. f \in Surjection(Groups, jobs)
    BY DEF Init, Surjection
  <2> QED
    BY <2>1, FS_Surjection, RetryLoopAssumption
<1>2. \A j \in jobs : JobType(j) /\ j.attempt = 1 /\ j = FirstJob(j.group)
  BY DEF Init, FirstJob, JobType
<1>3. \A i \in pending : /\ i = [event |-> i.event, tries |-> i.tries] /\ i.tries = 0
                         /\ i.event.job \in jobs /\ i.event.state = AWAITING
  BY DEF Init, Arriving, Event
<1>4. TypeOK
  BY <1>2, <1>3, ConstantFacts DEF Init, TypeOK, EventType
<1>5. ShapeOK /\ PointersReported
  BY <1>1, <1>3 DEF Init, Messages, ShapeOK, PointersReported, NoPointer
<1>6. AttemptsBounded /\ MessagesBounded /\ SubmittedIsRetried /\ FailureAccounted
  BY <1>2, ConstantFacts
     DEF Init, AttemptsBounded, MessagesBounded, Messages, SubmittedIsRetried, FailureAccounted
<1>7. OnceInOrder
  BY <1>2, <1>3, ConstantFacts DEF Init, OnceInOrder, SameAttempt, JobsOnce, EndsOnce,
     RetriesFollow, MessagesFollow, MessagesOnce, UnsubmittedIsWaiting, PendingIsUnrouted
<1> QED
  BY <1>4, <1>5, <1>6, <1>7 DEF LoopInv

\* What the type invariant says of messages and where they are.
MessagesOK ==
    /\ \A m \in Messages : MessageType(m)
    /\ \A m, n \in Messages : m.id = n.id => m = n
    /\ batch \cap (retry_queue \cup retry_dlq) = {} /\ retry_queue \cap retry_dlq = {}
    /\ submitted \subseteq batch /\ reported \subseteq batch /\ submitted \cap reported = {}
EventsOK ==
    /\ \A ev \in ended \cup failure_dlq \cup event_dlq \cup discarded : EventType(ev)
    /\ \A i \in pending : EventType(i.event) /\ i.tries \in 0..async_retries
LEMMA TypeSplit ==
    TypeOK <=> /\ \A j \in jobs : JobType(j)
               /\ EventsOK /\ MessagesOK /\ faults \in 0..MaxFaults
BY DEF TypeOK, MessagesOK, EventsOK, Messages

\* A receive is counted, and changes nothing else of a message.
LEMMA ReceivesFields ==
    ASSUME LoopInv, NEW m \in Messages
    PROVE  Receives(m) = [id |-> m.id, group |-> m.group, attempt |-> m.attempt,
                          receives |-> m.receives + 1]
<1>1. m = [id |-> m.id, group |-> m.group, attempt |-> m.attempt, receives |-> m.receives]
  BY DEF LoopInv, ShapeOK
<1> DEFINE r == [id |-> m.id, group |-> m.group, attempt |-> m.attempt, receives |-> m.receives]
<1>2. [r EXCEPT !.receives = @ + 1] =
        [id |-> m.id, group |-> m.group, attempt |-> m.attempt, receives |-> m.receives + 1]
  OBVIOUS
<1> QED
  BY <1>1, <1>2 DEF Receives

\* Messages keep their ids, and a message is in one place, whatever is received,
\* redriven, reported or sent.
LEMMA MessagesStep ==
    ASSUME LoopInv, [Next]_vars
    PROVE  MessagesOK'
<1>0. MessagesOK /\ EventsOK /\ sent \in Nat
  BY TypeSplit DEF LoopInv, ShapeOK
<1>1. CASE UNCHANGED <<retry_queue, batch, submitted, reported, retry_dlq, sent>>
  BY <1>0, <1>1 DEF MessagesOK, Messages, MessageType
<1>2. ASSUME NEW i \in pending, Route(i.event),
             UNCHANGED <<batch, submitted, reported, retry_dlq>>
      PROVE  MessagesOK'
  <2>1. EventType(i.event) /\ JobType(i.event.job)
    BY <1>0, TypeSplit DEF EventsOK, EventType, LoopInv
  <2> DEFINE e == i.event
  <2>r. /\ sent' \in Nat /\ sent' >= sent
        /\ \/ retry_queue' = retry_queue
           \/ /\ sent' = sent + 1
              /\ retry_queue' = retry_queue \cup
                   {[id |-> sent + 1, group |-> e.job.group, attempt |-> e.job.attempt,
                     receives |-> 0]}
    <3>1. EventType(e) /\ Route(e)
      BY <1>2, <2>1
    <3> HIDE DEF e
    <3> QED
      BY <3>1, RouteSends
  <2>2. CASE retry_queue' = retry_queue
    <3>1. Messages' = Messages
      BY <1>2, <2>2 DEF Messages
    <3>2. ASSUME NEW m \in Messages PROVE MessageType(m)'
      BY <1>0, <2>r DEF MessagesOK, MessageType
    <3> QED
      BY <1>0, <1>2, <2>2, <3>1, <3>2 DEF MessagesOK
  <2>3. CASE retry_queue' # retry_queue
    <3> DEFINE m == [id |-> sent + 1, group |-> i.event.job.group,
                     attempt |-> i.event.job.attempt, receives |-> 0]
    <3>1. sent' = sent + 1 /\ retry_queue' = retry_queue \cup {m}
      BY <2>r, <2>3
    <3>2. m.id = sent + 1 /\ m.group \in Groups /\ m.receives = 0
      BY <2>1 DEF JobType
    <3>3. \A n \in Messages : n.id \in 1..sent /\ n.id # m.id
      BY <1>0, <3>2 DEF MessagesOK, MessageType
    <3> HIDE DEF m
    <3>4. m \notin Messages
      BY <3>3
    <3> QED
      BY <1>0, <1>2, <3>1, <3>2, <3>3, <3>4, ConstantFacts DEF MessagesOK, Messages, MessageType
  <2> QED
    BY <2>2, <2>3
<1>3. ASSUME NEW i \in pending, Monitor(i) PROVE MessagesOK'
  BY <1>2, <1>3 DEF Monitor
<1>4. ASSUME NEW i \in pending, FailMonitor(i) PROVE MessagesOK'
  BY <1>1, <1>2, <1>4 DEF FailMonitor
<1>5. CASE ReceiveBatch
  <2>1. PICK received \in SUBSET {m \in retry_queue : m.receives < max_receive_count} :
           /\ retry_queue' = retry_queue \ received
           /\ batch' = {Receives(m) : m \in received}
    BY <1>5 DEF ReceiveBatch
  <2>2. /\ batch = {} /\ submitted = {} /\ reported = {}
        /\ submitted' = {} /\ reported' = {} /\ retry_dlq' = retry_dlq /\ sent' = sent
    BY <1>0, <1>5 DEF ReceiveBatch, MessagesOK, dlqs
  <2>3. ASSUME NEW m \in received
        PROVE  /\ Receives(m).id = m.id /\ Receives(m).group = m.group
               /\ Receives(m).receives \in 0..max_receive_count
               /\ m \in Messages /\ m \notin retry_queue' /\ m \notin retry_dlq
    <3>1. m \in retry_queue /\ m.receives < max_receive_count /\ MessageType(m)
      BY <1>0, <2>1 DEF MessagesOK, Messages
    <3>2. Receives(m) = [id |-> m.id, group |-> m.group, attempt |-> m.attempt,
                         receives |-> m.receives + 1]
      BY <3>1, ReceivesFields DEF Messages
    <3>3. Receives(m).receives \in 0..max_receive_count
      BY <3>1, <3>2, ConstantFacts DEF MessageType
    <3>4. Receives(m).id = m.id /\ Receives(m).group = m.group
      BY <3>2
    <3> QED
      BY <1>0, <2>1, <3>1, <3>3, <3>4 DEF MessagesOK, Messages
  <2>4. \A n \in batch' : MessageType(n)'
    BY <1>0, <2>1, <2>2, <2>3 DEF MessagesOK, MessageType
  <2>5. \A n \in batch' : n \notin retry_queue' \cup retry_dlq'
    BY <1>0, <2>1, <2>2, <2>3 DEF MessagesOK, Messages
  <2>6. \A m, n \in Messages' : m.id = n.id => m = n
    BY <1>0, <2>1, <2>2, <2>3 DEF MessagesOK, Messages
  <2> QED
    BY <1>0, <2>1, <2>2, <2>4, <2>5, <2>6 DEF MessagesOK, Messages, MessageType
<1>6. ASSUME NEW m \in retry_queue, Redrive(m) PROVE MessagesOK'
  BY <1>0, <1>6 DEF Redrive, MessagesOK, Messages, MessageType
<1>7. ASSUME NEW m \in batch, ResubmitJob(m) \/ FailResubmit(m) PROVE MessagesOK'
  <2>1. /\ UNCHANGED <<retry_queue, batch, retry_dlq, sent>>
        /\ \/ submitted' = submitted \cup {m} /\ reported' = reported
           \/ reported' = reported \cup {m} /\ submitted' = submitted
        /\ m \notin submitted /\ m \notin reported
    BY <1>7 DEF ResubmitJob, FailResubmit, dlqs, Unprocessed
  <2> QED
    BY <1>0, <2>1 DEF MessagesOK, Messages, MessageType
<1>8. CASE ReportFailures
  BY <1>0, <1>8 DEF ReportFailures, dlqs, MessagesOK, Messages, MessageType
<1>9. CASE CrashResubmit
  BY <1>0, <1>9 DEF CrashResubmit, dlqs, MessagesOK, Messages, MessageType
<1>10. ASSUME \/ Batch \/ UNCHANGED vars
              \/ \E i \in pending : DeadLetterEvent(i)
              \/ \E ev \in ended : DuplicateEvent(ev)
       PROVE  UNCHANGED <<retry_queue, batch, submitted, reported, retry_dlq, sent>>
  BY <1>10 DEF Batch, EndJob, DeadLetterEvent, DuplicateEvent, vars, resubmission, dlqs
<1> QED
  BY <1>1, <1>3, <1>4, <1>5, <1>6, <1>7, <1>8, <1>9, <1>10
     DEF Next, MonitorLambda, SQS, ResubmitLambda, Faults

\* Jobs are only submitted for a message of the batch, at its next attempt.
LEMMA JobsStep ==
    ASSUME LoopInv, [Next]_vars
    PROVE  /\ jobs \subseteq jobs' /\ IsFiniteSet(jobs')
           /\ \A j \in jobs' : JobType(j) /\ j.attempt <= max_attempts
<1>0. /\ IsFiniteSet(jobs) /\ \A j \in jobs : JobType(j) /\ j.attempt <= max_attempts
  BY TypeSplit DEF LoopInv, ShapeOK, AttemptsBounded
<1>1. ASSUME NEW m \in batch, Submit(Resubmitted(m))
      PROVE  /\ jobs \subseteq jobs' /\ IsFiniteSet(jobs')
             /\ \A j \in jobs' : JobType(j) /\ j.attempt <= max_attempts
  <2>1. m.group \in Groups /\ m.attempt \in Nat /\ m.attempt < max_attempts
    BY TypeSplit DEF LoopInv, MessagesOK, MessagesBounded, Messages, MessageType
  <2>2. m.attempt + 1 \in Nat \ {0} /\ m.attempt + 1 <= max_attempts
    BY <2>1, ConstantFacts
  <2>3. JobType(Resubmitted(m)) /\ Resubmitted(m).attempt <= max_attempts
    BY <1>0, <2>1, <2>2, NextJobType DEF Resubmitted
  <2>4. jobs' = jobs \cup {Resubmitted(m)}
    BY <1>1 DEF Submit
  <2>5. IsFiniteSet(jobs')
    BY <1>0, <2>4, FS_AddElement
  <2> QED
    BY <1>0, <2>3, <2>4, <2>5
<1>2. CASE UNCHANGED jobs
  BY <1>0, <1>2
<1>3. ASSUME NEW m \in batch, ResubmitJob(m) \/ FailResubmit(m)
      PROVE  Submit(Resubmitted(m)) \/ UNCHANGED jobs
  BY <1>3 DEF ResubmitJob, FailResubmit
<1>4. ASSUME \/ Batch \/ MonitorLambda \/ SQS \/ ReportFailures \/ CrashResubmit
             \/ \E i \in pending : DeadLetterEvent(i) \/ FailMonitor(i)
             \/ \E ev \in ended : DuplicateEvent(ev)
             \/ UNCHANGED vars
      PROVE  UNCHANGED jobs
  BY <1>4 DEF Batch, EndJob, MonitorLambda, Monitor, SQS, ReceiveBatch, Redrive,
     ReportFailures, CrashResubmit, DeadLetterEvent, FailMonitor, DuplicateEvent, vars
<1> QED
  BY <1>1, <1>2, <1>3, <1>4 DEF Next, ResubmitLambda, Faults

\* What is pending after a step was, was retried, or is new.
LEMMA PendingStep ==
    ASSUME LoopInv, [Next]_vars
    PROVE  EventsOK' /\ (\A i \in pending' : i = [event |-> i.event, tries |-> i.tries])
<1>0. /\ EventsOK /\ jobs \subseteq jobs' /\ async_retries \in Nat
      /\ \A i \in pending : i = [event |-> i.event, tries |-> i.tries]
  BY TypeSplit, JobsStep, ConstantFacts DEF LoopInv, ShapeOK
<1>1. \A ev : EventType(ev) => EventType(ev)'
  BY <1>0 DEF EventType
<1>2. CASE /\ pending' \subseteq pending /\ ended' = ended
           /\ failure_dlq' \cup event_dlq' \cup discarded' \subseteq
                 failure_dlq \cup event_dlq \cup discarded \cup {i.event : i \in pending}
  BY <1>0, <1>1, <1>2 DEF EventsOK
<1>3. ASSUME NEW ev, EventType(ev)', pending' = pending \cup {Arriving(ev)},
             ended' \subseteq ended \cup {ev}, UNCHANGED <<failure_dlq, event_dlq, discarded>>
      PROVE  EventsOK' /\ (\A i \in pending' : i = [event |-> i.event, tries |-> i.tries])
  BY <1>0, <1>1, <1>3 DEF EventsOK, Arriving
<1>4. CASE Batch
  <2>1. PICK job \in jobs, s \in Outcomes : EndJob(job, s)
    BY <1>4 DEF Batch
  <2>2. EventType(Event(job, s))'
    BY <1>0 DEF EventType, Event
  <2> QED
    BY <1>3, <2>1, <2>2 DEF EndJob, dlqs
<1>5. ASSUME NEW m \in batch, ResubmitJob(m) \/ FailResubmit(m)
      PROVE  EventsOK' /\ (\A i \in pending' : i = [event |-> i.event, tries |-> i.tries])
  <2>1. CASE Submit(Resubmitted(m))
    <3>0. PICK job : job = Resubmitted(m)
      OBVIOUS
    <3>1. pending' = pending \cup {Arriving(Event(job, AWAITING))} /\ job \in jobs'
      BY <2>1, <3>0 DEF Submit
    <3>2. EventType(Event(job, AWAITING))'
      BY <3>1 DEF EventType, Event
    <3> QED
      BY <1>3, <1>5, <3>1, <3>2 DEF ResubmitJob, FailResubmit, dlqs
  <2>2. CASE UNCHANGED pending
    BY <1>2, <1>5, <2>2 DEF ResubmitJob, FailResubmit, dlqs
  <2> QED
    BY <1>5, <2>1, <2>2 DEF ResubmitJob, FailResubmit
<1>6. ASSUME NEW i \in pending, DeadLetterEvent(i)
      PROVE  EventsOK' /\ (\A k \in pending' : k = [event |-> k.event, tries |-> k.tries])
  BY <1>2, <1>6 DEF DeadLetterEvent
<1>7. ASSUME NEW ev \in ended, DuplicateEvent(ev)
      PROVE  EventsOK' /\ (\A i \in pending' : i = [event |-> i.event, tries |-> i.tries])
  <2>1. EventType(ev)'
    BY <1>0, <1>1 DEF EventsOK
  <2> QED
    BY <1>3, <1>7, <2>1 DEF DuplicateEvent, dlqs
<1>8. ASSUME NEW i \in pending, Route(i.event)
      PROVE  failure_dlq' \subseteq failure_dlq \cup {i.event}
  BY <1>8 DEF Route
<1>9. ASSUME NEW i \in pending, Monitor(i)
      PROVE  EventsOK' /\ (\A k \in pending' : k = [event |-> k.event, tries |-> k.tries])
  BY <1>2, <1>8, <1>9 DEF Monitor
<1>10. ASSUME NEW i \in pending, FailMonitor(i)
       PROVE  EventsOK' /\ (\A k \in pending' : k = [event |-> k.event, tries |-> k.tries])
  <2>1. failure_dlq' \subseteq failure_dlq \cup {i.event}
    BY <1>8, <1>10 DEF FailMonitor
  <2>2. ended' = ended /\ event_dlq' = event_dlq
    BY <1>10 DEF FailMonitor
  <2>3. CASE i.tries < async_retries
    <3> DEFINE k == [event |-> i.event, tries |-> i.tries + 1]
    <3>1. [i EXCEPT !.tries = @ + 1] = k
      <4> DEFINE r == [event |-> i.event, tries |-> i.tries]
      <4>1. [r EXCEPT !.tries = @ + 1] = k
        OBVIOUS
      <4> QED
        BY <1>0, <4>1
    <3>2. pending' = (pending \ {i}) \cup {k} /\ discarded' = discarded
      BY <1>10, <2>3, <3>1 DEF FailMonitor
    <3>3. EventType(i.event)' /\ i.tries + 1 \in 0..async_retries
      BY <1>0, <1>1, <2>3 DEF EventsOK
    <3> QED
      BY <1>0, <1>1, <2>1, <2>2, <3>2, <3>3 DEF EventsOK
  <2>4. CASE ~(i.tries < async_retries)
    <3>1. pending' = pending \ {i} /\ discarded' = discarded \cup {i.event}
      BY <1>10, <2>4 DEF FailMonitor
    <3> QED
      BY <1>2, <2>1, <2>2, <3>1
  <2> QED
    BY <2>3, <2>4
<1>11. ASSUME SQS \/ ReportFailures \/ CrashResubmit \/ UNCHANGED vars
       PROVE  UNCHANGED <<pending, ended, failure_dlq, event_dlq, discarded>>
  BY <1>11 DEF SQS, ReceiveBatch, Redrive, ReportFailures, CrashResubmit, vars, dlqs
<1> QED
  BY <1>2, <1>4, <1>5, <1>6, <1>7, <1>9, <1>10, <1>11
     DEF Next, MonitorLambda, ResubmitLambda, Faults

\* A step only moves faults within the bound.
LEMMA FaultsStep ==
    ASSUME LoopInv, [Next]_vars
    PROVE  faults' \in 0..MaxFaults /\ (faults' = faults \/ faults' = faults + 1)
<1>0. faults \in 0..MaxFaults
  BY DEF LoopInv, TypeOK
<1>1. UNCHANGED faults \/ Fault
  BY DEF Next, Batch, EndJob, MonitorLambda, Monitor, SQS, ReceiveBatch, Redrive,
     ResubmitLambda, ReportFailures, ResubmitJob, Faults, DeadLetterEvent, DuplicateEvent,
     FailMonitor, FailResubmit, CrashResubmit, vars
<1> QED
  BY <1>0, <1>1, ConstantFacts DEF Fault

-----------------------------------------------------------------------------
(* Bounds, pointers and retries *)

\* Every message after a step was there before, up to its receives, or asks for
\* the next attempt of a retryable failure that is not the last.
LEMMA MessagesBoundedStep ==
    ASSUME LoopInv, [Next]_vars
    PROVE  /\ sent' \in Nat
           /\ \A m \in Messages' :
                 /\ m = [id |-> m.id, group |-> m.group, attempt |-> m.attempt,
                         receives |-> m.receives]
                 /\ m.attempt \in Nat /\ m.attempt < max_attempts
<1> DEFINE Good(m) ==
      /\ m = [id |-> m.id, group |-> m.group, attempt |-> m.attempt, receives |-> m.receives]
      /\ m.attempt \in Nat /\ m.attempt < max_attempts
<1>0. /\ sent \in Nat /\ \A m \in Messages : Good(m)
      /\ EventsOK /\ (\A j \in jobs : JobType(j)) /\ MessagesOK
  BY TypeSplit DEF LoopInv, ShapeOK, MessagesBounded
<1>1. CASE UNCHANGED sent /\ Messages' \subseteq Messages
  BY <1>0, <1>1
<1>2. ASSUME NEW i \in pending, Route(i.event), UNCHANGED <<batch, retry_dlq>>
      PROVE  sent' \in Nat /\ \A m \in Messages' : Good(m)
  <2>0. PICK e : e = i.event
    OBVIOUS
  <2>1. EventType(e) /\ JobType(e.job) /\ Route(e)
    BY <1>0, <1>2, <2>0 DEF EventsOK, EventType
  <2>2. sent' \in Nat
    BY <2>1, RouteSends
  <2>3. \/ retry_queue' = retry_queue
        \/ /\ goes_to_retry_queue(e.state, e.job.attempt, max_attempts)
           /\ retry_queue' = retry_queue \cup
                {[id |-> sent + 1, group |-> e.job.group, attempt |-> e.job.attempt,
                  receives |-> 0]}
    BY <2>1, RouteSends
  <2>4. e.job.attempt \in Nat
    BY <2>1 DEF JobType
  <2>5. goes_to_retry_queue(e.state, e.job.attempt, max_attempts) => e.job.attempt < max_attempts
    BY <2>4, OutcomeFacts
  <2> QED
    BY <1>0, <1>2, <2>2, <2>3, <2>4, <2>5 DEF Messages
<1>3. ASSUME NEW i \in pending, Monitor(i) \/ FailMonitor(i)
      PROVE  sent' \in Nat /\ \A m \in Messages' : Good(m)
  <2>1. /\ UNCHANGED <<batch, retry_dlq>>
        /\ Route(i.event) \/ UNCHANGED <<retry_queue, sent>>
    BY <1>3 DEF Monitor, FailMonitor
  <2> QED
    BY <1>1, <1>2, <2>1 DEF Messages
<1>4. CASE ReceiveBatch
  <2>1. PICK received \in SUBSET {m \in retry_queue : m.receives < max_receive_count} :
           /\ retry_queue' = retry_queue \ received
           /\ batch' = {Receives(m) : m \in received}
    BY <1>4 DEF ReceiveBatch
  <2>2. UNCHANGED <<retry_dlq, sent>>
    BY <1>4 DEF ReceiveBatch, dlqs
  <2>3. ASSUME NEW m \in received PROVE Good(Receives(m))
    <3>1. m \in Messages
      BY <2>1 DEF Messages
    <3> QED
      BY <1>0, <3>1, ReceivesFields
  <2>4. \A m \in Messages' : m \in Messages \/ \E n \in received : m = Receives(n)
    BY <2>1, <2>2 DEF Messages
  <2> QED
    BY <1>0, <2>2, <2>3, <2>4
<1>5. ASSUME NEW m \in retry_queue, Redrive(m) PROVE UNCHANGED sent /\ Messages' \subseteq Messages
  BY <1>5 DEF Redrive, Messages
<1>6. ASSUME \/ Batch \/ ResubmitLambda \/ CrashResubmit \/ UNCHANGED vars
             \/ \E i \in pending : DeadLetterEvent(i)
             \/ \E ev \in ended : DuplicateEvent(ev)
             \/ \E m \in batch : FailResubmit(m)
      PROVE  UNCHANGED sent /\ Messages' \subseteq Messages
  BY <1>0, <1>6 DEF Batch, EndJob, ResubmitLambda, ReportFailures, ResubmitJob, CrashResubmit,
     DeadLetterEvent, DuplicateEvent, FailResubmit, vars, resubmission, dlqs, Messages, MessagesOK
<1> QED
  BY <1>1, <1>3, <1>4, <1>5, <1>6 DEF Next, MonitorLambda, SQS, Faults

\* A pointer is of an attempt that has a job, before and after the monitor
\* writes it.
LEMMA PointersStep ==
    ASSUME LoopInv, [Next]_vars
    PROVE  /\ DOMAIN pointer' = Groups /\ pointer' = [g \in Groups |-> pointer'[g]]
           /\ \A g \in Groups : pointer'[g].attempt \in Nat
           /\ PointersReported'
<1>0. /\ EventsOK /\ jobs \subseteq jobs' /\ \A j \in jobs : JobType(j)
      /\ DOMAIN pointer = Groups /\ pointer = [g \in Groups |-> pointer[g]]
      /\ \A g \in Groups : pointer[g].attempt \in Nat
      /\ PointersReported
  BY TypeSplit, JobsStep DEF LoopInv, ShapeOK
<1>1. CASE UNCHANGED pointer
  BY <1>0, <1>1 DEF PointersReported
<1>2. ASSUME NEW i \in pending, WritePointer(i.event)
      PROVE  /\ DOMAIN pointer' = Groups /\ pointer' = [g \in Groups |-> pointer'[g]]
             /\ \A g \in Groups : pointer'[g].attempt \in Nat
             /\ PointersReported'
  <2>0. PICK e : e = i.event
    OBVIOUS
  <2>1. e.job \in jobs /\ e.job.group \in Groups /\ e.job.attempt \in Nat
    BY <1>0, <2>0 DEF EventsOK, EventType, JobType
  <2>2. \/ UNCHANGED pointer
        \/ pointer' = [pointer EXCEPT ![e.job.group] =
                          [state |-> e.state, attempt |-> e.job.attempt]]
    BY <1>2, <2>0 DEF WritePointer
  <2>3. CASE ~UNCHANGED pointer
    <3>1. \A g \in Groups : pointer'[g] = IF g = e.job.group
                                         THEN [state |-> e.state, attempt |-> e.job.attempt]
                                         ELSE pointer[g]
      BY <1>0, <2>2, <2>3
    <3>2. \A g \in Groups : pointer'[g].attempt =
                               IF g = e.job.group THEN e.job.attempt ELSE pointer[g].attempt
      BY <3>1
    <3>3. DOMAIN pointer' = Groups /\ pointer' = [g \in Groups |-> pointer'[g]]
      BY <1>0, <2>2, <2>3
    <3> QED
      BY <1>0, <2>1, <3>2, <3>3 DEF PointersReported
  <2> QED
    BY <1>1, <2>3
<1>3. ASSUME \/ Batch \/ SQS \/ ResubmitLambda \/ CrashResubmit \/ UNCHANGED vars
             \/ \E i \in pending : DeadLetterEvent(i)
             \/ \E ev \in ended : DuplicateEvent(ev)
             \/ \E m \in batch : FailResubmit(m)
      PROVE  UNCHANGED pointer
  BY <1>3 DEF Batch, EndJob, SQS, ReceiveBatch, Redrive, ResubmitLambda, ReportFailures,
     ResubmitJob, CrashResubmit, DeadLetterEvent, DuplicateEvent, FailResubmit, vars
<1>4. ASSUME NEW i \in pending, Monitor(i) \/ FailMonitor(i)
      PROVE  WritePointer(i.event) \/ UNCHANGED pointer
  BY <1>4 DEF Monitor, FailMonitor
<1> QED
  BY <1>1, <1>2, <1>3, <1>4 DEF Next, MonitorLambda, Faults

\* A message counts as submitted only with its job.
LEMMA SubmittedStep ==
    ASSUME LoopInv, [Next]_vars
    PROVE  SubmittedIsRetried'
<1>0. /\ jobs \subseteq jobs' /\ SubmittedIsRetried /\ IsFiniteSet(jobs)
  BY JobsStep DEF LoopInv, ShapeOK
<1>1. CASE submitted' \subseteq submitted
  BY <1>0, <1>1 DEF SubmittedIsRetried
<1>2. ASSUME NEW m \in batch, ResubmitJob(m) PROVE SubmittedIsRetried'
  <2>1. m.group \in Groups /\ m.attempt + 1 \in Nat \ {0}
    BY TypeSplit DEF LoopInv, MessagesOK, MessagesBounded, Messages, MessageType
  <2>2. PICK job : job = Resubmitted(m)
    OBVIOUS
  <2>3. NextAttempt(m, job)
    BY <1>0, <2>1, <2>2, NextJobType DEF Resubmitted, NextAttempt
  <2>4. job \in jobs' /\ submitted' = submitted \cup {m}
    BY <1>2, <2>2 DEF ResubmitJob, Submit
  <2> QED
    BY <1>0, <2>3, <2>4 DEF SubmittedIsRetried
<1>3. ASSUME \/ Batch \/ MonitorLambda \/ SQS \/ ReportFailures \/ CrashResubmit
             \/ \E i \in pending : DeadLetterEvent(i) \/ FailMonitor(i)
             \/ \E ev \in ended : DuplicateEvent(ev)
             \/ \E m \in batch : FailResubmit(m)
             \/ UNCHANGED vars
      PROVE  submitted' \subseteq submitted
  BY <1>3 DEF Batch, EndJob, MonitorLambda, Monitor, SQS, ReceiveBatch, Redrive, FailResubmit,
     ReportFailures, CrashResubmit, DeadLetterEvent, FailMonitor, DuplicateEvent, vars,
     resubmission
<1> QED
  BY <1>1, <1>2, <1>3 DEF Next, ResubmitLambda, Faults

-----------------------------------------------------------------------------
(* Every failure is accounted for *)

Accounted(ev) ==
    Delivering(ev) \/ Retrying(ev) \/ Retried(ev) \/ DeadLettered(ev) \/ ev \in discarded

\* The monitor leaves a failure in the retry queue or the failure DLQ, unless the
\* group has moved on: the pointer it found newer is of a job.
LEMMA RoutedIsAccounted ==
    ASSUME LoopInv, NEW ev, EventType(ev), Fails(ev), Route(ev), batch' = batch
    PROVE  Retried(ev) \/ Retrying(ev)' \/ ev \in failure_dlq'
<1>0. /\ ev.job.group \in Groups /\ ev.job.attempt \in Nat /\ ev.job.attempt > 0
      /\ rank(ev.state) = 2 /\ \A s : rank(s) \in Nat /\ rank(s) <= 2
  <2>1. ev.job.group \in Groups /\ ev.job.attempt \in Nat /\ ev.job.attempt > 0
    BY TypeSplit DEF LoopInv, EventType, JobType
  <2>2. \A s : rank(s) \in Nat /\ rank(s) <= 2
    BY DEF rank
  <2> QED
    BY <2>1, <2>2, OutcomeFacts DEF Fails
<1>1. CASE OutOfOrder(ev)
  <2>1. PICK old : old = pointer[ev.job.group]
    OBVIOUS
  <2>2. old.attempt \in Nat /\ old.attempt > ev.job.attempt
    BY <1>0, <1>1, <2>1 DEF OutOfOrder, LoopInv, ShapeOK
  <2>3. PICK j \in jobs : j.group = ev.job.group /\ j.attempt = old.attempt
    BY <1>0, <2>1, <2>2 DEF LoopInv, PointersReported
  <2> QED
    BY <2>2, <2>3 DEF Retried
<1>2. CASE ~OutOfOrder(ev) /\ goes_to_failure_dlq(ev.state, ev.job.attempt, max_attempts)
  BY <1>2, RouteSends
<1>3. CASE ~OutOfOrder(ev) /\ goes_to_retry_queue(ev.state, ev.job.attempt, max_attempts)
  <2> DEFINE m == [id |-> sent + 1, group |-> ev.job.group, attempt |-> ev.job.attempt,
                   receives |-> 0]
  <2>1. retry_queue' = retry_queue \cup {m}
    BY <1>3 DEF Route
  <2>2. m \in retry_queue' /\ m.group = ev.job.group /\ m.attempt = ev.job.attempt
    BY <2>1
  <2> QED
    BY <2>2 DEF Retrying
<1> QED
  BY <1>1, <1>2, <1>3 DEF Fails

\* What has become of a failure stays true of it: jobs are never withdrawn, and
\* nothing leaves a dead-letter queue.
LEMMA SettledStays ==
    ASSUME LoopInv, [Next]_vars, NEW ev
    PROVE  /\ Retried(ev) => Retried(ev)'
           /\ DeadLettered(ev) => DeadLettered(ev)'
           /\ ev \in discarded => ev \in discarded'
<1>1. jobs \subseteq jobs'
  BY JobsStep
<1>2. /\ failure_dlq \subseteq failure_dlq' /\ event_dlq \subseteq event_dlq'
      /\ retry_dlq \subseteq retry_dlq' /\ discarded \subseteq discarded'
  <2>1. ASSUME NEW i \in pending, Route(i.event) PROVE failure_dlq \subseteq failure_dlq'
    BY <2>1 DEF Route
  <2>2. ASSUME NEW i \in pending, Monitor(i) \/ FailMonitor(i) \/ DeadLetterEvent(i)
        PROVE  /\ failure_dlq \subseteq failure_dlq' /\ event_dlq \subseteq event_dlq'
               /\ retry_dlq \subseteq retry_dlq' /\ discarded \subseteq discarded'
    BY <2>1, <2>2 DEF Monitor, FailMonitor, DeadLetterEvent
  <2>3. ASSUME \/ Batch \/ SQS \/ ResubmitLambda \/ CrashResubmit \/ UNCHANGED vars
               \/ \E e \in ended : DuplicateEvent(e)
               \/ \E m \in batch : FailResubmit(m)
        PROVE  UNCHANGED <<failure_dlq, event_dlq, discarded>> /\ retry_dlq \subseteq retry_dlq'
    BY <2>3 DEF Batch, EndJob, SQS, ReceiveBatch, Redrive, ResubmitLambda, ReportFailures,
       ResubmitJob, CrashResubmit, DuplicateEvent, FailResubmit, vars, dlqs
  <2> QED
    BY <2>2, <2>3 DEF Next, MonitorLambda, Faults
<1> QED
  BY <1>1, <1>2 DEF Retried, DeadLettered

\* A failure in a queue stays there or in the batch, is redriven, or has been
\* submitted when SQS deletes it.
LEMMA RetryingStep ==
    ASSUME LoopInv, [Next]_vars, NEW ev, Retrying(ev)
    PROVE  Accounted(ev)'
<1>0. PICK m \in retry_queue \cup batch : m.group = ev.job.group /\ m.attempt = ev.job.attempt
  BY DEF Retrying
<1>1. CASE m \in retry_queue' \cup batch'
  BY <1>0, <1>1 DEF Accounted, Retrying
<1>2. CASE ReceiveBatch
  <2>1. PICK received \in SUBSET {n \in retry_queue : n.receives < max_receive_count} :
           /\ retry_queue' = retry_queue \ received
           /\ batch' = {Receives(n) : n \in received}
    BY <1>2 DEF ReceiveBatch
  <2>2. CASE m \in received
    <3>1. Receives(m) = [id |-> m.id, group |-> m.group, attempt |-> m.attempt,
                         receives |-> m.receives + 1]
      BY ReceivesFields DEF Messages
    <3>2. Receives(m).group = ev.job.group /\ Receives(m).attempt = ev.job.attempt
      BY <1>0, <3>1
    <3>3. Receives(m) \in batch'
      BY <2>1, <2>2
    <3> QED
      BY <3>2, <3>3 DEF Accounted, Retrying
  <2> QED
    BY <1>1, <1>2, <2>1, <2>2 DEF ReceiveBatch
<1>3. ASSUME NEW n \in retry_queue, Redrive(n) PROVE Accounted(ev)'
  BY <1>0, <1>1, <1>3 DEF Redrive, Accounted, DeadLettered
<1>4. CASE ReportFailures
  <2>1. CASE m \in submitted
    <3>1. PICK j \in jobs : NextAttempt(m, j)
      BY <2>1 DEF LoopInv, SubmittedIsRetried
    <3>2. m.attempt \in Nat
      BY DEF LoopInv, MessagesBounded, Messages
    <3>3. Retried(ev)
      BY <1>0, <3>1, <3>2 DEF NextAttempt, Retried
    <3> QED
      BY <3>3, SettledStays DEF Accounted
  <2> QED
    BY <1>1, <1>4, <2>1 DEF ReportFailures, Unprocessed
<1>5. ASSUME NEW i \in pending, Monitor(i) \/ FailMonitor(i) PROVE m \in retry_queue' \cup batch'
  BY <1>5 DEF Monitor, FailMonitor, Route
<1>6. ASSUME \/ Batch \/ CrashResubmit \/ UNCHANGED vars
             \/ \E i \in pending : DeadLetterEvent(i)
             \/ \E e \in ended : DuplicateEvent(e)
             \/ \E n \in batch : ResubmitJob(n) \/ FailResubmit(n)
      PROVE  m \in retry_queue' \cup batch'
  BY <1>6 DEF Batch, EndJob, CrashResubmit, DeadLetterEvent, DuplicateEvent, ResubmitJob,
     FailResubmit, vars, resubmission
<1> QED
  BY <1>1, <1>2, <1>3, <1>4, <1>5, <1>6 DEF Next, MonitorLambda, SQS, ResubmitLambda, Faults

\* An event on its way arrives and is routed, is tried again, or is given up where
\* it can be seen.
LEMMA DeliveringStep ==
    ASSUME LoopInv, [Next]_vars, NEW ev, Delivering(ev), Fails(ev)
    PROVE  Accounted(ev)'
<1>0. PICK i \in pending : i.event = ev
  BY DEF Delivering
<1>1. EventType(ev)
  BY <1>0, TypeSplit DEF LoopInv, EventsOK
<1>2. CASE i \in pending'
  BY <1>0, <1>2 DEF Accounted, Delivering
<1>3. ASSUME Route(ev), batch' = batch PROVE Accounted(ev)'
  <2>1. Retried(ev) \/ Retrying(ev)' \/ ev \in failure_dlq'
    BY <1>1, <1>3, RoutedIsAccounted
  <2> QED
    BY <2>1, SettledStays DEF Accounted, DeadLettered
<1>4. ASSUME NEW k \in pending, Monitor(k) PROVE Accounted(ev)'
  BY <1>0, <1>2, <1>3, <1>4 DEF Monitor
<1>5. ASSUME NEW k \in pending, FailMonitor(k) PROVE Accounted(ev)'
  <2>1. CASE k = i /\ i.tries < async_retries
    <3>1. [i EXCEPT !.tries = @ + 1] \in pending'
      BY <1>5, <2>1 DEF FailMonitor
    <3>2. [i EXCEPT !.tries = @ + 1].event = ev
      <4>1. i = [event |-> i.event, tries |-> i.tries]
        BY DEF LoopInv, ShapeOK
      <4> DEFINE r == [event |-> i.event, tries |-> i.tries]
      <4>2. [r EXCEPT !.tries = @ + 1].event = i.event
        OBVIOUS
      <4> QED
        BY <1>0, <4>1, <4>2
    <3> QED
      BY <3>1, <3>2 DEF Accounted, Delivering
  <2>2. CASE k = i /\ ~(i.tries < async_retries)
    BY <1>0, <1>5, <2>2 DEF FailMonitor, Accounted
  <2>3. CASE k # i
    BY <1>2, <1>5, <2>3 DEF FailMonitor
  <2> QED
    BY <2>1, <2>2, <2>3
<1>6. ASSUME NEW k \in pending, DeadLetterEvent(k) PROVE Accounted(ev)'
  BY <1>0, <1>2, <1>6 DEF DeadLetterEvent, Accounted, DeadLettered
<1>7. ASSUME \/ Batch \/ SQS \/ ResubmitLambda \/ CrashResubmit \/ UNCHANGED vars
             \/ \E e \in ended : DuplicateEvent(e)
             \/ \E n \in batch : FailResubmit(n)
      PROVE  i \in pending'
  BY <1>7 DEF Batch, EndJob, SQS, ReceiveBatch, Redrive, ResubmitLambda, ReportFailures,
     ResubmitJob, CrashResubmit, DuplicateEvent, FailResubmit, Submit, vars
<1> QED
  BY <1>2, <1>4, <1>5, <1>6, <1>7 DEF Next, MonitorLambda, Faults

LEMMA FailureAccountedStep ==
    ASSUME LoopInv, [Next]_vars
    PROVE  FailureAccounted'
<1>1. \A ev \in ended' : Fails(ev) => Accounted(ev)'
  <2> TAKE ev \in ended'
  <2> HAVE Fails(ev)
  <2>1. CASE ev \in ended
    <3>1. Accounted(ev)
      BY <2>1 DEF LoopInv, FailureAccounted, Accounted
    <3>2. CASE Retried(ev) \/ DeadLettered(ev) \/ ev \in discarded
      BY <3>2, SettledStays DEF Accounted
    <3> QED
      BY <3>1, <3>2, RetryingStep, DeliveringStep DEF Accounted
  <2>2. CASE ev \notin ended
    <3>1. Batch
      BY <2>2 DEF Next, MonitorLambda, Monitor, SQS, ReceiveBatch, Redrive, ResubmitLambda,
         ReportFailures, ResubmitJob, Faults, DeadLetterEvent, DuplicateEvent, FailMonitor,
         FailResubmit, CrashResubmit, vars
    <3>2. Arriving(ev) \in pending'
      BY <2>2, <3>1 DEF Batch, EndJob
    <3> QED
      BY <3>2 DEF Accounted, Delivering, Arriving
  <2> QED
    BY <2>1, <2>2
<1> QED
  BY <1>1 DEF FailureAccounted, Accounted, Fails

-----------------------------------------------------------------------------
(* Until a fault, everything happens once and in order *)

InOrder ==
    /\ reported = {}
    /\ JobsOnce /\ EndsOnce /\ RetriesFollow /\ MessagesFollow /\ MessagesOnce
    /\ UnsubmittedIsWaiting /\ PendingIsUnrouted

\* The types the order relies on.
LEMMA AttemptTypes ==
    ASSUME LoopInv
    PROVE  /\ \A j \in jobs : j.attempt \in Nat /\ j.attempt >= 1 /\ j.group \in Groups
           /\ \A m \in Messages : m.attempt \in Nat /\ m.group \in Groups
           /\ \A ev \in ended : ev.job \in jobs
           /\ \A i \in pending : i.event.job \in jobs
           /\ \A i \in pending : i = [event |-> i.event, tries |-> i.tries]
           /\ submitted \subseteq batch /\ batch \cap retry_queue = {}
<1>1. /\ \A j \in jobs : JobType(j)
      /\ EventsOK /\ MessagesOK /\ MessagesBounded /\ ShapeOK
  BY TypeSplit DEF LoopInv
<1>2. \A j \in jobs : j.attempt \in Nat /\ j.attempt >= 1 /\ j.group \in Groups
  BY <1>1 DEF JobType
<1>3. \A m \in Messages : m.attempt \in Nat /\ m.group \in Groups
  BY <1>1 DEF MessagesBounded, MessagesOK, MessageType
<1>4. /\ \A ev \in ended : ev.job \in jobs
      /\ \A i \in pending : i.event.job \in jobs
      /\ \A i \in pending : i = [event |-> i.event, tries |-> i.tries]
  BY <1>1 DEF EventsOK, EventType, ShapeOK
<1>5. submitted \subseteq batch /\ batch \cap retry_queue = {}
  BY <1>1 DEF MessagesOK
<1> QED
  BY <1>2, <1>3, <1>4, <1>5

\* A job that ends had not: its event is the first of its attempt.
LEMMA EndsInOrder ==
    ASSUME LoopInv, InOrder, NEW job \in jobs, NEW s \in Outcomes, EndJob(job, s)
    PROVE  InOrder'
<1>0. /\ ended' = ended \cup {Event(job, s)} /\ ~HasEnded(job)
      /\ pending' = pending \cup {Arriving(Event(job, s))}
      /\ UNCHANGED <<jobs, retry_queue, batch, submitted, reported>>
  BY DEF EndJob, resubmission
<1>e. PICK e : e = Event(job, s)
  OBVIOUS
<1>1. e = Event(job, s) /\ e.job = job
  BY <1>e DEF Event
<1>2. ended' = ended \cup {e} /\ \A ev \in ended : ev.job # job
  BY <1>0, <1>1 DEF HasEnded
<1>3. EndsOnce'
  BY <1>1, <1>2 DEF InOrder, EndsOnce
<1>4. RetriesFollow' /\ MessagesFollow'
  BY <1>0, <1>2 DEF InOrder, RetriesFollow, MessagesFollow
<1>5. \A m \in retry_queue \cup batch : ~SameAttempt(job, m)
  <2> SUFFICES ASSUME NEW m \in retry_queue \cup batch, SameAttempt(job, m) PROVE FALSE
    OBVIOUS
  <2>1. PICK ev \in ended : SameAttempt(ev.job, m)
    BY DEF InOrder, MessagesFollow
  <2>2. ev.job = job
    BY <2>1, AttemptTypes DEF SameAttempt, InOrder, JobsOnce
  <2> QED
    BY <1>2, <2>2
<1>6. \A j \in jobs : ~NextAttempt(job, j)
  <2> SUFFICES ASSUME NEW j \in jobs, NextAttempt(job, j) PROVE FALSE
    OBVIOUS
  <2>1. j.attempt > 1
    BY AttemptTypes DEF NextAttempt
  <2>2. PICK ev \in ended : NextAttempt(ev.job, j)
    BY <2>1 DEF InOrder, RetriesFollow
  <2>3. SameAttempt(ev.job, job)
    BY <2>2, AttemptTypes DEF NextAttempt, SameAttempt
  <2> QED
    BY <1>2, <2>3, AttemptTypes DEF InOrder, JobsOnce
<1>7. PendingIsUnrouted'
  <2>1. \A i \in pending' : i \in pending \/ (i.event = e /\ i.tries = 0)
    BY <1>0, <1>1 DEF Arriving
  <2> QED
    BY <1>0, <1>1, <1>2, <1>5, <1>6, <2>1 DEF InOrder, PendingIsUnrouted
<1> QED
  BY <1>0, <1>3, <1>4, <1>7
     DEF InOrder, JobsOnce, MessagesOnce, UnsubmittedIsWaiting

\* An outcome that is routed has no message yet, and no other event of its job
\* is on its way.
LEMMA MonitorsInOrder ==
    ASSUME LoopInv, InOrder, NEW i \in pending, Monitor(i)
    PROVE  InOrder'
<1>0. /\ pending' = pending \ {i} /\ Route(i.event)
      /\ UNCHANGED <<jobs, ended, batch, submitted, reported>>
  BY DEF Monitor
<1>1. PICK e : e = i.event
  OBVIOUS
<1>2. EventType(e)
  BY <1>1, TypeSplit DEF LoopInv, EventsOK
<1>3. CASE retry_queue' = retry_queue
  BY <1>0, <1>3 DEF InOrder, JobsOnce, EndsOnce, RetriesFollow, MessagesFollow, MessagesOnce,
     UnsubmittedIsWaiting, PendingIsUnrouted
<1>4. CASE retry_queue' # retry_queue
  <2> DEFINE m == [id |-> sent + 1, group |-> e.job.group, attempt |-> e.job.attempt,
                   receives |-> 0]
  <2>1. /\ goes_to_retry_queue(e.state, e.job.attempt, max_attempts)
        /\ retry_queue' = retry_queue \cup {m}
    BY <1>0, <1>1, <1>2, <1>4, RouteSends
  <2>2. rank(e.state) = 2
    BY <1>1, <2>1, AttemptTypes, OutcomeFacts
  <2>3. SameAttempt(e.job, m) /\ m.group = e.job.group /\ m.attempt = e.job.attempt
    BY DEF SameAttempt
  <2> HIDE DEF m
  <2>4. /\ e \in ended /\ i.tries = 0
        /\ \A n \in retry_queue \cup batch : ~SameAttempt(e.job, n)
        /\ \A j \in jobs : ~NextAttempt(e.job, j)
    BY <1>1, <2>2 DEF InOrder, PendingIsUnrouted
  <2>5. MessagesFollow'
    BY <1>0, <2>1, <2>3, <2>4 DEF InOrder, MessagesFollow
  <2>6. MessagesOnce'
    BY <1>0, <2>1, <2>3, <2>4 DEF InOrder, MessagesOnce, SameAttempt
  <2>7. UnsubmittedIsWaiting'
    BY <1>0, <2>1, <2>3, <2>4 DEF InOrder, UnsubmittedIsWaiting, NextAttempt
  <2>8. ASSUME NEW k \in pending', rank(k.event.state) = 2 PROVE ~SameAttempt(k.event.job, m)
    <3> SUFFICES ASSUME SameAttempt(k.event.job, m) PROVE FALSE
      OBVIOUS
    <3>1. k \in pending /\ k # i
      BY <1>0
    <3>2. k.event \in ended /\ k.tries = 0
      BY <2>8, <3>1 DEF InOrder, PendingIsUnrouted
    <3>3. k.event.job = e.job
      BY <1>1, <2>3, <3>1, AttemptTypes DEF SameAttempt, InOrder, JobsOnce
    <3>4. k.event = e
      BY <2>4, <3>2, <3>3 DEF InOrder, EndsOnce
    <3>5. k = [event |-> e, tries |-> 0] /\ i = [event |-> e, tries |-> 0]
      BY <1>1, <2>4, <3>1, <3>2, <3>4, AttemptTypes
    <3> QED
      BY <3>1, <3>5
  <2>9. PendingIsUnrouted'
    BY <1>0, <2>1, <2>8 DEF InOrder, PendingIsUnrouted
  <2> QED
    BY <1>0, <2>5, <2>6, <2>7, <2>9 DEF InOrder, JobsOnce, EndsOnce, RetriesFollow
<1> QED
  BY <1>3, <1>4

\* A receive moves messages to the batch and leaves their attempts alone.
LEMMA ReceivesInOrder ==
    ASSUME LoopInv, InOrder, ReceiveBatch
    PROVE  InOrder'
<1>1. PICK received \in SUBSET {m \in retry_queue : m.receives < max_receive_count} :
         /\ retry_queue' = retry_queue \ received
         /\ batch' = {Receives(m) : m \in received}
  BY DEF ReceiveBatch
<1>2. /\ batch = {} /\ UNCHANGED <<jobs, ended, pending, submitted, reported>> /\ submitted = {}
  BY AttemptTypes DEF ReceiveBatch
<1>3. ASSUME NEW m \in received PROVE SameAttempt(m, Receives(m))
  <2>1. m \in Messages
    BY <1>1 DEF Messages
  <2>2. Receives(m) = [id |-> m.id, group |-> m.group, attempt |-> m.attempt,
                       receives |-> m.receives + 1]
    BY <2>1, ReceivesFields
  <2> QED
    BY <2>2 DEF SameAttempt
<1>4. \A n \in retry_queue' \cup batch' :
         \E m \in retry_queue : /\ SameAttempt(m, n)
                                /\ (m \notin received /\ n = m) \/ (m \in received /\ n = Receives(m))
  BY <1>1, <1>3 DEF SameAttempt
<1>5. MessagesFollow'
  BY <1>2, <1>4 DEF InOrder, MessagesFollow, SameAttempt
<1>6. MessagesOnce'
  <2> SUFFICES ASSUME NEW n \in retry_queue' \cup batch', NEW k \in retry_queue' \cup batch',
                      SameAttempt(n, k)
               PROVE  n = k
    BY DEF MessagesOnce
  <2>1. PICK m \in retry_queue :
           /\ SameAttempt(m, n)
           /\ (m \notin received /\ n = m) \/ (m \in received /\ n = Receives(m))
    BY <1>4
  <2>2. PICK l \in retry_queue :
           /\ SameAttempt(l, k)
           /\ (l \notin received /\ k = l) \/ (l \in received /\ k = Receives(l))
    BY <1>4
  <2>3. m = l
    BY <2>1, <2>2 DEF InOrder, MessagesOnce, SameAttempt
  <2> QED
    BY <2>1, <2>2, <2>3
<1>7. UnsubmittedIsWaiting'
  BY <1>2, <1>4 DEF InOrder, UnsubmittedIsWaiting, NextAttempt, SameAttempt
<1>8. PendingIsUnrouted'
  BY <1>2, <1>4 DEF InOrder, PendingIsUnrouted, SameAttempt
<1> QED
  BY <1>2, <1>5, <1>6, <1>7, <1>8 DEF InOrder, JobsOnce, EndsOnce, RetriesFollow

\* A message leaves the queue or the batch.
LEMMA DropsInOrder ==
    ASSUME LoopInv, InOrder, ReportFailures \/ \E m \in retry_queue : Redrive(m)
    PROVE  InOrder'
<1>1. /\ UNCHANGED <<jobs, ended, pending>> /\ reported' = {}
      /\ retry_queue' \cup batch' \subseteq retry_queue \cup batch
      /\ (retry_queue' \cup batch') \ submitted' \subseteq (retry_queue \cup batch) \ submitted
  <2>1. CASE ReportFailures
    BY <2>1, AttemptTypes DEF ReportFailures, InOrder
  <2>2. ASSUME NEW m \in retry_queue, Redrive(m)
        PROVE  /\ UNCHANGED <<jobs, ended, pending, batch, submitted, reported>>
               /\ retry_queue' \subseteq retry_queue
    BY <2>2 DEF Redrive
  <2> QED
    BY <2>1, <2>2 DEF InOrder
<1> QED
  BY <1>1 DEF InOrder, JobsOnce, EndsOnce, RetriesFollow, MessagesFollow, MessagesOnce,
     UnsubmittedIsWaiting, PendingIsUnrouted

\* A message is submitted when its next attempt has no job yet, and no other
\* message asks for that attempt.
LEMMA ResubmitsInOrder ==
    ASSUME LoopInv, InOrder, NEW m \in batch, ResubmitJob(m)
    PROVE  InOrder'
<1>1. PICK job : job = Resubmitted(m)
  OBVIOUS
<1>2. NextAttempt(m, job) /\ m \in Messages
  <2>1. m.group \in Groups /\ m.attempt + 1 \in Nat \ {0}
    BY AttemptTypes DEF Messages
  <2> QED
    BY <1>1, <2>1, NextJobType DEF Resubmitted, NextAttempt, LoopInv, ShapeOK, Messages
<1>3. /\ jobs' = jobs \cup {job} /\ submitted' = submitted \cup {m}
      /\ pending' = pending \cup {Arriving(Event(job, AWAITING))} /\ m \notin submitted
      /\ UNCHANGED <<ended, retry_queue, batch, reported>>
  BY <1>1 DEF ResubmitJob, Submit, Unprocessed
<1>4. \A i \in pending' : i \in pending \/ rank(i.event.state) = 1
  BY <1>3, ConstantFacts DEF Arriving, Event
<1>5. \A j \in jobs : ~NextAttempt(m, j)
  BY <1>3 DEF InOrder, UnsubmittedIsWaiting
<1>6. JobsOnce'
  BY <1>2, <1>3, <1>5 DEF InOrder, JobsOnce, SameAttempt, NextAttempt
<1>7. RetriesFollow'
  <2>1. PICK ev \in ended : SameAttempt(ev.job, m)
    BY DEF InOrder, MessagesFollow
  <2>2. NextAttempt(ev.job, job)
    BY <1>2, <2>1 DEF SameAttempt, NextAttempt
  <2> QED
    BY <1>3, <2>2 DEF InOrder, RetriesFollow
<1>8. UnsubmittedIsWaiting'
  <2> SUFFICES ASSUME NEW n \in (retry_queue \cup batch) \ submitted, n # m, NextAttempt(n, job)
               PROVE  FALSE
    BY <1>3 DEF InOrder, UnsubmittedIsWaiting
  <2>1. SameAttempt(n, m)
    <3>1. n.attempt \in Nat /\ m.attempt \in Nat
      BY <1>2, AttemptTypes DEF Messages
    <3> QED
      BY <1>2, <3>1 DEF NextAttempt, SameAttempt
  <2> QED
    BY <2>1 DEF InOrder, MessagesOnce
<1>9. PendingIsUnrouted'
  <2>1. ASSUME NEW i \in pending, NextAttempt(i.event.job, job) PROVE SameAttempt(i.event.job, m)
    <3>1. i.event.job.attempt \in Nat /\ m.attempt \in Nat
      BY <1>2, AttemptTypes
    <3> QED
      BY <1>2, <2>1, <3>1 DEF NextAttempt, SameAttempt
  <2> QED
    BY <1>3, <1>4, <2>1 DEF InOrder, PendingIsUnrouted
<1> QED
  BY <1>3, <1>6, <1>7, <1>8, <1>9 DEF InOrder, EndsOnce, MessagesFollow, MessagesOnce

LEMMA OnceInOrderStep ==
    ASSUME LoopInv, [Next]_vars
    PROVE  OnceInOrder'
<1> SUFFICES ASSUME faults' = 0 PROVE InOrder'
  BY DEF OnceInOrder, InOrder, JobsOnce, EndsOnce, RetriesFollow, MessagesFollow, MessagesOnce,
     UnsubmittedIsWaiting, PendingIsUnrouted
<1>1. faults \in Nat /\ ~Fault
  BY ConstantFacts DEF LoopInv, TypeOK, Fault
<1>2. InOrder
  <2>1. faults = 0
    BY <1>1, FaultsStep
  <2> QED
    BY <2>1 DEF LoopInv, OnceInOrder, InOrder
<1>3. ~Faults
  BY <1>1 DEF Faults, DeadLetterEvent, DuplicateEvent, FailMonitor, FailResubmit, CrashResubmit
<1>4. CASE UNCHANGED vars
  BY <1>2, <1>4 DEF InOrder, vars, resubmission, JobsOnce, EndsOnce, RetriesFollow,
     MessagesFollow, MessagesOnce, UnsubmittedIsWaiting, PendingIsUnrouted
<1> QED
  BY <1>2, <1>3, <1>4, EndsInOrder, MonitorsInOrder, ReceivesInOrder, DropsInOrder,
     ResubmitsInOrder
     DEF Next, Batch, MonitorLambda, SQS, ResubmitLambda

-----------------------------------------------------------------------------
(* The promises *)

LEMMA LoopInvStep ==
    ASSUME LoopInv, [Next]_vars
    PROVE  LoopInv'
<1>1. (\A j \in jobs : JobType(j))' /\ IsFiniteSet(jobs)' /\ AttemptsBounded'
  BY JobsStep DEF AttemptsBounded, JobType
<1>2. TypeOK'
  BY <1>1, PendingStep, MessagesStep, FaultsStep DEF TypeOK, EventsOK, MessagesOK, Messages
<1>3. ShapeOK'
  BY <1>1, PendingStep, MessagesBoundedStep, PointersStep DEF ShapeOK
<1>4. MessagesBounded'
  BY MessagesBoundedStep DEF MessagesBounded
<1> QED
  BY <1>1, <1>2, <1>3, <1>4, PointersStep, SubmittedStep, FailureAccountedStep,
     OnceInOrderStep DEF LoopInv

\* Whatever fails, is duplicated or comes back, the loop keeps its invariant.
THEOREM LoopInvariantHolds == Spec => []LoopInv
<1>1. LoopInv /\ [Next]_vars => LoopInv'
  BY LoopInvStep
<1> QED
  BY <1>1, LoopInitInv, PTL DEF Spec

\* Events are of submitted jobs; a message has an id of its own and is in one
\* place; an invocation's submitted and failed messages are apart.
THEOREM LoopTypeCorrect == Spec => []TypeOK
<1>1. LoopInv => TypeOK
  BY DEF LoopInv
<1> QED
  BY <1>1, LoopInvariantHolds, PTL

\* No failure, duplicate or redelivery gets a group past retry_policy.max_attempts.
THEOREM AttemptsStayBounded == Spec => []AttemptsBounded
<1>1. LoopInv => AttemptsBounded
  BY DEF LoopInv
<1> QED
  BY <1>1, LoopInvariantHolds, PTL

\* A failure of a job is on its way through a queue, retried, in a dead-letter
\* queue or dropped by Lambda: there is no other way out of the loop.
THEOREM FailuresAccounted == Spec => []FailureAccounted
<1>1. LoopInv => FailureAccounted
  BY DEF LoopInv
<1> QED
  BY <1>1, LoopInvariantHolds, PTL

\* Until a fault, no attempt of a group is submitted twice, however events,
\* messages and invocations interleave.
THEOREM AttemptsSubmittedOnce == Spec => []OneJobPerAttempt
<1>1. LoopInv => OneJobPerAttempt
  <2> SUFFICES ASSUME LoopInv, faults = 0, NEW g \in Groups, NEW a \in 1..max_attempts + 1
               PROVE  Cardinality(Copies(g, a)) <= 1
    BY DEF OneJobPerAttempt
  <2>1. CASE Copies(g, a) = {}
    <3>1. Cardinality({}) = 0
      BY FS_EmptySet
    <3> QED
      BY <2>1, <3>1
  <2>2. CASE Copies(g, a) # {}
    <3>1. PICK j : j \in Copies(g, a)
      BY <2>2
    <3>2. JobsOnce
      BY DEF LoopInv, OnceInOrder
    <3>3. Copies(g, a) = {j}
      BY <3>1, <3>2 DEF Copies, JobsOnce, SameAttempt
    <3>4. Cardinality({j}) = 1
      BY FS_Singleton
    <3> QED
      BY <3>3, <3>4
  <2> QED
    BY <2>1, <2>2
<1> QED
  BY <1>1, LoopInvariantHolds, PTL
===============================================================================
