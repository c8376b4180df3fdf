-------------------------- MODULE RetryLoopInvariant --------------------------
(***************************************************************************)
(* The inductive invariant from which RetryLoop's promises follow.         *)
(***************************************************************************)
EXTENDS RetryLoop

Messages == retry_queue \cup batch \cup retry_dlq
SameAttempt(x, y) == x.group = y.group /\ x.attempt = y.attempt
NextAttempt(x, y) == x.group = y.group /\ y.attempt = x.attempt + 1

\* What the proofs need of the shape of the values.
ShapeOK ==
    /\ IsFiniteSet(jobs) /\ sent \in Nat
    /\ \A i \in pending : i = [event |-> i.event, tries |-> i.tries]
    /\ \A m \in Messages :
          m = [id |-> m.id, group |-> m.group, attempt |-> m.attempt, receives |-> m.receives]
    /\ DOMAIN pointer = Groups /\ pointer = [g \in Groups |-> pointer[g]]
    /\ \A g \in Groups : pointer[g].attempt \in Nat

\* A message asks for an attempt the retry policy allows.
MessagesBounded == \A m \in Messages : m.attempt \in Nat /\ m.attempt < max_attempts

\* A pointer was written for an event of a job.
PointersReported ==
    \A g \in Groups : pointer[g].attempt > 0 =>
        \E j \in jobs : j.group = g /\ j.attempt = pointer[g].attempt

\* What the resubmit Lambda counts as submitted has been.
SubmittedIsRetried == \A m \in submitted : \E j \in jobs : NextAttempt(m, j)

\* The order in which an attempt's job, its end, the event, the message and the
\* next attempt's job come about, each once.
JobsOnce == \A j, k \in jobs : SameAttempt(j, k) => j = k
EndsOnce == \A ev, ew \in ended : ev.job = ew.job => ev = ew
RetriesFollow == \A j \in jobs : j.attempt > 1 => \E ev \in ended : NextAttempt(ev.job, j)
MessagesFollow == \A m \in retry_queue \cup batch : \E ev \in ended : SameAttempt(ev.job, m)
MessagesOnce == \A m, n \in retry_queue \cup batch : SameAttempt(m, n) => m = n
UnsubmittedIsWaiting ==
    \A m \in (retry_queue \cup batch) \ submitted : \A j \in jobs : ~NextAttempt(m, j)
PendingIsUnrouted ==
    \A i \in pending : rank(i.event.state) = 2 =>
        /\ i.event \in ended /\ i.tries = 0
        /\ \A m \in retry_queue \cup batch : ~SameAttempt(i.event.job, m)
        /\ \A j \in jobs : ~NextAttempt(i.event.job, j)

\* Until a fault, what becomes of an attempt happens once and in this order.
OnceInOrder ==
    faults = 0 =>
        /\ reported = {}
        /\ JobsOnce /\ EndsOnce /\ RetriesFollow /\ MessagesFollow /\ MessagesOnce
        /\ UnsubmittedIsWaiting /\ PendingIsUnrouted

LoopInv ==
    /\ TypeOK /\ ShapeOK /\ AttemptsBounded /\ MessagesBounded
    /\ PointersReported /\ SubmittedIsRetried /\ FailureAccounted /\ OnceInOrder
===============================================================================
