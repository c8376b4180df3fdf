--------------------------- MODULE AttemptInference ---------------------------
(***************************************************************************)
(* attempt_for_batch_job (log_store.py): the attempt an event is recorded  *)
(* under when its Batch job carries no bejm_* parameters, inferred from    *)
(* the canonical records of its entities, then written to them.            *)
(*                                                                         *)
(* One action per S3 call.  Invocations run at once, fail between any two  *)
(* calls and are repeated, as in JobMonitor; the state pointers play no    *)
(* part in the inference and are left out.                                 *)
(***************************************************************************)
EXTENDS Naturals, Sequences, FiniteSets, Functions

CONSTANTS
    Entities,     \* input entity ids
    Jobs,         \* Batch jobs: their id and the group the resolver returns
    Invocations,  \* Lambda invocations that may run at the same time
    MaxDeliveries,\* bound: deliveries for one job, of its events and repeats of them
    Crashes       \* whether an invocation may fail half way

ASSUME JobsAssumption ==
    /\ Jobs # {}
    /\ \A job \in Jobs : job.group \in Seq(Entities) /\ Len(job.group) >= 1
    /\ \A job, other \in Jobs : job.id = other.id => job = other
    /\ MaxDeliveries \in Nat /\ Crashes \in BOOLEAN

\* Every delivery opens at most one attempt.
Attempts == 1..(MaxDeliveries * Cardinality(Jobs))

VARIABLES
    records,    \* records/: canonical record of each (entity, attempt)
    deliveries, \* invocations started for each job's events
    interrupted,\* history: ids of the jobs an invocation failed between writes of
    \* Local to an invocation:
    pc,         \* the call it makes next
    job,        \* the job of its event
    ctx,        \* index of the current entity in the job's group
    recorded,   \* attempts of the entity listed and not yet read
    attempt,    \* next_attempt, and at last the attempt inferred
    record      \* canonical record as read

task == <<job, ctx>>
vars == <<records, deliveries, interrupted, pc, task, recorded, attempt, record>>

\* A record with no jobs stands for a key that holds no object.
NoRecord == [batch_job_id |-> "none", jobs |-> {}]
AnyJob == CHOOSE j \in Jobs : TRUE
entity(v) == job[v].group[ctx[v]]

Init ==
    /\ records = [x \in Entities \X Attempts |-> NoRecord]
    /\ deliveries = [j \in Jobs |-> 0]
    /\ interrupted = {}
    /\ pc = [v \in Invocations |-> "idle"]
    /\ job = [v \in Invocations |-> AnyJob]
    /\ ctx = [v \in Invocations |-> 1]
    /\ recorded = [v \in Invocations |-> {}]
    /\ attempt = [v \in Invocations |-> 1]
    /\ record = [v \in Invocations |-> NoRecord]

Enter(v, call, j, k, a) ==
    /\ pc' = [pc EXCEPT ![v] = call]
    /\ job' = [job EXCEPT ![v] = j]
    /\ ctx' = [ctx EXCEPT ![v] = k]
    /\ attempt' = [attempt EXCEPT ![v] = a]
    /\ recorded' = [recorded EXCEPT ![v] = {}]
    /\ record' = [record EXCEPT ![v] = NoRecord]

Deliver(v, j) ==
    /\ pc[v] = "idle"
    /\ deliveries[j] < MaxDeliveries
    /\ deliveries' = [deliveries EXCEPT ![j] = @ + 1]
    /\ Enter(v, "list", j, 1, 1)
    /\ UNCHANGED <<records, interrupted>>

\* Some of the records of the job's group are written, and some are to come.
HalfWritten(v) == pc[v] \in {"read", "write"} /\ ctx[v] > 1

Crash(v) ==
    /\ Crashes
    /\ pc[v] # "idle"
    /\ interrupted' = IF HalfWritten(v) THEN interrupted \cup {job[v].id} ELSE interrupted
    /\ Enter(v, "idle", AnyJob, 1, 1)
    /\ UNCHANGED <<records, deliveries>>

-----------------------------------------------------------------------------
(* attempt_for_batch_job *)

\* _recorded_attempts: LIST the entity's records.
ListRecords(v) ==
    /\ pc[v] = "list"
    /\ recorded' = [recorded EXCEPT ![v] = {a \in Attempts : records[<<entity(v), a>>] # NoRecord}]
    /\ pc' = [pc EXCEPT ![v] = "compare"]
    /\ UNCHANGED <<records, deliveries, interrupted, task, attempt, record>>

\* The newest of the records that are left to read.
Newest(S) == {a \in S : \A b \in S : b <= a}
IsOfJob(v, a) == records[<<entity(v), a>>].batch_job_id = job[v].id

Found(v, a) ==
    /\ IsOfJob(v, a)
    /\ Enter(v, "read", job[v], 1, a)

\* next_attempt = max(next_attempt, attempt + 1)
NotFound(v, a) ==
    /\ ~IsOfJob(v, a)
    /\ attempt' = [attempt EXCEPT ![v] = IF a < @ THEN @ ELSE a + 1]
    /\ UNCHANGED <<pc, task, record>>

\* Mutant: only the entity's newest record is compared.
CompareNewest(v) ==
    /\ pc[v] = "compare"
    /\ \E a \in Newest(recorded[v]) :
          \/ Found(v, a)
          \/ NotFound(v, a) /\ recorded' = [recorded EXCEPT ![v] = {}]
    /\ UNCHANGED <<records, deliveries, interrupted>>

\* GET a record, newest first: it is this job's, or the job is a later attempt.
CompareRecord(v) ==
    /\ pc[v] = "compare"
    /\ \E a \in Newest(recorded[v]) :
          \/ Found(v, a)
          \/ NotFound(v, a) /\ recorded' = [recorded EXCEPT ![v] = @ \ {a}]
    /\ UNCHANGED <<records, deliveries, interrupted>>

\* Mutant: only the first entity of the group is looked up.
FirstEntityOnly(v) ==
    /\ pc[v] = "compare" /\ recorded[v] = {}
    /\ Enter(v, "read", job[v], 1, attempt[v])
    /\ UNCHANGED <<records, deliveries, interrupted>>

NextEntity(v) ==
    /\ pc[v] = "compare" /\ recorded[v] = {}
    /\ IF ctx[v] < Len(job[v].group)
       THEN Enter(v, "list", job[v], ctx[v] + 1, attempt[v])
       ELSE Enter(v, "read", job[v], 1, attempt[v])
    /\ UNCHANGED <<records, deliveries, interrupted>>

-----------------------------------------------------------------------------
(* append_canonical_event under the attempt inferred, for each entity *)

ReadRecord(v) ==
    /\ pc[v] = "read"
    /\ record' = [record EXCEPT ![v] = records[<<entity(v), attempt[v]>>]]
    /\ pc' = [pc EXCEPT ![v] = "write"]
    /\ UNCHANGED <<records, deliveries, interrupted, task, recorded, attempt>>

Appended(rec, j) ==
    [batch_job_id |-> IF rec = NoRecord THEN j.id ELSE rec.batch_job_id,
     jobs |-> rec.jobs \cup {j.id}]

WriteRecord(v) ==
    /\ pc[v] = "write"
    /\ records' = [records EXCEPT ![<<entity(v), attempt[v]>>] = Appended(record[v], job[v])]
    /\ IF ctx[v] < Len(job[v].group)
       THEN Enter(v, "read", job[v], ctx[v] + 1, attempt[v])
       ELSE Enter(v, "idle", AnyJob, 1, 1)
    /\ UNCHANGED <<deliveries, interrupted>>

Step(v) ==
    ListRecords(v) \/ CompareRecord(v) \/ NextEntity(v) \/ ReadRecord(v) \/ WriteRecord(v)

\* Every delivery is done and every invocation has ended.
Quiet ==
    /\ \A v \in Invocations : pc[v] = "idle"
    /\ \A j \in Jobs : deliveries[j] = MaxDeliveries

Next ==
    \/ \E v \in Invocations : (\E j \in Jobs : Deliver(v, j)) \/ Step(v) \/ Crash(v)
    \/ Quiet /\ UNCHANGED vars

Spec == Init /\ [][Next]_vars

-----------------------------------------------------------------------------
JobIds == {j.id : j \in Jobs}
\* The attempts a job's events have been recorded under.
AttemptsOf(id) == {a \in Attempts : \E e \in Entities : id \in records[<<e, a>>].jobs}

\* "Every event for one Batch job resolves to the same attempt, so repeated
\* statuses, duplicate EventBridge deliveries, and out-of-order events all land
\* on one canonical record."
OneAttemptPerJob == \A id \in JobIds : Cardinality(AttemptsOf(id)) <= 1

\* An invocation for job j failed half way, and under attempt a it had written the
\* record of an entity that is not one of job k's.
HalfWay(j, k, a) ==
    /\ j.id \in interrupted
    /\ \E e \in Range(j.group) \ Range(k.group) : j.id \in records[<<e, a>>].jobs

\* Jobs that share an entity are different attempts, whatever order their groups
\* list it in and however often their events repeat, but for one thing: an
\* invocation for one of them failed with only some of its records written, so
\* that the other found none of the entity they share, and their attempts meet
\* when the first is repeated.  Jobs of the same entities never do.
SharedEntitiesApart ==
    \A j, k \in Jobs :
        j # k /\ Range(j.group) \cap Range(k.group) # {} =>
            \A a \in AttemptsOf(j.id) \cap AttemptsOf(k.id) : HalfWay(j, k, a) \/ HalfWay(k, j, a)
===============================================================================
