# Specifications of batch-event-job-monitor

TLA+ models of the library (`src/src/batch_event_job_monitor`) and of the parts
of its CDK constructs (`src/src/batch_event_job_monitor_cdk`) that decide what
happens at run time, TLC configurations that check them, and machine-checked
proofs about every component that has state. `PROJECT.json` lists the
components, the runs, the source lines behind every definition and the hazards
the properties are about.

## 1. The system

AWS Batch jobs process *entities* (granules). A *job group* is the set of input
entities one Batch job works on, with the attempt it is at. The library records
where each entity stands and routes failures.

| Component | State it keeps | Operations | Source |
| --- | --- | --- | --- |
| Processing states, retry policy | none | rank, terminality, routing rule | `models.py` |
| Exit-code outcomes, classification | the deployed taxonomy | builder `add`, `states`, `get`, `classify` | `models.py`, `job_details.py` |
| `monitor_job` | none of its own | look up the pointer, append the event, move the pointer, index, route | `lambda_core.py` |
| `S3RecordStore` | `records/` (canonical record per entity and attempt), `state/` (one pointer per entity and state it is in), `outputs/` (index) | the S3 calls above, conditional claims, listings, attempt numbering | `log_store.py` |
| Attempt inference | reads `records/` | `attempt_for_batch_job` | `log_store.py` |
| Submitters (the library's users) | submitter pointers, claims | `write_state_pointer_conditional`, `list_by_state`, `delete_state_pointer`, `next_group_attempt` | `log_store.py`, `models.py` |
| Queues | `retry_queue`, `retry_dlq`, `failure_dlq`, `untracked_queue`, `event_dlq` | redrive, retention | `monitoring_queues.py` |
| Submission, resubmission | none | `submit_job`, `resubmit_job`, the resubmit handler's partial batch response | `submission.py`, `job_resubmit_handler.py` |
| Monitor handler, EventBridge rules | the deployed configurations and rules | match a rule, decode or resolve the group, look up its configuration, call `monitor_job` | `job_monitor_handler.py`, `job_monitor_function.py`, `job_type_config.py` |
| Untracked-job metrics | none | print one metric record | `untracked.py` |
| Records rollup | rollup queue, staging objects, Iceberg table | `run_rollup`, `run_reconcile`, self-invocation | `rollup.py`, `rollup_schema.py`, `records_rollup_function.py` |
| Records-table DDL | the table's columns in Glue | create, add columns one ALTER at a time, drop, as a custom resource that CloudFormation may roll back | `records_table_ddl_handler.py`, `records_rollup_table.py` |
| Athena views, bucket, names | deployment-time only | | `athena_*.py`, `processing_bucket.py`, ... |

How they interact:

    Batch --job state change--> EventBridge --> monitor Lambda --> S3 (records, state, outputs)
      ^                                             |  \--> failure_dlq
      |                                             v
    resubmit Lambda <-------- retry_queue (redrive: retry_dlq)

    S3 records/ --Object Created--> rollup queue --> rollup Lambda --MERGE--> Iceberg table
    S3 inventory ------------------> reconcile Lambda --keys--> rollup queue

    CloudFormation --Create, Update, Delete--> DDL Lambda --Glue, Athena--> Iceberg table
                   --functions, then rules---> monitor Lambda, EventBridge

    submitters --claim, list, delete--> S3 state/ <--delete submitter pointers-- monitor Lambda

What makes it hard: EventBridge delivers at least once and in any order; nothing
serialises invocations of the monitor, and each is a dozen S3 and SQS calls that
can fail after any one of them and be repeated; S3 gives single-object atomicity
and no more; SQS redelivers; a rollup invocation that times out leaves its MERGE
running; a deployment replaces functions before rules, and a failed one is
rolled back from wherever it had come to. The whole list, with lines, is
`hazards` in `PROJECT.json`.

What makes each component correct:

- monitor: the *authoritative pointer* of an entity (highest attempt, then
  highest rank) never regresses or vanishes; an event that was accepted is
  reflected in it; a failure that was accepted has been sent to its queue;
- classification: every state it returns is one the lookups scan;
- retry loop: attempts stay bounded, no failure is lost, every failure settles;
- inference: one attempt per Batch job, one Batch job per attempt;
- rollup: a row that is behind its object is on its way, never goes back in
  time, and in the end catches up;
- routing: an event takes one path, a job's end is recorded, a retried job is
  followed, whatever is deployed meanwhile;
- DDL: the table has the columns its stack declares, a rejected update can be
  rolled back, and only the stack's deletion drops its table;
- submitters: a claim excludes, an entity that waits is listed until its job is
  submitted, and the next attempt is new.

## 2. Modules

| Module | Models | Instances, runs |
| --- | --- | --- |
| `ProcessingStates` | states, rank, terminality, routing | used by `JobMonitor`, `JobDetails`, `RetryLoop`, `Submission` |
| `JobMonitor` | `monitor_job` and the store calls it makes | `MCJobMonitor`: `concurrent`, `faults`, `serial` |
| `EntityTracking` | abstract specification of the monitor | `ImplementsTracking` in `concurrent` |
| `JobDetails` | exit-code taxonomy and `classify` | `MCJobDetails`: `outcomes`, `outcome_names` |
| `RetryLoop` | Batch, EventBridge, both Lambdas, the queues | `MCRetryLoop`: `retry_loop`, `event_dlq` |
| `AttemptInference` | `attempt_for_batch_job` and the writes after it | `MCAttemptInference`: `inference`, `inference_race` |
| `RecordsRollup` | rollup and reconcile Lambdas, their queue and table | `MCRecordsRollup`: `rollup`, `rollup_convergent` |
| `EventRouting` | EventBridge rules, synth-time validation, the handler's choice, redeployment | `MCSurroundings`: `surroundings` |
| `TableDdl` | the DDL handler under CloudFormation | `MCSurroundings`: `surroundings` |
| `Submission` | submitters' store calls, claims, ad hoc resubmission | `MCSurroundings`: `surroundings` |

| Invariant and proofs | About |
| --- | --- |
| `JobMonitorInvariant`, `JobMonitor_proofs` | `JobMonitor`, its refinement of `EntityTracking` |
| `JobDetails_proofs` | `JobDetails` |
| `RetryLoopInvariant`, `RetryLoop_proofs` | `RetryLoop` |
| `AttemptInference_proofs` | `AttemptInference`, one invocation |
| `RecordsRollupInvariant`, `RecordsRollup_proofs` | `RecordsRollup` |
| `EventRouting_proofs` | `EventRouting` |
| `TableDdlInvariant`, `TableDdl_proofs` | `TableDdl` |
| `Submission_proofs` | `Submission` |

Operators whose comment begins with "Mutant:" are plausible mistakes in the
definition that follows them. No specification uses them; each shows that a
property notices the mistake.

### JobMonitor

One action per S3 or SQS call; `Invocations` of them run at once. `pc` is the
call an invocation makes next: `head` (`find_state_pointer`, one HEAD a state),
`list` (`find_active_pointer`, a LIST and its GETs a state), `get` and `append`
(`append_canonical_event`), `submitter` (`delete_state_pointer`), `guard` (the
monotonicity guard, then the PUT of `write_state_pointer` or the skip),
`delete_old` (its DELETE), `route` (output index or retry queue), `send`
(failure queue), `return`. `Crash` can happen before any of them and starts the
event's next delivery; what was written stays.

`pointers` is the set of keys under `state/`; `records` maps entity and attempt
to the canonical record (`NoRecord` for none). The lookups of two calls in a row
are not merged: what a LIST returned is kept in `hits`, and used calls later.

Abstractions: an event carries its classification (see `JobDetails`, which
shows that it depends on the event and on the deployment only). A LIST and the
GETs of the pointers it returned are one step. Two kinds of fault are switches:
`ReadFaults` lets any of those GETs fail and be skipped, `DeleteFaults` lets a
DELETE fail and be logged, as the code does. A pointer's body is the attempt in
its key. `Init` lets any submitter pointers be there already.

`EntityTracking` forgets pointers, calls and invocations: entities attain levels
(attempt and rank in one number), and an event may be acknowledged only when its
level is attained and the failure it may be was notified or superseded.

### JobDetails

A dict is a sequence of entries in insertion order (`Assign` keeps the place of
a key that is there, which decides what `states()` returns when names collide).
The taxonomy can be changed between events, which stands for a redeployment. A
status reason is `spot` or `other`: whether it starts with one of the policy's
spot-interruption prefixes.

### RetryLoop

The loop from end to end, with an invocation of the monitor as one step: the
pointer and the routing rule of `monitor_job` on a group of one entity. Faults
are counted and bounded by `MaxFaults`: an event that cannot be delivered, one
delivered twice, a monitor invocation that fails before the pointer, before
the queue or after it, a `SubmitJob` whose call fails with or without creating
the job, a resubmit invocation that dies with its batch.

The event's fate follows the deployment. `retry_attempts` and `dead_letter_queue`
of the `LambdaFunction` target cover EventBridge handing the event to Lambda
(`DeadLetterEvent`). An error of the function is retried by Lambda, which then
drops the event, as the function has no failure destination (`FailMonitor`).

### AttemptInference

`ListRecords`, `CompareRecord` (a GET, newest first), `NextEntity`, then
`ReadRecord` and `WriteRecord` for each entity of the group. The pointers play
no part and are left out. `Attempts` is as large as the deliveries can make it.
`interrupted` is a history variable: the jobs an invocation has failed between
two writes of its group's records (`HalfWritten`). No action reads it; it is what
`SharedEntitiesApart` needs to say that two jobs of overlapping groups meet in one
attempt only after such a failure (`HalfWay`).

### RecordsRollup

The rollup invocation is `drain`, `fetch`, `merge`, `delete`, `check`; the
reconcile invocation enqueues the query's result page by page, and may hand over
to a self-invocation at any page but the last. Each Lambda has reserved
concurrency 1 and no retries, so there is at most one invocation of either; the
two run concurrently. A crash with a MERGE running makes an *orphan*, which may
commit at any later time or never. `DeleteMessages` may leave a message
undeleted, as nobody reads the failures of `delete_message_batch`. `clock` counts
object writes; `rolled_up_at` is the clock when the MERGE was started. An object is
deleted only while its key is drained and not read, where the code counts it as
missing. A version in `Unreadable` has a body that is no record: `Fetch` counts it
as malformed and leaves it out, and its message is deleted with the others'.

`Drain` is one `receive_message` and the loop over its batch. SQS may return any
part of what is receivable, up to `Asked`. The loop breaks off at the message that
brings the keys to `max_keys`, so that only the messages before it are `Captured`;
the rest of a batch would be invisible with no receipt handle. That there is no
rest follows from `Asked` and is what `NoneAbandoned` says.

Two keys can flatten to one natural key (the key renders the partition and the
entity; the body carries them again), hence `natural_key`.

### EventRouting

`past` is the list of deployed apps; `functions` and `rules` are the indexes of
the apps whose functions and whose rules are live, for CloudFormation updates a
rule after the function it targets. An app is its `job_type_configs` in order,
and whether the handler is the bundled one; `Valid` is what the constructor
rejects at synthesis. `Emit` evaluates every rule on a job's status change,
`Handle` what the function that is live *then* makes of the event: decode, resolve
(a custom resolver may return any job type, configured or not and wherever the
job ran, or none, or raise: `Resolutions`), look up, record or treat as untracked.
The handler checks of what a resolver returns only that the type is configured and
does not require the parameters, so a job of a queue that requires them can be
recorded under a type of another queue with no deployment in between, besides
being counted as untracked. `UntrackedIsKept` allows that, and says what is left:
the count is right, and nothing but a resolver, deployed with or after the rules
that handed the event over, makes such a job raise or be recorded.

A job's retry reads the configuration that is live when it is resubmitted.
Deliveries are made once here; their failures are `RetryLoop`'s. `MaxApps` bounds
deployments; the last may be rolled back (`RollBackApp`).

### TableDdl

One action per Glue or Athena call of the handler: `ReadColumns` (with the
comparison that rejects removals and retypings), `CreateTable`, `AlterTable` for
one column, `DropTable`. `FailCall` lets any call fail with or without its effect,
and leaves the ALTER of an invocation that gave up polling behind as an *orphan*
(`EndOrphan`). Around it, CloudFormation: `Deploy`, `Complete`, `RollBack`, with a
clean-up of the replaced physical resource, `DeleteStack`, `Unstick`
(continue-update-rollback), and the failure of another resource of the stack,
after the handler has returned. A version may rename the table, which makes the
update a replacement, may change a column's type and may set a removal policy.

### Submission

The pattern of the repository's README: a trigger puts a submitter pointer with
`Trigger`; submitters list (`ListWaiting`, `ReadWaiting`, `EndRead`), claim with a
conditional write (`ClaimEntity` or `LeaveEntity`), submit, and delete the
pointer; they stop anywhere (`Stop`). The monitor is two steps: it puts a pointer
and deletes the entity's declared submitter pointers, then deletes the pointer it
superseded. `ListForAttempt` is one LIST of `next_group_attempt`, of one state of
one entity, and `NextAttempt` the attempt it has come to. `JobMonitor` has the monitor call by call.

## 3. Runs

| Run | Asks | Instance | Distinct states |
| --- | --- | --- | --- |
| `concurrent` | invariant, no regress, refinement under interleaving and crashes | a job interrupted and retried: 4 events, 1 entity, 2 invocations | 225,763 |
| `faults` | the same promises with failed reads, failed deletes, redelivery, and groups whose entities disagree | twins in one job, one of them already on its last attempt: 2 deliveries each, 2 invocations | 144,443 |
| `serial` | what concurrency breaks but a sequential monitor keeps | 5 events delivered twice in any order, custom outcome, submitter claims | 120,752 |
| `outcomes` | classification against the scanned states | 2 codes, 2 names, 3 declarations | 148,535 |
| `retry_loop` | accounting, bounds and liveness of the loop | 1 group, 2 attempts, 2 faults | 191,321 |
| `inference` | one job per attempt with failures, one invocation at a time | 4 jobs of 3 entities, groups that are equal, contained and overlapping, 2 deliveries each | 195,757 |
| `rollup` | safety and liveness of rollup and reconcile | 2 objects of one natural key, one rewritten from a version that is no record, 2 faults | 496,990 |
| `surroundings` | routing under redeployment, the table under failed updates, claims under races | 2 job types, 2 queues, 2 deployments and a roll-back, 2 jobs; 4 schemas, 4 stack operations, 2 faults; 2 submitters of twins | 561,387 |

Four more runs, `outcome_names`, `event_dlq`, `inference_race` and
`rollup_convergent`, check one property each and end in its violation (see
*Disagreements*).

`surroundings` explores three specifications that share no variable and no call:
a behaviour of `MCSpec` is one of any of them while the others stay in an initial
state, so that TLC explores their union and not a product nothing is learnt from.

Why the bounds are enough. The monitor's guard compares two attempts and three
ranks; two attempts with every rank, and a straggler of each, give every
comparison, and a third invocation adds no new pair of racing calls. `MaxTries`
bounds deliveries: one repeat is what differs from none. In `retry_loop` two
faults cover a failed call whose repeat fails too, which is just enough to use up
`max_receive_count` 2 and `async_retries` 1, so that the recovery and the
dead-letter exits are both taken. In `rollup` two faults give a lost
notification or an orphaned MERGE together with a failed run, pages hold one
key of two so that every exit of paging is taken, and `max_depth` 2 makes the
chain limit bite. In `inference` the four jobs are the ways two groups can
overlap: the same entities in another order, one group within the other, and
each with an entity of its own. In `surroundings` two apps are every change of one
configuration into another, and the second may be rolled back, with the four ways the validation and the rules tell
apart (a job type moved, its requirement dropped, a status forgotten, a second
type on its queue or definition); four stack operations are a creation, a failed
update, its repetition and a deletion; two submitters and two triggers are every
pair of races for one claim. A lookup reads none of the pointers they race for,
so it is combined with one trigger only (`OneOrTheOther`). The theorems below do not depend on any of these
bounds.

Deadlock is checked in every run. Where the modelled system comes to rest
(`Quiet`, `Idle`) it stutters by a disjunct of `Next` whose guard says that
nothing is left to do, so that stopping anywhere else is reported.

`serial` runs one invocation because two break most of what it checks, and the
code does not claim otherwise: `append_canonical_event` is a GET followed by an
unconditional PUT, so two invocations can lose one event of the audit history or
the log stream it carried (`HandledEventIsRecorded`, `LogStreamNeverErased`), and
two racing writers can leave two pointers (`OnePointerPerEntity`), of which
`find_active_pointer` then picks the higher. `SubmitterPointersCleared` is in that
run for its submitter states, and is proved of any number of invocations.

### Fairness

`RetryLoop`: weak fairness of Batch (a job ends: Batch jobs have timeouts or are
terminated), of the monitor (EventBridge and Lambda keep delivering), of SQS
(the event source mapping polls, redrive is SQS's own) and of the resubmit
handler (an invocation runs to its end unless a fault stops it). Faults have no
fairness and are bounded, so nothing relies on their happening; no fairness is
on a single message or outcome.

`RecordsRollup`: weak fairness of SQS (visibility timeouts expire), of the
rollup and the reconcile Lambda (their schedules fire, `records_rollup_function.py`
319-344) and of inventory delivery. Writers, faults and orphans have none.
`EnqueuedKeyIsMerged` fails with no fault at all.

The other modules check safety only and state no fairness.

### Disagreements between code and documentation

Each is a run expected to end in a violation; `findings` quotes the lines.

- `event_dlq`: events are said never to be dropped, and target failures to go to
  the EventBridge dead-letter queue; an event whose *invocation* keeps failing is
  dropped by Lambda.
- `outcome_names`: `states()` is said to be every state a job type can produce;
  when exit codes share a name and differ in `retryable` or `dlq`, `classify`
  returns a state outside it. On the event's next delivery the pointer found by
  name compares unequal to the new state and the same key is put and then
  deleted.
- `inference_race`: every event of a job is said to resolve to one attempt; two
  invocations that infer before either has written make one job take two.
- `rollup_convergent`: each key reconcile enqueues is said to be merged; the
  record's `last_event_timestamp` is that of the event *appended* last, and after
  a late arrival the MERGE's guard leaves the row, and the key is enqueued by
  every later pass.

Some more disagreements, and limits a reader should know of, came up while
modelling and have no run of their own. Where a model has one, a property is
stated so that it allows for it:

- *Exactly one path handles each job* (`docs/constructs.md:292`,
  `job_monitor_function.py:57-59`): two job types with one queue and one
  definition both match a job, and a job that carries its group but has another
  definition matches neither the tracked nor the catch-all rule.
- Rules are updated after functions. Removing a job type, or rolling back to an
  app without it, leaves its rule live for a function that raises on its events;
  a job type that is moved to another queue no longer hears of the jobs still in
  the old one; dropping `requires_bejm_parameters` on redeployment lets one job
  be kept as untracked first and recorded afterwards.
- A retry need not run as the type that failed. Where two job types without
  required parameters share a scope, one failure delivered twice can be resolved
  to either, and is retried as both; a deployment that then moves one of them
  leaves the retry's end to no rule of its type. `RetriedIsFollowed` therefore
  asks for *a* failure that was resolved to the retry's type, and excepts types
  whose scope has changed (`Moved`).
- Claims (`src/README.md:109-113`): the monitor deletes a *declared* claim with
  the job's first event, so a submitter with a stale listing, or a trigger that
  fires again, submits the entity again. A submitter that stops between its claim
  and its submission leaves the entity claimed and never submitted.
- `next_attempt` lists one state after the other. A pointer that moves from a
  state not yet listed to one already listed is missed, and so is one whose GET
  fails, which gives an attempt that was used before.
- `CREATE TABLE IF NOT EXISTS` adopts a retained table with whatever columns it
  has (`docs/constructs.md:439-441`). Once an update has added a column,
  CloudFormation's rollback to the old schema asks for the *removal* of one, which
  the handler rejects: the stack ends in `UPDATE_ROLLBACK_FAILED`.
- A resolver's answer is checked against the configuration alone
  (`job_monitor_handler.py:119-131`): a job without parameters, on a queue whose job
  types require them, is recorded under whatever other type the resolver names, as
  well as being counted in the untracked queue.
- Inference with groups that overlap only in part: when job 1 fails after the
  record of the entity it does not share, an event of it may later be appended
  to the record job 2 has created in the meantime.
- A record whose body cannot be parsed is behind no row: its message is deleted,
  and reconcile enqueues its key again in every pass until it is rewritten.

## 4. Proofs

Every safety property that a passing run checks is proved for all values of the
constants (any number of entities, invocations, messages, versions, outcomes or
submitters, and any bounds), under the assumptions and hypotheses below.

| Module | Theorems | Of |
| --- | --- | --- |
| `JobMonitor_proofs` | `TypeCorrect`, `InvariantHolds`, `Reflected`, `Routed`, `Indexed`, `NeverRegresses` | `TypeOK`, `IInv`, `HandledIsReflected`, `HandledFailureIsRouted`, `HandledTerminalIsIndexed`, `PointerNeverRegresses` |
| | `Implements` | `ImplementsTracking`, the refinement |
| | `Recorded`, `LogStreamKept` | `HandledEventIsRecorded`, `LogStreamNeverErased`, for one invocation at a time |
| | `SubmittersCleared` | `SubmitterPointersCleared`, where no DELETE is swallowed |
| | `OnePointerKept` | `OnePointerPerEntity`, for one invocation at a time, to its end, where no fault is swallowed |
| `JobDetails_proofs` | `TypeCorrect`, `Scanned`, `NameScanned`, `UniqueNames`, `Stable` | `TypeOK`, `ConsistentIsScanned`, `ClassifiedNameIsScanned`, `NamesAreUnique`, `ClassificationIsStable` |
| `RetryLoop_proofs` | `LoopInvariantHolds`, `LoopTypeCorrect`, `AttemptsStayBounded`, `FailuresAccounted`, `AttemptsSubmittedOnce` | `LoopInv`, `TypeOK`, `AttemptsBounded`, `FailureAccounted`, `OneJobPerAttempt` |
| `RecordsRollup_proofs` | `RollupInvariantHolds`, `RollupTypeCorrect`, `BehindQueued`, `NoneSetAside`, `RowsNeverOlder` | `RollupInv`, `TypeOK`, `BehindIsQueued`, `NoneAbandoned`, `RowNeverOlder` |
| `AttemptInference_proofs` | `InferenceInvariantHolds`, `OneAttemptEach`, `SharedApart` | `InferenceInv`, `OneAttemptPerJob`, `SharedEntitiesApart`, for one invocation at a time |
| `EventRouting_proofs` | `RoutingInvariantHolds`, `OnePathTaken`, `TerminalsRecorded` | `RoutingInv`, `OnePath`, `TerminalIsRecorded` |
| | `EndInvariantHolds`, `UntrackedKept`, `RetriedFollowed` | `EndInv`, `UntrackedIsKept`, `RetriedIsFollowed` |
| `TableDdl_proofs` | `DdlInvariantHolds`, `DdlTypeCorrect`, `DeclaredColumnsLive`, `RejectedRollsBack`, `StackTableKept` | `DdlInv`, `DdlTypeOK`, `DeclaredIsLive`, `RejectedUpdateRollsBack`, `TableOfStackIsKept` |
| `Submission_proofs` | `SubmissionInvariantHolds`, `ClaimsExclude`, `WaitingKept`, `NextAttemptNew` | `SubmissionInv`, `ClaimExcludes`, `WaitingIsKept`, `NextAttemptIsNew` |

### Assumptions

All of them are named, and TLC evaluates each on the runs of its module. Most
only type the constants (`ParametersAssumption`, `RetryLoopAssumption`,
`RollupAssumption`, `JobsAssumption`, `AppsAssumption`, `VersionsAssumption` and
the bounds) or set a value apart that stands for none (`NoTagAssumption`,
`NoVersionAssumption`). Those with content:

- `EventsAssumption`, `StatesAssumption` (`JobMonitor`): groups are non-empty and
  an event's state is one of the scanned states. `Scanned` proves that
  classification returns no other, where the exit codes that share a name agree;
- `SubmitterAssumption` (`JobMonitor`) and `SubmissionAssumption`: no submitter
  state shares a name with a scanned state, which `_validate_submitter_states`
  rejects at synthesis (`job_monitor_function.py:340-367`);
- `ConsistentNamesAssumption` (`JobMonitorInvariant`): no two scanned states share
  a name. `UniqueNames` proves it of what `states()` returns where no outcome
  takes a baseline state's name, which nothing in the code enforces;
- `OneOutcomeAssumption` (`JobMonitorInvariant`): events of one attempt of an
  entity with the same rank report the same state. One Batch job per attempt
  gives it; `OneJobPerAttempt` shows the retry loop keeps to one when nothing
  fails, and a resubmission that is repeated does not;
- `OneInvocation` (`AttemptInference_proofs`, a hypothesis of its theorems): two at
  once break the property (`inference_race`);
- `Sequential` (`JobMonitor_proofs`, a hypothesis of `Recorded`, `LogStreamKept` and
  `OnePointerKept`): invocations run one at a time, which nothing in the code
  ensures and an operator may, with a reserved concurrency. The first two still
  allow every crash and swallowed fault. `OnePointerKept` has none of them
  (`~Crashes`, `~ReadFaults`, `~DeleteFaults`): a crash between the PUT and the
  DELETE, a GET that is skipped or a DELETE that is swallowed leaves two pointers;
- `~DeleteFaults` (a hypothesis of `SubmittersCleared`): a DELETE that fails and is
  logged leaves the submitter pointer.
  None of these hypotheses can go: with any one of them dropped from its theorem,
  TLC finds the property violated on the `serial` instance so changed;
- finiteness of `Groups` and `Keys`, for the choice of a fresh message or job.

### Arguments

**Monitor.** None of the three promises about handled events is inductive: they
say nothing of an invocation that is half way. `IInv` adds what an invocation
knows. The key conjunct is `NewOutranksOld`: when it is about to delete the old
pointer, a pointer at its own, strictly higher level is reached, whether by the
one it has put or by a later one another invocation has put since. That makes
the deletion harmless whatever is interleaved, so no step ever takes a reached
level away (`StepKeepsReached`), and from that everything else an invocation has
seen stays true while others run (`OtherStable`). `SeenIsReached` covers the time
between the lookup and the guard, `PastIsReached` the contexts the loop is done
with (reached, or superseded for those that were stale), `TerminalIsIndexed` and
`OwedIsSent` what has been written on the way to returning, and
`PointersReported` that only events put the monitor's pointers, which with
`OneOutcomeAssumption` rules out two outcomes at one level. There is one lemma
per action, and `HandledStep` turns an invocation's local facts into the promise
about its event when it returns.

**Records.** `AuditInv` says that an invocation about to append has read what is
there, and that the records of the entities it is done with hold its event. Each
append keeps what was recorded (`AppendRecords`), so with nothing in between
(`Sequential`) nothing is lost.

**Submitter pointers.** The monitor puts no pointer under a submitter state's name
(`NoNewSubmitterPointer`), so what an invocation has deleted stays deleted,
whatever runs beside it. `SubmitterInv` says how far it is: `ClearedNames` grows
with `scan`, entity by entity, to all of them when it returns.

**One pointer.** `OnePointer` of an entity fails between a PUT and its DELETE, so
`PointerInv` says what is there then (`NewAndOld`), which needs that the old
pointer is the only other one: the lookup has found every pointer of the entity
(`LookupIsExact`), whether by one HEAD of each state or by their LISTs, and
nothing has moved since.

**Classification.** What `states()` declares is a recursive function over the
outcomes. `DeclaredExists` shows by induction that there is one, `DeclaredStep`
that each outcome keeps it a dict by name (`AssignEntries`) whose entries are
states of outcomes seen so far and miss no name (`DeclaredBy`). The induction is
over a set (`SetInduction`), from the least number not in it (`LeastNatural`), as
the library's induction theorems are out of the provers' reach.

**Refinement.** The three steps that write `state/` map to `Advance` of their
entity (`PointerStepAdvances`, from `StepGrows`) or to a stutter, the two sends
to `Notify`, `Return` to `Acknowledge`, whose guard is what `IInv` says of an
invocation that returns, and every other call to a stutter.

**Retry loop.** `FailureAccounted` says where the token of a failure may be; each
action moves it on, so it is inductive with `SubmittedIsRetried`, which lets a
message that a dead invocation leaves behind stand for the job it submitted.
`OneJobPerAttempt` needs the order in which an attempt's job, its end, the event, the
message and the next job come about, each once and none before the other
(`OnceInOrder`): that is what the first fault may end.

**Rollup.** `BehindIsQueued` is not inductive: a drained message is deleted after
the MERGE whatever was merged. `BehindIsInHand` says what the invocation holds
for it: a key still to be fetched, or a row at least as late as the object.
A write after the fetch sends a message of its own, and deduplication and MERGE
keep the latest by time (`MergeIsDeduped`), so nothing is deleted that has not
been merged or overtaken. `NoneAbandoned` counts: the loop breaks off
only once it has `max_keys` keys, which takes one message at least for each key
still needed, and no receive asks for more than that (`BatchCaptured`).

**Inference.** A job that is recorded anywhere has a record that *it created*
(`RecordsOK`), which is the field the inference compares; a search that finds
none has passed over other jobs' records only (`Searched`), so its attempt is
unused for the whole group (`Unrecorded`). For jobs that overlap (`WholeOK`): a job
that is recorded at all is recorded for every entity of its group, or is being
written, or was broken off. In the first case the search for another job finds the
record of the entity they share, in the second no other invocation runs, and the
third is what `SharedEntitiesApart` excepts.

**Routing.** Functions are never behind rules (`DeploymentOK`), so a delivery that
a rule made (`Emitted`) finds a function at least as new, and the configuration
it needs is there unless a later app removed it. `OnePathTaken` rests on what the
constructor rejects at synthesis. `EndInv` adds the jobs: where a retried job's
type came from (`Provenance`, which names a configuration of the past that had
the job in its scope), what the rules made of each end (`EndsOK`, the catch-alls
by their number, `CatchAlls`), and that an event of a job without parameters that
did not end as untracked has been resolved by the resolver of one of the apps
since the rules that handed it over, as the function that was live then was no
older than they (`ResolvedOK`, `ResolvedBy`).

**DDL.** `AddsInOrder` says which columns an update has added by its `next`
statement; `ReturnsLive` follows for the request, `StackIsLive` for the deployed
version, which is what an update or its rollback must not lose. `Faultless` says
that until a call has failed, a table has no column beyond the versions in
question: the rollback of a rejected update then finds nothing to remove.

**Submission.** Each claim is held by one submitter or stands for the job that was
submitted under it (`ClaimHeld`), unless the monitor may have deleted it
(`Freed`). For the lookup, `Passed` are the pointers whose state and entity have
been listed: the attempt is above those of them that stay, and at the end of the
lists every pointer that stays has been passed.

### Model-checked only

Liveness (`FailureSettles`, `LoopEnds`, `TableCatchesUp`, `BackfillCompletes`) is
out of the prover's reach and stays with TLC, as do the four runs that end in a
violation: a counterexample refutes what no theorem could state.

## 5. Not modelled

- pagination of `find_active_pointer`'s LIST (it reads one page, so pointers past
  the first thousand of an entity in one state are not seen) and attempts of more
  than three digits, which the state view's pattern does not read;
- entries of `_enqueue_keys` that SQS refuses, messages of the rollup queue
  whose body names no key, and rows that tie on `last_event_timestamp`;
- two outcomes of one attempt, and taxonomies that change while pointers exist
  (`JobDetails` changes them, `JobMonitor` does not);
- retention of the queues; a retry queue that is adopted from outside;
- the format of the untracked metric: `EventRouting` has only that it is counted;
- deployment-time code whose result is text or wiring and has no behaviour to
  check: Glue tables and views, the processing bucket, names, assets, IAM.

## 6. Plan

The components with state are modelled, checked and, for safety, proved. What is
left, in order of what it would add:

1. `Submission` with the monitor call by call, that is `JobMonitor`'s calls and a
   submitter's interleaved; today the monitor is two steps there, and its
   submitter pointers an initial state in `JobMonitor`.
2. An abstract specification of the retry loop (a group has one token, which is
   its job, its event or its message) that `RetryLoop` implements while nothing
   has failed, as `EntityTracking` is for the monitor.
3. `JobMonitor` with two outcomes of one attempt and with a taxonomy that is
   redeployed while pointers exist, which need other promises than today's.
4. `RecordsRollup` with rows that tie in time.
