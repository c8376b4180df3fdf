------------------------------ MODULE Submission ------------------------------
(***************************************************************************)
(* What submitters do with S3RecordStore beside the monitor: the submitter *)
(* states of src/README.md (write_state_pointer_conditional, list_by_state,*)
(* submit_job, delete_state_pointer), with a second state as a claim, and  *)
(* ad hoc resubmission by next_group_attempt.  One action per S3 call, by  *)
(* submitters that run at once and may stop anywhere.                      *)
(*                                                                         *)
(* An invocation of the monitor is two steps here: the submitter pointers  *)
(* it deletes and the pointer it puts, then the deletion of the old one.   *)
(* JobMonitor has it call by call.  Retryable failures stand for outcomes  *)
(* of every kind: the retry of one may come later than the run lasts.      *)
(***************************************************************************)
EXTENDS ProcessingStates, FiniteSets, FiniteSetsExt

CONSTANTS
    Group,       \* input entity ids of the job group, in order
    Awaited,     \* the entities whose jobs wait for ancillary data
    States,      \* the states a lookup of the next attempt lists, in order
    Submitters,  \* submitter invocations that may run at the same time
    MaxAttempt,  \* bound: attempts of an entity
    MaxTriggers, \* bound: times an entity's trigger fires
    MaxRuns,     \* bound: submitter invocations
    MaxLookups   \* bound: lookups of the next attempt

Entities == {Group[k] : k \in DOMAIN Group}
Attempts == 1..MaxAttempt

ASSUME SubmissionAssumption ==
    /\ Group \in Seq(Entities) /\ Len(Group) >= 1 /\ Awaited \subseteq Entities
    /\ States \in Seq({States[k] : k \in DOMAIN States})
    /\ {AWAITING, FAILURE_RETRYABLE} \subseteq {States[k] : k \in DOMAIN States}
    /\ \A k \in DOMAIN States : States[k].name \notin {"AWAITING_ANCILLARY", "SUBMITTED"}
    /\ {MaxAttempt, MaxTriggers, MaxRuns, MaxLookups} \subseteq Nat /\ MaxAttempt >= 1

VARIABLES
    bucket,         \* the keys of the state pointers under state/
    claim_declared, \* whether the job type declares the claim among its submitter states
    retiring,       \* pointers the monitor has superseded and not yet deleted
    submitted,      \* the (entity, attempt) for which a Batch job was submitted
    reported,       \* states the monitor has had events of, by entity and attempt
    claimed,        \* jobs submitted under a claim, by entity
    fired,          \* triggers by entity
    runs, lookups,  \* submitter invocations and lookups so far
    \* Local to a submitter:
    step,           \* its next call
    listed,         \* entities of the keys listed and not yet read, in order
    todo,           \* entities of the pointers list_by_state returned, in order
    \* The ad hoc resubmitter:
    lookup,         \* its next LIST, and the attempt it has come to
    stayed          \* the monitor's pointers that were there all through its lookup

submitter_locals == <<step, listed, todo>>
resubmitter_locals == <<lookup, lookups>>
batch == <<submitted, reported, claimed>>
monitor_side == <<claim_declared, retiring, batch>>
submission_vars ==
    <<bucket, monitor_side, fired, runs, submitter_locals, resubmitter_locals, stayed>>

Key(name, entity, attempt) == [name |-> name, entity |-> entity, attempt |-> attempt]
Waiting(e) == Key("AWAITING_ANCILLARY", e, 1)
Claim(e) == Key("SUBMITTED", e, 1)
SubmitterPointers(e) == IF claim_declared THEN {Waiting(e), Claim(e)} ELSE {Waiting(e)}

StateOf(p) == {States[i] : i \in {k \in DOMAIN States : States[k].name = p.name}}
Rank(p) == Max({rank(s) : s \in StateOf(p)})
Monitored == {p \in bucket : StateOf(p) # {}}
Order(p) == 3 * p.attempt + Rank(p)

-----------------------------------------------------------------------------
(* The submitter of src/README.md *)

\* write_state_pointer_conditional: a second trigger finds the pointer there.
Trigger(e) ==
    /\ e \in Awaited /\ fired[e] < MaxTriggers
    /\ fired' = [fired EXCEPT ![e] = @ + 1]
    /\ bucket' = bucket \cup {Waiting(e)}
    /\ UNCHANGED <<monitor_side, runs, submitter_locals, resubmitter_locals>>

At(s, call) == step' = [step EXCEPT ![s] = call]
Pop(queue, s) == [queue EXCEPT ![s] = Tail(@)]

\* The loop over the pointers moves on, or ends.
NextWaiting(s) ==
    /\ todo' = Pop(todo, s)
    /\ At(s, IF Len(todo[s]) = 1 THEN "idle" ELSE "claim")

\* list_by_state: LIST, through all its pages.
ListWaiting(s) ==
    /\ step[s] = "idle" /\ runs < MaxRuns
    /\ runs' = runs + 1
    /\ listed' = [listed EXCEPT ![s] = SelectSeq(Group, LAMBDA e : Waiting(e) \in bucket)]
    /\ At(s, "read")
    /\ UNCHANGED <<bucket, monitor_side, fired, todo, resubmitter_locals>>

\* GET of each key: a pointer that is gone is skipped.
ReadWaiting(s) ==
    /\ step[s] = "read" /\ listed[s] # <<>>
    /\ listed' = Pop(listed, s)
    /\ todo' = IF Waiting(Head(listed[s])) \in bucket
               THEN [todo EXCEPT ![s] = Append(@, Head(listed[s]))] ELSE todo
    /\ UNCHANGED <<bucket, monitor_side, fired, runs, step, resubmitter_locals>>

EndRead(s) ==
    /\ step[s] = "read" /\ listed[s] = <<>>
    /\ At(s, IF todo[s] = <<>> THEN "idle" ELSE "claim")
    /\ UNCHANGED <<bucket, monitor_side, fired, runs, listed, todo, resubmitter_locals>>

\* Mutant: the claim is a plain PUT.
ClaimPlainly(s) ==
    /\ step[s] = "claim"
    /\ bucket' = bucket \cup {Claim(Head(todo[s]))}
    /\ At(s, "submit")
    /\ UNCHANGED <<monitor_side, fired, runs, listed, todo, resubmitter_locals>>

\* Mutant: the pointer is deleted before the job is submitted.
ClaimAndDelete(s) ==
    /\ step[s] = "claim" /\ Claim(Head(todo[s])) \notin bucket
    /\ bucket' = (bucket \cup {Claim(Head(todo[s]))}) \ {Waiting(Head(todo[s]))}
    /\ At(s, "submit")
    /\ UNCHANGED <<monitor_side, fired, runs, listed, todo, resubmitter_locals>>

\* write_state_pointer_conditional returns True: the entity is this submitter's.
ClaimEntity(s) ==
    /\ step[s] = "claim" /\ Claim(Head(todo[s])) \notin bucket
    /\ bucket' = bucket \cup {Claim(Head(todo[s]))}
    /\ At(s, "submit")
    /\ UNCHANGED <<monitor_side, fired, runs, listed, todo, resubmitter_locals>>

\* It returns False.
LeaveEntity(s) ==
    /\ step[s] = "claim" /\ Claim(Head(todo[s])) \in bucket
    /\ NextWaiting(s)
    /\ UNCHANGED <<bucket, monitor_side, fired, runs, listed, resubmitter_locals>>

\* submit_job: the pointer's entity, at its first attempt.
SubmitClaimed(s) ==
    /\ step[s] = "submit"
    /\ submitted' = submitted \cup {<<Head(todo[s]), 1>>}
    /\ claimed' = [claimed EXCEPT ![Head(todo[s])] = @ + 1]
    /\ At(s, "delete")
    /\ UNCHANGED <<bucket, claim_declared, retiring, reported, fired, runs, listed, todo,
                   resubmitter_locals>>

\* delete_state_pointer, whose failure is logged and swallowed.
DeleteWaiting(s) ==
    /\ step[s] = "delete"
    /\ bucket' = bucket \ {Waiting(Head(todo[s]))} \/ UNCHANGED bucket
    /\ NextWaiting(s)
    /\ UNCHANGED <<monitor_side, fired, runs, listed, resubmitter_locals>>

Stop(s) ==
    /\ step[s] # "idle"
    /\ At(s, "idle")
    /\ listed' = [listed EXCEPT ![s] = <<>>] /\ todo' = [todo EXCEPT ![s] = <<>>]
    /\ UNCHANGED <<bucket, monitor_side, fired, runs, resubmitter_locals>>

Submitter(s) ==
    \/ ListWaiting(s) \/ ReadWaiting(s) \/ EndRead(s)
    \/ ClaimEntity(s) \/ LeaveEntity(s) \/ SubmitClaimed(s) \/ DeleteWaiting(s) \/ Stop(s)

-----------------------------------------------------------------------------
(* Ad hoc resubmission: next_group_attempt, then submit_job *)

NoLookup == [at |-> "idle", entity |-> 1, state |-> 1, attempt |-> 1]

StartLookup ==
    /\ lookup.at = "idle" /\ lookups < MaxLookups
    /\ lookups' = lookups + 1
    /\ lookup' = [NoLookup EXCEPT !.at = "list"]
    /\ UNCHANGED <<bucket, monitor_side, fired, runs, submitter_locals>>

Listed == {p \in bucket : /\ p.name = States[lookup.state].name
                          /\ p.entity = Group[lookup.entity]}

Highest(S) == {a \in S : \A b \in S : b <= a}
Above == {p.attempt + 1 : p \in Listed}

\* Mutant: the entity listed last decides.
LastAttempt == Highest({1} \cup Above \cup IF lookup.state = 1 THEN {} ELSE {lookup.attempt})

\* next_attempt is one above the highest attempt listed; the group's is the
\* highest of its entities'.
NextAttempt == Highest({lookup.attempt} \cup Above)

\* find_active_pointer: one LIST per state, for one entity after the other.  (A
\* GET that fails afterwards hides its pointer: JobMonitor's ReadFaults.)
ListForAttempt ==
    /\ lookup.at = "list"
    /\ \E a \in NextAttempt :
          lookup' =
              IF lookup.state < Len(States)
              THEN [lookup EXCEPT !.attempt = a, !.state = @ + 1]
              ELSE IF lookup.entity < Len(Group)
              THEN [lookup EXCEPT !.attempt = a, !.state = 1, !.entity = @ + 1]
              ELSE [lookup EXCEPT !.attempt = a, !.at = "submit"]
    /\ UNCHANGED <<bucket, monitor_side, fired, runs, submitter_locals, lookups>>

\* submit_job for the whole group at the attempt found.
SubmitNext ==
    /\ lookup.at = "submit" /\ lookup.attempt \in Attempts
    /\ submitted' = submitted \cup (Entities \X {lookup.attempt})
    /\ lookup' = NoLookup
    /\ UNCHANGED <<bucket, claim_declared, retiring, reported, claimed, fired, runs,
                   submitter_locals, lookups>>

\* It is stopped, or the attempt is beyond the bound.
StopLookup ==
    /\ lookup.at # "idle"
    /\ lookup' = NoLookup
    /\ UNCHANGED <<bucket, monitor_side, fired, runs, submitter_locals, lookups>>

Resubmitter == StartLookup \/ ListForAttempt \/ SubmitNext \/ StopLookup

-----------------------------------------------------------------------------
(* The monitor, the Batch jobs it hears of, and the retry loop *)

Outranked(p) == {q \in Monitored : q.entity = p.entity /\ Order(q) < Order(p)}
Outranks(p) == \A q \in Monitored : q.entity = p.entity => Order(q) <= Order(p)

\* An event of a job: its attempt's submitter pointers are deleted whether or
\* not it moves the entity's pointer.
RecordEvent(e, a, s) ==
    /\ <<e, a>> \in submitted
    /\ reported' = reported \cup {[entity |-> e, attempt |-> a, state |-> s]}
    /\ LET p == Key(s.name, e, a)
           kept == IF a = 1 THEN bucket \ SubmitterPointers(e) ELSE bucket
       IN  IF Outranks(p) THEN bucket' = kept \cup {p} /\ retiring' = retiring \cup Outranked(p)
           ELSE bucket' = kept /\ UNCHANGED retiring
    /\ UNCHANGED <<claim_declared, submitted, claimed, fired, runs, submitter_locals,
                   resubmitter_locals>>

RetirePointer(p) ==
    /\ p \in retiring
    /\ retiring' = retiring \ {p}
    /\ bucket' = bucket \ {p}
    /\ UNCHANGED <<claim_declared, batch, fired, runs, submitter_locals, resubmitter_locals>>

\* resubmit_job, once for a retryable failure.
Retry(e, a) ==
    /\ [entity |-> e, attempt |-> a, state |-> FAILURE_RETRYABLE] \in reported
    /\ a + 1 \in Attempts /\ <<e, a + 1>> \notin submitted
    /\ submitted' = submitted \cup {<<e, a + 1>>}
    /\ UNCHANGED <<bucket, claim_declared, retiring, reported, claimed, fired, runs,
                   submitter_locals, resubmitter_locals>>

Monitor ==
    \/ \E e \in Entities, a \in Attempts :
          \/ \E s \in {AWAITING, FAILURE_RETRYABLE} : RecordEvent(e, a, s)
          \/ Retry(e, a)
    \/ \E p \in retiring : RetirePointer(p)

-----------------------------------------------------------------------------
SubmissionInit ==
    /\ bucket = {} /\ claim_declared \in BOOLEAN /\ retiring = {}
    /\ submitted = {}
    /\ reported = {}
    /\ claimed = [e \in Entities |-> 0]
    /\ fired = [e \in Entities |-> 0] /\ runs = 0 /\ lookups = 0
    /\ step = [s \in Submitters |-> "idle"]
    /\ listed = [s \in Submitters |-> <<>>]
    /\ todo = [s \in Submitters |-> <<>>]
    /\ lookup = NoLookup /\ stayed = {}

\* The monitor's pointers that stay while a lookup runs, for the properties.
Stay == stayed' = IF lookup'.at = "idle" THEN {}
                  ELSE IF lookup.at = "idle" THEN Monitored ELSE stayed \cap bucket'

\* Nobody is at work.
AllIdle == lookup.at = "idle" /\ \A s \in Submitters : step[s] = "idle"

SubmissionNext ==
    \/ /\ (\E e \in Entities : Trigger(e)) \/ (\E s \in Submitters : Submitter(s))
             \/ Resubmitter \/ Monitor
       /\ Stay
    \/ AllIdle /\ UNCHANGED submission_vars

SubmissionSpec == SubmissionInit /\ [][SubmissionNext]_submission_vars

-----------------------------------------------------------------------------
(* Properties *)

\* A claim excludes: an entity is submitted again under a claim only when the
\* claim is a declared submitter state and the monitor, on an event of the first
\* job, has deleted it ("returns False if another invocation already claimed
\* it").  An undeclared claim is for good.
ClaimExcludes ==
    \A e \in Entities : claimed[e] > 1 =>
        claim_declared /\ \E r \in reported : r.entity = e /\ r.attempt = 1

\* An entity whose trigger has fired is listed until its job is submitted,
\* wherever its submitters stop and however its claims end.
WaitingIsKept ==
    \A e \in Entities : fired[e] > 0 /\ <<e, 1>> \notin submitted => Waiting(e) \in bucket

\* The attempt next_group_attempt comes to is above that of every pointer of the
\* group that was there from before the first LIST to the last ("one greater than the
\* furthest-along entity's"): a pointer that moves meanwhile may be missed.
NextAttemptIsNew ==
    lookup.at = "submit" => \A p \in stayed : lookup.attempt > p.attempt
===============================================================================
