--------------------------- MODULE Submission_proofs ---------------------------
(***************************************************************************)
(* Proofs about Submission, for any group, any number of submitters and    *)
(* any order of what they, the resubmitter and the monitor do.             *)
(***************************************************************************)
EXTENDS Submission, TLAPS

-----------------------------------------------------------------------------
(* The inductive invariant *)

\* The monitor may have deleted the entity's declared claim.
Freed(e) == claim_declared /\ \E r \in reported : r.entity = e /\ r.attempt = 1

\* Submitter s holds the claim of entity e and is about to submit its job.
Submitting(s, e) == step[s] = "submit" /\ Head(todo[s]) = e

\* A claim is held by one submitter, or stands for the job submitted under it.
ClaimHeld(e) ==
    /\ claimed[e] <= 1
    /\ claimed[e] = 1 => Claim(e) \in bucket /\ \A s \in Submitters : ~Submitting(s, e)
    /\ \A s \in Submitters : Submitting(s, e) => Claim(e) \in bucket
    /\ \A s, t \in Submitters : Submitting(s, e) /\ Submitting(t, e) => s = t

SubmissionInv ==
    /\ DOMAIN step = Submitters /\ DOMAIN todo = Submitters
    /\ DOMAIN claimed = Entities /\ \A e \in Entities : claimed[e] \in Nat
    /\ DOMAIN fired = Entities
    /\ \A p \in retiring : StateOf(p) # {}
    /\ \A s \in Submitters : step[s] = "delete" => <<Head(todo[s]), 1>> \in submitted
    /\ WaitingIsKept
    /\ \A e \in Entities : Freed(e) \/ ClaimHeld(e)

-----------------------------------------------------------------------------
(* Keys *)

\* The keys of the submitter pointers are their own, and not the monitor's.
LEMMA KeyFacts ==
    /\ \A e, f : /\ Waiting(e) = Waiting(f) <=> e = f
                 /\ Claim(e) = Claim(f) <=> e = f
                 /\ Waiting(e) # Claim(f)
    /\ \A p, e : StateOf(p) # {} => p # Waiting(e) /\ p # Claim(e)
<1>1. \A e, f : /\ Waiting(e) = Waiting(f) <=> e = f
                /\ Claim(e) = Claim(f) <=> e = f
                /\ Waiting(e) # Claim(f)
  BY DEF Waiting, Claim, Key
<1>2. ASSUME NEW p, NEW e, StateOf(p) # {} PROVE p # Waiting(e) /\ p # Claim(e)
  <2>1. PICK k \in DOMAIN States : States[k].name = p.name
    BY <1>2 DEF StateOf
  <2>2. p.name # "AWAITING_ANCILLARY" /\ p.name # "SUBMITTED"
    BY <2>1, SubmissionAssumption
  <2> QED
    BY <2>2 DEF Waiting, Claim, Key
<1> QED
  BY <1>1, <1>2

-----------------------------------------------------------------------------
(* The monitor *)

\* What an invocation of the monitor deletes: the submitter pointers of an
\* entity whose job it has heard of, or a pointer it has superseded.
LEMMA RecordEventFacts ==
    ASSUME SubmissionInv, NEW e \in Entities, NEW a \in Attempts, NEW s, RecordEvent(e, a, s)
    PROVE  /\ <<e, a>> \in submitted
           /\ \E r \in reported' : r.entity = e /\ r.attempt = a
           /\ reported \subseteq reported' /\ \A p \in retiring' : StateOf(p) # {}
           /\ bucket \subseteq bucket' \/ (a = 1 /\ bucket \ SubmitterPointers(e) \subseteq bucket')
           /\ UNCHANGED <<claim_declared, submitted, claimed, fired, step, todo>>
<1>1. \A p : \A q \in Outranked(p) : StateOf(q) # {}
  BY DEF Outranked, Monitored
<1>2. retiring' = retiring \/ \E p : retiring' = retiring \cup Outranked(p)
  BY DEF RecordEvent
<1>3. \A p \in retiring' : StateOf(p) # {}
  BY <1>1, <1>2 DEF SubmissionInv
<1>4. \E r \in reported' : r.entity = e /\ r.attempt = a
  <2>1. [entity |-> e, attempt |-> a, state |-> s] \in reported'
    BY DEF RecordEvent
  <2> QED
    BY <2>1
<1>5. bucket \subseteq bucket' \/ (a = 1 /\ bucket \ SubmitterPointers(e) \subseteq bucket')
  BY DEF RecordEvent
<1> QED
  BY <1>3, <1>4, <1>5 DEF RecordEvent, submitter_locals

\* A step of the monitor leaves the submitters alone.
LEMMA MonitorSteps ==
    ASSUME SubmissionInv, Monitor
    PROVE  SubmissionInv'
<1>1. ASSUME NEW e \in Entities, NEW a \in Attempts, NEW s, RecordEvent(e, a, s)
      PROVE  SubmissionInv'
  <2>1. /\ <<e, a>> \in submitted
        /\ \E r \in reported' : r.entity = e /\ r.attempt = a
        /\ reported \subseteq reported' /\ \A p \in retiring' : StateOf(p) # {}
        /\ bucket \subseteq bucket' \/ (a = 1 /\ bucket \ SubmitterPointers(e) \subseteq bucket')
        /\ UNCHANGED <<claim_declared, submitted, claimed, fired, step, todo>>
    BY <1>1, RecordEventFacts
  <2>2. WaitingIsKept'
    <3> SUFFICES ASSUME NEW f \in Entities, fired[f] > 0, <<f, 1>> \notin submitted
                 PROVE  Waiting(f) \in bucket'
      BY <2>1 DEF WaitingIsKept
    <3>1. Waiting(f) \in bucket
      BY DEF SubmissionInv, WaitingIsKept
    <3>2. a = 1 => Waiting(f) \notin SubmitterPointers(e)
      BY <2>1, KeyFacts DEF SubmitterPointers
    <3> QED
      BY <2>1, <3>1, <3>2
  <2>3. ASSUME NEW f \in Entities PROVE Freed(f)' \/ ClaimHeld(f)'
    <3>1. CASE Freed(f)
      BY <2>1, <3>1 DEF Freed
    <3>2. CASE f = e /\ a = 1 /\ claim_declared
      BY <2>1, <3>2 DEF Freed
    <3>3. CASE ~Freed(f) /\ ~(f = e /\ a = 1 /\ claim_declared)
      <4>1. ClaimHeld(f)
        BY <3>3 DEF SubmissionInv
      <4>2. Claim(f) \in bucket => Claim(f) \in bucket'
        BY <2>1, <3>3, KeyFacts DEF SubmitterPointers
      <4> QED
        BY <2>1, <4>1, <4>2 DEF ClaimHeld, Submitting
    <3> QED
      BY <3>1, <3>2, <3>3
  <2> QED
    BY <2>1, <2>2, <2>3 DEF SubmissionInv
<1>2. ASSUME NEW p \in retiring, RetirePointer(p) PROVE SubmissionInv'
  <2>1. /\ bucket' = bucket \ {p} /\ retiring' \subseteq retiring
        /\ UNCHANGED <<claim_declared, submitted, reported, claimed, fired, step, todo>>
    BY <1>2 DEF RetirePointer, batch, submitter_locals
  <2>2. \A e : p # Waiting(e) /\ p # Claim(e)
    BY KeyFacts DEF SubmissionInv
  <2> QED
    BY <2>1, <2>2 DEF SubmissionInv, WaitingIsKept, Freed, ClaimHeld, Submitting
<1>3. ASSUME NEW e \in Entities, NEW a \in Attempts, Retry(e, a) PROVE SubmissionInv'
  <2>1. /\ submitted \subseteq submitted'
        /\ UNCHANGED <<bucket, claim_declared, retiring, reported, claimed, fired, step, todo>>
    BY <1>3 DEF Retry, submitter_locals
  <2> QED
    BY <2>1 DEF SubmissionInv, WaitingIsKept, Freed, ClaimHeld, Submitting
<1> QED
  BY <1>1, <1>2, <1>3 DEF Monitor

-----------------------------------------------------------------------------
(* Submitters *)

\* A submitter that has not reached its claim, or has finished with it.
LEMMA QuietSteps ==
    ASSUME SubmissionInv, NEW s \in Submitters, NEW call, call \notin {"submit", "delete"},
           step' = [step EXCEPT ![s] = call], DOMAIN todo' = Submitters,
           \A t \in Submitters : t # s => todo'[t] = todo[t],
           \/ bucket' = bucket
           \/ step[s] = "delete" /\ bucket' = bucket \ {Waiting(Head(todo[s]))},
           UNCHANGED <<claim_declared, retiring, submitted, reported, claimed, fired>>
    PROVE  SubmissionInv'
<1>1. \A t \in Submitters, e \in Entities : Submitting(t, e)' => Submitting(t, e)
  BY DEF SubmissionInv, Submitting
<1>2. \A e : Claim(e) \in bucket => Claim(e) \in bucket'
  BY KeyFacts
<1>3. WaitingIsKept'
  <2> SUFFICES ASSUME NEW e \in Entities, fired[e] > 0, <<e, 1>> \notin submitted
               PROVE  Waiting(e) \in bucket'
    BY DEF WaitingIsKept
  <2>1. Waiting(e) \in bucket
    BY DEF SubmissionInv, WaitingIsKept
  <2>2. step[s] = "delete" => Head(todo[s]) # e
    BY DEF SubmissionInv
  <2> QED
    BY <2>1, <2>2, KeyFacts
<1>4. \A e \in Entities : Freed(e)' \/ ClaimHeld(e)'
  BY <1>1, <1>2 DEF SubmissionInv, Freed, ClaimHeld
<1>5. \A t \in Submitters : step'[t] = "delete" => <<Head(todo'[t]), 1>> \in submitted'
  BY DEF SubmissionInv
<1> QED
  BY <1>3, <1>4, <1>5 DEF SubmissionInv

\* The conditional write lets one submitter at a time past, and none once a job
\* has been submitted under the claim.
LEMMA ClaimSteps ==
    ASSUME SubmissionInv, NEW s \in Submitters, ClaimEntity(s)
    PROVE  SubmissionInv'
<1> DEFINE c == Head(todo[s])
<1>1. /\ Claim(c) \notin bucket /\ bucket' = bucket \cup {Claim(c)}
      /\ step' = [step EXCEPT ![s] = "submit"] /\ todo' = todo
      /\ UNCHANGED <<claim_declared, retiring, submitted, reported, claimed, fired>>
  BY DEF ClaimEntity, At, monitor_side, batch
<1>2. \A t \in Submitters, e \in Entities :
         Submitting(t, e)' <=> (Submitting(t, e) /\ t # s) \/ (t = s /\ e = c)
  BY <1>1 DEF SubmissionInv, Submitting
<1>3. ASSUME NEW e \in Entities PROVE Freed(e)' \/ ClaimHeld(e)'
  <2>1. CASE Freed(e)
    BY <1>1, <2>1 DEF Freed
  <2>2. CASE ~Freed(e) /\ e # c
    BY <1>1, <1>2, <2>2 DEF SubmissionInv, ClaimHeld
  <2>3. CASE ~Freed(e) /\ e = c
    <3>1. claimed[e] \in Nat /\ claimed[e] # 1 /\ claimed[e] <= 1 /\ \A t \in Submitters : ~Submitting(t, e)
      BY <1>1, <2>3 DEF SubmissionInv, ClaimHeld
    <3> QED
      BY <1>1, <1>2, <2>3, <3>1 DEF ClaimHeld
  <2> QED
    BY <2>1, <2>2, <2>3
<1>4. \A t \in Submitters : step'[t] = "delete" => <<Head(todo'[t]), 1>> \in submitted'
  BY <1>1 DEF SubmissionInv
<1>5. WaitingIsKept'
  BY <1>1 DEF SubmissionInv, WaitingIsKept
<1> QED
  BY <1>1, <1>3, <1>4, <1>5 DEF SubmissionInv

\* The job is submitted under the claim its submitter holds.
LEMMA SubmitSteps ==
    ASSUME SubmissionInv, NEW s \in Submitters, SubmitClaimed(s)
    PROVE  SubmissionInv'
<1> DEFINE c == Head(todo[s])
<1>1. /\ step[s] = "submit" /\ submitted' = submitted \cup {<<c, 1>>}
      /\ claimed' = [claimed EXCEPT ![c] = @ + 1]
      /\ step' = [step EXCEPT ![s] = "delete"]
      /\ UNCHANGED <<bucket, claim_declared, retiring, reported, fired, todo>>
  BY DEF SubmitClaimed, At
<1>2. \A t \in Submitters, e \in Entities : Submitting(t, e)' <=> Submitting(t, e) /\ t # s
  BY <1>1 DEF SubmissionInv, Submitting
<1>3. \A e \in Entities : claimed'[e] = IF e = c THEN claimed[e] + 1 ELSE claimed[e]
  BY <1>1 DEF SubmissionInv
<1>4. ASSUME NEW e \in Entities PROVE Freed(e)' \/ ClaimHeld(e)'
  <2>1. CASE Freed(e)
    BY <1>1, <2>1 DEF Freed
  <2>2. CASE ~Freed(e) /\ e # c
    BY <1>1, <1>2, <1>3, <2>2 DEF SubmissionInv, ClaimHeld
  <2>3. CASE ~Freed(e) /\ e = c
    <3>1. Submitting(s, e) /\ claimed[e] \in Nat /\ ClaimHeld(e)
      BY <1>1, <2>3 DEF SubmissionInv, Submitting
    <3>2. claimed[e] = 0 /\ Claim(e) \in bucket /\ \A t \in Submitters : Submitting(t, e) => t = s
      BY <3>1 DEF ClaimHeld
    <3>3. claimed'[e] = 1
      BY <1>3, <2>3, <3>2
    <3> QED
      BY <1>1, <1>2, <3>2, <3>3 DEF ClaimHeld
  <2> QED
    BY <2>1, <2>2, <2>3
<1>5. \A t \in Submitters : step'[t] = "delete" => <<Head(todo'[t]), 1>> \in submitted'
  BY <1>1 DEF SubmissionInv
<1>6. WaitingIsKept'
  BY <1>1 DEF SubmissionInv, WaitingIsKept
<1>7. \A e \in Entities : claimed'[e] \in Nat
  BY <1>3 DEF SubmissionInv
<1>8. DOMAIN claimed' = Entities /\ DOMAIN step' = Submitters /\ DOMAIN todo' = Submitters
  BY <1>1 DEF SubmissionInv
<1> QED
  BY <1>1, <1>4, <1>5, <1>6, <1>7, <1>8 DEF SubmissionInv

LEMMA SubmitterSteps ==
    ASSUME SubmissionInv, NEW s \in Submitters, Submitter(s)
    PROVE  SubmissionInv'
<1>0. DOMAIN todo = Submitters /\ DOMAIN step = Submitters
  BY DEF SubmissionInv
<1>1. CASE ListWaiting(s)
  <2>1. step' = [step EXCEPT ![s] = "read"] /\ todo' = todo /\ bucket' = bucket
        /\ UNCHANGED <<claim_declared, retiring, submitted, reported, claimed, fired>>
    BY <1>1 DEF ListWaiting, At, monitor_side, batch
  <2> QED
    BY <1>0, <2>1, QuietSteps
<1>2. CASE ReadWaiting(s)
  <2>1. /\ step' = step /\ step[s] = "read" /\ bucket' = bucket
        /\ todo' = todo \/ todo' = [todo EXCEPT ![s] = Append(@, Head(listed[s]))]
        /\ UNCHANGED <<claim_declared, retiring, submitted, reported, claimed, fired>>
    BY <1>2 DEF ReadWaiting, monitor_side, batch
  <2>2. DOMAIN todo' = Submitters /\ \A t \in Submitters : t # s => todo'[t] = todo[t]
    BY <1>0, <2>1
  <2>3. \A t \in Submitters, e \in Entities : Submitting(t, e)' <=> Submitting(t, e)
    BY <2>1, <2>2 DEF Submitting
  <2>4. \A t \in Submitters : step'[t] = "delete" => <<Head(todo'[t]), 1>> \in submitted'
    BY <2>1, <2>2 DEF SubmissionInv
  <2> QED
    BY <2>1, <2>2, <2>3, <2>4 DEF SubmissionInv, WaitingIsKept, Freed, ClaimHeld
<1>3. CASE EndRead(s)
  <2>1. PICK call \in {"idle", "claim"} : step' = [step EXCEPT ![s] = call]
    BY <1>3 DEF EndRead, At
  <2>2. UNCHANGED <<bucket, todo, claim_declared, retiring, submitted, reported, claimed, fired>>
    BY <1>3 DEF EndRead, monitor_side, batch
  <2> QED
    BY <1>0, <2>1, <2>2, QuietSteps
<1>4. ASSUME NextWaiting(s)
      PROVE  /\ \E call \in {"idle", "claim"} : step' = [step EXCEPT ![s] = call]
             /\ DOMAIN todo' = Submitters /\ \A t \in Submitters : t # s => todo'[t] = todo[t]
  BY <1>0, <1>4 DEF NextWaiting, At, Pop
<1>5. CASE LeaveEntity(s)
  <2>1. NextWaiting(s)
        /\ UNCHANGED <<bucket, claim_declared, retiring, submitted, reported, claimed, fired>>
    BY <1>5 DEF LeaveEntity, monitor_side, batch
  <2>2. PICK call \in {"idle", "claim"} : step' = [step EXCEPT ![s] = call]
    BY <1>4, <2>1
  <2> QED
    BY <1>4, <2>1, <2>2, QuietSteps
<1>6. CASE DeleteWaiting(s)
  <2>1. /\ NextWaiting(s) /\ step[s] = "delete"
        /\ bucket' = bucket \/ bucket' = bucket \ {Waiting(Head(todo[s]))}
        /\ UNCHANGED <<claim_declared, retiring, submitted, reported, claimed, fired>>
    BY <1>6 DEF DeleteWaiting, monitor_side, batch
  <2>2. PICK call \in {"idle", "claim"} : step' = [step EXCEPT ![s] = call]
    BY <1>4, <2>1
  <2> QED
    BY <1>4, <2>1, <2>2, QuietSteps
<1>7. CASE Stop(s)
  <2>1. /\ step' = [step EXCEPT ![s] = "idle"] /\ todo' = [todo EXCEPT ![s] = <<>>]
        /\ UNCHANGED <<bucket, claim_declared, retiring, submitted, reported, claimed, fired>>
    BY <1>7 DEF Stop, At, monitor_side, batch
  <2>2. DOMAIN todo' = Submitters /\ \A t \in Submitters : t # s => todo'[t] = todo[t]
    BY <1>0, <2>1
  <2> QED
    BY <2>1, <2>2, QuietSteps
<1> QED
  BY <1>1, <1>2, <1>3, <1>5, <1>6, <1>7, ClaimSteps, SubmitSteps DEF Submitter

-----------------------------------------------------------------------------
(* The promises *)

\* A trigger lists its entity, and the resubmitter only submits.
LEMMA SubmissionInvStep ==
    ASSUME SubmissionInv, [SubmissionNext]_submission_vars
    PROVE  SubmissionInv'
<1>1. ASSUME NEW e \in Entities, Trigger(e) PROVE SubmissionInv'
  <2>1. /\ bucket' = bucket \cup {Waiting(e)} /\ fired' = [fired EXCEPT ![e] = @ + 1]
        /\ UNCHANGED <<claim_declared, retiring, submitted, reported, claimed, step, todo>>
    BY <1>1 DEF Trigger, monitor_side, batch, submitter_locals
  <2>2. DOMAIN fired' = Entities /\ \A f \in Entities : f # e => fired'[f] = fired[f]
    BY <2>1 DEF SubmissionInv
  <2> QED
    BY <2>1, <2>2 DEF SubmissionInv, WaitingIsKept, Freed, ClaimHeld, Submitting
<1>2. CASE Resubmitter
  <2>1. /\ submitted \subseteq submitted'
        /\ UNCHANGED <<bucket, claim_declared, retiring, reported, claimed, fired, step, todo>>
    BY <1>2 DEF Resubmitter, StartLookup, ListForAttempt, SubmitNext, StopLookup, monitor_side,
       batch, submitter_locals
  <2> QED
    BY <2>1 DEF SubmissionInv, WaitingIsKept, Freed, ClaimHeld, Submitting
<1>3. CASE UNCHANGED submission_vars
  BY <1>3 DEF SubmissionInv, WaitingIsKept, Freed, ClaimHeld, Submitting, submission_vars,
     monitor_side, batch, submitter_locals
<1> QED
  BY <1>1, <1>2, <1>3, MonitorSteps, SubmitterSteps DEF SubmissionNext

LEMMA SubmissionInitInv == SubmissionInit => SubmissionInv
BY DEF SubmissionInit, SubmissionInv, WaitingIsKept, ClaimHeld, Submitting

\* A claim is held by one submitter, or stands for the job submitted under it.
THEOREM SubmissionInvariantHolds == SubmissionSpec => []SubmissionInv
<1>1. SubmissionInv /\ [SubmissionNext]_submission_vars => SubmissionInv'
  BY SubmissionInvStep
<1> QED
  BY <1>1, SubmissionInitInv, PTL DEF SubmissionSpec

\* A claim excludes any number of submitters, unless it is declared and the
\* monitor has deleted it on the first job's event.
THEOREM ClaimsExclude == SubmissionSpec => []ClaimExcludes
<1>1. SubmissionInv => ClaimExcludes
  BY DEF SubmissionInv, ClaimExcludes, Freed, ClaimHeld
<1> QED
  BY <1>1, SubmissionInvariantHolds, PTL

\* An entity whose trigger has fired stays listed until its job is submitted.
THEOREM WaitingKept == SubmissionSpec => []WaitingIsKept
<1>1. SubmissionInv => WaitingIsKept
  BY DEF SubmissionInv
<1> QED
  BY <1>1, SubmissionInvariantHolds, PTL

-----------------------------------------------------------------------------
(* The next attempt *)

\* The lookup has been through a LIST of the state of p, for the entity of p.
Passed(p) ==
    \E k \in 1..Len(Group), i \in 1..Len(States) :
        /\ p.entity = Group[k] /\ p.name = States[i].name
        /\ k < lookup.entity \/ (k = lookup.entity /\ i < lookup.state)

\* Its attempt is above those of the pointers it has passed, and stay.
LookupInv ==
    /\ \A p \in Monitored : p.entity \in Entities /\ p.attempt \in Nat
    /\ lookup = [at |-> lookup.at, entity |-> lookup.entity, state |-> lookup.state,
                 attempt |-> lookup.attempt]
    /\ lookup.entity \in 1..Len(Group) /\ lookup.state \in 1..Len(States)
    /\ lookup.attempt \in Nat
    /\ stayed \subseteq Monitored
    /\ lookup.at = "list" => \A p \in stayed : Passed(p) => lookup.attempt > p.attempt
    /\ NextAttemptIsNew

LEMMA SequenceFacts ==
    /\ Len(Group) \in Nat /\ Len(Group) >= 1 /\ Entities = {Group[k] : k \in 1..Len(Group)}
    /\ Len(States) \in Nat /\ Len(States) >= 1 /\ DOMAIN States = 1..Len(States)
<1>1. /\ Group \in Seq(Entities) /\ States \in Seq({States[k] : k \in DOMAIN States})
      /\ AWAITING \in {States[k] : k \in DOMAIN States} /\ Len(Group) >= 1
  BY SubmissionAssumption
<1>2. PICK k \in DOMAIN States : States[k] = AWAITING
  BY <1>1
<1> QED
  BY <1>1, <1>2 DEF Entities

\* A pointer is of one of the states that are listed, for one of the entities.
LEMMA ListedSomewhere ==
    ASSUME NEW p \in Monitored, p.entity \in Entities
    PROVE  \E k \in 1..Len(Group), i \in 1..Len(States) :
              p.entity = Group[k] /\ p.name = States[i].name
<1>1. PICK k \in 1..Len(Group) : p.entity = Group[k]
  BY SequenceFacts
<1>2. PICK i \in DOMAIN States : States[i].name = p.name
  BY DEF Monitored, StateOf
<1> QED
  BY <1>1, <1>2, SequenceFacts

\* Only the monitor puts pointers of the states that are listed.
LEMMA PointersStep ==
    ASSUME LookupInv, SubmissionInv, [SubmissionNext]_submission_vars
    PROVE  /\ \A p \in Monitored' : p.entity \in Entities /\ p.attempt \in Nat
           /\ Monitored' = {p \in bucket' : StateOf(p) # {}}
<1>1. \A p \in Monitored' \ Monitored : p \in bucket' \ bucket /\ StateOf(p) # {}
  BY DEF Monitored, StateOf
<1>2. \A p \in bucket' \ bucket :
         \/ \E e : p = Waiting(e) \/ p = Claim(e)
         \/ \E e \in Entities, a \in Attempts : \E name : p = Key(name, e, a)
  <2>1. ASSUME NEW e \in Entities, NEW a \in Attempts, NEW s, RecordEvent(e, a, s)
        PROVE  bucket' \subseteq bucket \cup {Key(s.name, e, a)}
    BY <2>1 DEF RecordEvent
  <2>2. CASE Monitor
    BY <2>1, <2>2 DEF Monitor, RetirePointer, Retry
  <2>3. ASSUME NEW s \in Submitters, Submitter(s)
        PROVE  bucket' \subseteq bucket \cup {Claim(Head(todo[s]))}
    BY <2>3 DEF Submitter, ListWaiting, ReadWaiting, EndRead, ClaimEntity, LeaveEntity,
       SubmitClaimed, DeleteWaiting, Stop
  <2>4. CASE Resubmitter
    BY <2>4 DEF Resubmitter, StartLookup, ListForAttempt, SubmitNext, StopLookup
  <2>5. ASSUME NEW e \in Entities, Trigger(e) PROVE bucket' \subseteq bucket \cup {Waiting(e)}
    BY <2>5 DEF Trigger
  <2>6. CASE UNCHANGED submission_vars
    BY <2>6 DEF submission_vars
  <2> QED
    BY <2>2, <2>3, <2>4, <2>5, <2>6 DEF SubmissionNext
<1>3. ASSUME NEW p \in Monitored' PROVE p.entity \in Entities /\ p.attempt \in Nat
  <2>1. CASE p \in Monitored
    BY <2>1 DEF LookupInv
  <2>2. CASE p \notin Monitored
    <3>1. p \in bucket' \ bucket /\ StateOf(p) # {}
      BY <1>1, <2>2
    <3>2. PICK e \in Entities, a \in Attempts : \E name : p = Key(name, e, a)
      BY <1>2, <3>1, KeyFacts
    <3> QED
      BY <3>2, SubmissionAssumption DEF Key, Attempts
  <2> QED
    BY <2>1, <2>2
<1>4. Monitored' = {p \in bucket' : StateOf(p) # {}}
  BY DEF Monitored, StateOf
<1> QED
  BY <1>3, <1>4

\* Whatever else runs, pointers only leave those that stay.
LEMMA LookupWaits ==
    ASSUME LookupInv, SubmissionInv, [SubmissionNext]_submission_vars, lookup' = lookup,
           stayed' \subseteq stayed, stayed' \subseteq bucket'
    PROVE  LookupInv'
<1>1. stayed' \subseteq Monitored'
  BY PointersStep DEF LookupInv, Monitored
<1> QED
  BY <1>1, PointersStep DEF LookupInv, NextAttemptIsNew, Passed

LEMMA ListForAttemptStep ==
    ASSUME LookupInv, SubmissionInv, [SubmissionNext]_submission_vars, ListForAttempt, Stay
    PROVE  LookupInv'
<1>1. PICK a \in NextAttempt :
         lookup' = IF lookup.state < Len(States)
                   THEN [lookup EXCEPT !.attempt = a, !.state = @ + 1]
                   ELSE IF lookup.entity < Len(Group)
                   THEN [lookup EXCEPT !.attempt = a, !.state = 1, !.entity = @ + 1]
                   ELSE [lookup EXCEPT !.attempt = a, !.at = "submit"]
  BY DEF ListForAttempt
<1>2. /\ lookup.at = "list" /\ bucket' = bucket /\ lookup.attempt \in Nat
      /\ lookup.entity \in 1..Len(Group) /\ lookup.state \in 1..Len(States)
      /\ lookup = [at |-> lookup.at, entity |-> lookup.entity, state |-> lookup.state,
                   attempt |-> lookup.attempt]
      /\ stayed \subseteq Monitored /\ Monitored \subseteq bucket
      /\ \A p \in Monitored : p.entity \in Entities /\ p.attempt \in Nat
      /\ \A p \in stayed : Passed(p) => lookup.attempt > p.attempt
  BY DEF ListForAttempt, LookupInv, Monitored
<1>3. lookup'.at # "idle"
  BY <1>1, <1>2
<1>4. stayed' = stayed
  BY <1>2, <1>3 DEF Stay
<1>5. \A p \in Listed : p \in Monitored
  BY SequenceFacts, <1>2 DEF Listed, Monitored, StateOf
<1>6. a \in Nat /\ a >= lookup.attempt /\ \A p \in Listed : a > p.attempt
  <2>1. /\ a \in {lookup.attempt} \cup Above
        /\ \A b \in {lookup.attempt} \cup Above : b <= a
    BY DEF NextAttempt, Highest
  <2>2. \A p \in Listed : p.attempt \in Nat /\ p.attempt + 1 \in Above
    BY <1>2, <1>5 DEF Above
  <2>3. a \in Nat
    BY <1>2, <1>5, <2>1 DEF Above
  <2> QED
    BY <1>2, <2>1, <2>2, <2>3
<1>7. ASSUME NEW p \in stayed, NEW k \in 1..Len(Group), NEW i \in 1..Len(States),
             p.entity = Group[k], p.name = States[i].name,
             \/ k < lookup.entity \/ (k = lookup.entity /\ i <= lookup.state)
      PROVE  a > p.attempt
  <2>1. CASE k = lookup.entity /\ i = lookup.state
    BY <1>2, <1>6, <1>7, <2>1 DEF Listed
  <2>2. CASE ~(k = lookup.entity /\ i = lookup.state)
    <3>1. Passed(p)
      BY <1>2, <1>7, <2>2 DEF Passed
    <3> QED
      BY <1>2, <1>6, <3>1
  <2> QED
    BY <2>1, <2>2
<1>8. CASE lookup.state < Len(States)
  <2>1. lookup' = [at |-> "list", entity |-> lookup.entity, state |-> lookup.state + 1, attempt |-> a]
    BY <1>1, <1>2, <1>8
  <2>2. \A p \in stayed' : Passed(p)' => a > p.attempt
    BY <1>2, <1>4, <1>7, <2>1 DEF Passed
  <2> QED
    BY <1>2, <1>4, <1>6, <1>8, <2>1, <2>2, SequenceFacts
    DEF LookupInv, NextAttemptIsNew, Monitored, StateOf
<1>9. CASE ~(lookup.state < Len(States)) /\ lookup.entity < Len(Group)
  <2>1. lookup' = [at |-> "list", entity |-> lookup.entity + 1, state |-> 1, attempt |-> a]
    BY <1>1, <1>2, <1>9
  <2>2. \A p \in stayed' : Passed(p)' => a > p.attempt
    BY <1>2, <1>4, <1>7, <1>9, <2>1, SequenceFacts DEF Passed
  <2> QED
    BY <1>2, <1>4, <1>6, <1>9, <2>1, <2>2, SequenceFacts
    DEF LookupInv, NextAttemptIsNew, Monitored, StateOf
<1>10. CASE ~(lookup.state < Len(States)) /\ ~(lookup.entity < Len(Group))
  <2>1. lookup' = [at |-> "submit", entity |-> lookup.entity, state |-> lookup.state, attempt |-> a]
    BY <1>1, <1>2, <1>10
  <2>2. ASSUME NEW p \in stayed PROVE a > p.attempt
    <3>1. PICK k \in 1..Len(Group), i \in 1..Len(States) :
             p.entity = Group[k] /\ p.name = States[i].name
      BY <1>2, ListedSomewhere
    <3> QED
      BY <1>2, <1>7, <1>10, <3>1, SequenceFacts
  <2> QED
    BY <1>2, <1>4, <1>6, <2>1, <2>2 DEF LookupInv, NextAttemptIsNew, Monitored, StateOf
<1> QED
  BY <1>8, <1>9, <1>10

LEMMA LookupInvStep ==
    ASSUME LookupInv, SubmissionInv, [SubmissionNext]_submission_vars
    PROVE  LookupInv'
<1>1. CASE UNCHANGED submission_vars
  <2>1. lookup' = lookup /\ stayed' = stayed /\ bucket' = bucket
    BY <1>1 DEF submission_vars, resubmitter_locals
  <2> QED
    BY <2>1, LookupWaits DEF LookupInv, Monitored
<1>2. CASE Stay /\ (StartLookup \/ SubmitNext \/ StopLookup)
  <2>1. /\ bucket' = bucket
        /\ \/ lookup.at = "idle" /\ lookup' = [NoLookup EXCEPT !.at = "list"]
           \/ lookup' = NoLookup
    BY <1>2 DEF StartLookup, SubmitNext, StopLookup
  <2>2. /\ lookup' = [at |-> lookup'.at, entity |-> 1, state |-> 1, attempt |-> 1]
        /\ lookup'.at \in {"idle", "list"}
        /\ lookup'.at = "list" => lookup.at = "idle"
    BY <2>1 DEF NoLookup
  <2>3. stayed' \subseteq Monitored'
    <3>1. Monitored' = Monitored
      BY <2>1 DEF Monitored, StateOf
    <3>2. stayed' = {} \/ stayed' = Monitored
      BY <1>2, <2>2 DEF Stay
    <3> QED
      BY <3>1, <3>2
  <2>4. \A p : ~Passed(p)'
    BY <2>2, SequenceFacts DEF Passed
  <2> QED
    <3>1. lookup'.entity = 1 /\ lookup'.state = 1 /\ lookup'.attempt = 1 /\ lookup'.at # "submit"
      BY <2>2
    <3>2. /\ lookup'.entity \in 1..Len(Group) /\ lookup'.state \in 1..Len(States)
          /\ lookup'.attempt \in Nat
      BY <3>1, SequenceFacts
    <3>3. lookup' = [at |-> lookup'.at, entity |-> lookup'.entity, state |-> lookup'.state,
                     attempt |-> lookup'.attempt]
      BY <2>2, <3>1
    <3> QED
      BY <2>3, <2>4, <3>1, <3>2, <3>3, PointersStep DEF LookupInv, NextAttemptIsNew
<1>3. CASE Stay /\ UNCHANGED lookup
  <2>1. (stayed' \subseteq stayed /\ stayed' \subseteq bucket') \/ stayed' = {}
    BY <1>3 DEF Stay
  <2> QED
    BY <1>3, <2>1, LookupWaits
<1>4. (\E e \in Entities : Trigger(e)) \/ (\E s \in Submitters : Submitter(s)) \/ Monitor
         => UNCHANGED lookup
  BY DEF Trigger, Submitter, ListWaiting, ReadWaiting, EndRead, ClaimEntity, LeaveEntity,
     SubmitClaimed, DeleteWaiting, Stop, Monitor, RecordEvent, RetirePointer, Retry,
     resubmitter_locals
<1> QED
  BY <1>1, <1>2, <1>3, <1>4, ListForAttemptStep DEF SubmissionNext, Resubmitter

\* The attempt a resubmitter comes to is above that of every pointer of the group
\* that was there all the while, whatever else the monitor moves meanwhile.
THEOREM NextAttemptNew == SubmissionSpec => []NextAttemptIsNew
<1>1. SubmissionInit => LookupInv
  BY SequenceFacts DEF SubmissionInit, LookupInv, NoLookup, NextAttemptIsNew, Monitored
<1>2. LookupInv /\ SubmissionInv /\ [SubmissionNext]_submission_vars => LookupInv'
  BY LookupInvStep
<1>3. LookupInv => NextAttemptIsNew
  BY DEF LookupInv
<1> QED
  BY <1>1, <1>2, <1>3, SubmissionInvariantHolds, PTL DEF SubmissionSpec
===============================================================================
