-------------------------- MODULE JobMonitorInvariant --------------------------
(***************************************************************************)
(* What JobMonitor assumes of its inputs to keep its promises, and the     *)
(* inductive invariants from which they follow: one for any interleaving,  *)
(* and three for what holds of one invocation at a time or without faults. *)
(***************************************************************************)
EXTENDS JobMonitor

\* No two states of outcomes.states() share a name: no exit code redefines a
\* baseline state, and exit codes that share a name agree on what it means.
ASSUME ConsistentNamesAssumption ==
    \A s, t \in StateSet : s.name = t.name => s = t

\* One Batch job per attempt of an entity, and one outcome per Batch job: events
\* of one attempt that have the same rank report the same state.
ASSUME OneOutcomeAssumption ==
    \A ev, ew \in Events :
        /\ ev.attempt = ew.attempt
        /\ \E k \in DOMAIN ev.group, j \in DOMAIN ew.group : ev.group[k] = ew.group[j]
        /\ rank(ev.state) = rank(ew.state)
        => ev.state = ew.state

-----------------------------------------------------------------------------
\* Some event of the entity reports state s for attempt a.
Reported(e, s, a) ==
    \E ev \in Events : /\ ev.state = s /\ ev.attempt = a
                       /\ \E k \in DOMAIN ev.group : ev.group[k] = e

\* Every pointer in a state of the monitor's was written for some event.
PointersReported ==
    \A p \in pointers : p.name \in StateNames =>
        \E s \in StateSet : s.name = p.name /\ Reported(p.entity, s, p.attempt)

\* What an invocation has seen of its current entity is still attained.
SeenIsReached(v) ==
    \A h \in hits[v] :
        Reported(entity(v), h.state, h.attempt) /\ Reached(entity(v), HitLevel(h))

\* Before the old pointer is deleted, the new one outranks it and is reached.
NewOutranksOld(v) ==
    pc[v] = "delete_old" =>
        /\ Reached(entity(v), Level(new_state(v), attempt(v)))
        /\ \A h \in Old(v) : HitLevel(h) < Level(new_state(v), attempt(v))

\* The contexts the loop is done with.
Past(v) ==
    IF pc[v] \in {"route", "send", "return"} THEN DOMAIN group(v)
    ELSE {j \in DOMAIN group(v) : j < ctx[v]}

\* They have attained the event's level; while every one of them was stale, a
\* later attempt's.
PastIsReached(v) ==
    \A j \in Past(v) :
        /\ Reached(group(v)[j], Level(new_state(v), attempt(v)))
        /\ ~fresh[v] /\ rank(new_state(v)) = 2
              => Reached(group(v)[j], 3 * (attempt(v) + 1))

\* What has been written and sent on the way to returning.
TerminalIsIndexed(v) ==
    pc[v] \in {"send", "return"} /\ terminal(v) =>
        [name |-> new_state(v).name, output |-> event[v].output] \in outputs

OwedIsSent(v) ==
    /\ pc[v] = "send" => fresh[v] /\ ToFailureDlq(v)
    /\ pc[v] = "return" /\ ToRetryQueue(v) => retry_queue[event[v]] > 0
    /\ pc[v] = "return" /\ ToFailureDlq(v) => failure_dlq[event[v]] > 0

LocalInv(v) ==
    pc[v] # "idle" =>
        /\ SeenIsReached(v)
        /\ NewOutranksOld(v)
        /\ PastIsReached(v)
        /\ TerminalIsIndexed(v)
        /\ OwedIsSent(v)

\* The inductive invariant.  Its heart is NewOutranksOld: a pointer is deleted
\* only while a higher one is there, put by the same invocation before, or put
\* by another since.
IInv ==
    /\ TypeOK
    /\ PointersReported
    /\ \A v \in Invocations : LocalInv(v)
    /\ HandledIsReflected
    /\ HandledTerminalIsIndexed
    /\ HandledFailureIsRouted

-----------------------------------------------------------------------------
(* The promises that rest on how many invocations run, and how they end *)

\* The entities of its event whose records an invocation has written, and those
\* whose submitter pointers it is done deleting.
Entered(v) == {group(v)[j] : j \in Past(v)}
Audited(v) ==
    Entered(v) \cup
        (IF pc[v] \in {"submitter", "guard", "delete_old"} THEN {entity(v)} ELSE {})
Cleared(v) ==
    Entered(v) \cup (IF pc[v] \in {"guard", "delete_old"} THEN {entity(v)} ELSE {})

\* One at a time, what an invocation has read of a record is what it replaces.
AuditInv ==
    /\ TypeOK
    /\ \A v \in Invocations :
          /\ pc[v] = "append" => record[v] = records[canonical_key(v)]
          /\ pc[v] # "idle" => \A e \in Audited(v) : InRecord(e, event[v])
    /\ HandledEventIsRecorded

\* Where no DELETE fails, the submitter pointers it is done with are gone.
ClearedNames(v, e) ==
    IF e \in Cleared(v) THEN SubmitterNames
    ELSE IF pc[v] = "submitter" /\ e = entity(v)
    THEN {SubmitterStates[i] : i \in {j \in DOMAIN SubmitterStates : j < scan[v]}}
    ELSE {}
SubmitterInv ==
    /\ TypeOK
    /\ \A v \in Invocations : pc[v] # "idle" =>
          \A e \in Entities : \A name \in ClearedNames(v, e) :
              PointerKey(name, e, attempt(v)) \notin pointers
    /\ SubmitterPointersCleared

\* What a lookup that misses nothing comes to: a hit for each of the monitor's
\* pointers of the entity, of the states scanned so far.
PointerHits(v) == {h \in Hit : PointerKey(h.state.name, entity(v), h.attempt) \in pointers}
ScannedStates(v) == {States[i] : i \in {j \in DOMAIN States : j < scan[v]}}
LookupIsExact(v) ==
    /\ pc[v] = "head" => hits[v] = {h \in PointerHits(v) : /\ h.attempt = attempt(v)
                                                           /\ h.state \in ScannedStates(v)}
    /\ pc[v] = "list" => hits[v] = {h \in PointerHits(v) : h.state \in ScannedStates(v)}
    /\ pc[v] \in {"get", "append", "submitter", "guard"} => hits[v] = PointerHits(v)

\* The entity has one pointer of the monitor's at most.
OnePointer(e) ==
    \A p, q \in pointers :
        p.entity = e /\ q.entity = e /\ p.name \in StateNames /\ q.name \in StateNames => p = q

\* Before the old pointer is deleted, there is it and the new one.
NewAndOld(v) ==
    pc[v] = "delete_old" =>
        \A p \in pointers : p.entity = entity(v) /\ p.name \in StateNames =>
            \/ p = PointerKey(new_state(v).name, entity(v), attempt(v))
            \/ \E h \in Old(v) : p = PointerKey(h.state.name, entity(v), h.attempt)

\* One at a time, to the end, and without faults, an entity has two pointers only
\* between the PUT and the DELETE of its transition.
PointerInv ==
    /\ TypeOK
    /\ \A v \in Invocations : LookupIsExact(v) /\ NewAndOld(v)
    /\ \A e \in Entities :
          (\A v \in Invocations : ~(pc[v] = "delete_old" /\ entity(v) = e)) => OnePointer(e)
===============================================================================
