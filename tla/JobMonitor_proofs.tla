-------------------------- MODULE JobMonitor_proofs --------------------------
(***************************************************************************)
(* Proofs about JobMonitor, for every set of entities, events and          *)
(* invocations that satisfies the assumptions of JobMonitorInvariant: the  *)
(* inductive invariant and what follows from it, the refinement of         *)
(* EntityTracking, the attempt log, the submitter pointers, and the single *)
(* pointer per entity.                                                     *)
(***************************************************************************)
EXTENDS JobMonitorInvariant, TLAPS

-----------------------------------------------------------------------------
(* Constants *)

\* A level is a natural, and lies within its attempt's three.
LEMMA LevelType ==
    \A s, a : a \in Nat => /\ rank(s) \in 0..2
                           /\ Level(s, a) \in Nat
                           /\ 3 * a <= Level(s, a)
                           /\ Level(s, a) < 3 * (a + 1)
BY DEF rank, Level

\* What the assumptions say of one event.
LEMMA EventFacts ==
    ASSUME NEW ev \in Events
    PROVE  /\ ev.group \in Seq(Entities) /\ Len(ev.group) \in Nat /\ Len(ev.group) >= 1
           /\ DOMAIN ev.group = 1..Len(ev.group)
           /\ 1 \in DOMAIN ev.group
           /\ \A k \in DOMAIN ev.group : ev.group[k] \in Entities
           /\ ev.attempt \in Nat /\ ev.attempt \in Attempts
           /\ ev.state \in StateSet
           /\ ev.state.name \in StateNames
BY EventsAssumption DEF EventType, Attempts, StateNames

\* A scan that is not at its end stays inside its sequence of states.
LEMMA ScanFacts ==
    /\ Len(States) \in Nat /\ Len(SubmitterStates) \in Nat
    /\ 1 \in DOMAIN States
    /\ SubmitterStates # <<>> => 1 \in DOMAIN SubmitterStates
    /\ \A i \in Nat : i < Len(States) => i + 1 \in DOMAIN States
    /\ \A i \in Nat : i < Len(SubmitterStates) => i + 1 \in DOMAIN SubmitterStates
<1>1. /\ Len(States) \in Nat /\ DOMAIN States = 1..Len(States)
      /\ Len(States) >= 1
  BY StatesAssumption
<1>2. Len(SubmitterStates) \in Nat /\ DOMAIN SubmitterStates = 1..Len(SubmitterStates)
  BY SubmitterAssumption
<1>3. SubmitterStates # <<>> => Len(SubmitterStates) >= 1
  BY SubmitterAssumption
<1> QED
  BY <1>1, <1>2, <1>3

\* Attempts are numbers.
LEMMA AttemptsNat == Attempts \subseteq Nat
BY EventFacts DEF Attempts

\* The record that stands for no object is a record.
LEMMA NoRecordType == NoRecord \in Record
BY DEF NoRecord, Record, JobIds, LogStreams

\* The event an idle invocation holds is an event.
LEMMA NoEventType == NoEvent \in Events
BY EventsAssumption DEF NoEvent

\* append_canonical_event turns a record into a record.
LEMMA AppendedType ==
    ASSUME NEW rec \in Record, NEW ev \in Events
    PROVE  Appended(rec, ev) \in Record
<1>1. /\ ev.job \in JobIds /\ ev.log_stream \in LogStreams
      /\ [job |-> ev.job, state |-> ev.state.name] \in [job : JobIds, state : StateNames]
  BY EventFacts DEF JobIds, LogStreams
<1>2. Append(rec.events, [job |-> ev.job, state |-> ev.state.name])
         \in Seq([job : JobIds, state : StateNames])
  BY <1>1 DEF Record
<1> QED
  BY <1>1, <1>2 DEF Appended, Record

-----------------------------------------------------------------------------
(* Reached *)

\* More pointers, the same levels reached or more.
LEMMA ReachedGrows ==
    ASSUME pointers \subseteq pointers', NEW e, NEW l, Reached(e, l)
    PROVE  Reached(e, l)'
BY DEF Reached

\* What is reached at a level is reached at every lower one.
LEMMA ReachedWeaken ==
    ASSUME pointers \subseteq Pointer, NEW e, NEW l \in Nat, NEW m \in Nat,
           m <= l, Reached(e, l)
    PROVE  Reached(e, m)
<1>1. PICK p \in pointers, s \in StateSet :
          p.entity = e /\ p.name = s.name /\ Level(s, p.attempt) >= l
  BY DEF Reached
<1>2. p.attempt \in Nat
  BY AttemptsNat DEF Pointer
<1>3. Level(s, p.attempt) >= m
  BY <1>1, <1>2, LevelType
<1> QED
  BY <1>1, <1>3 DEF Reached

-----------------------------------------------------------------------------
(* Type correctness *)

\* The local state of an invocation has its type.
LocalType ==
    /\ pc \in [Invocations -> PCs] /\ event \in [Invocations -> Events]
    /\ ctx \in [Invocations -> Nat] /\ scan \in [Invocations -> Nat]
    /\ hits \in [Invocations -> SUBSET Hit] /\ record \in [Invocations -> Record]
    /\ fresh \in [Invocations -> BOOLEAN]
    /\ \A v \in Invocations : /\ ctx[v] \in DOMAIN group(v)
                              /\ pc[v] \in {"head", "list"} => scan[v] \in DOMAIN States
                              /\ pc[v] = "submitter" => scan[v] \in DOMAIN SubmitterStates
                              /\ pc[v] \in PCs \ {"head", "list", "submitter"} => scan[v] = 1

\* Starting on a context leaves the invocation's variables well typed.
LEMMA EnterType ==
    ASSUME LocalType, NEW v \in Invocations, NEW call \in {"idle", "head", "route"},
           NEW ev \in Events, NEW k \in DOMAIN ev.group, NEW f \in BOOLEAN,
           Enter(v, call, ev, k, f)
    PROVE  LocalType'
<1>1. 1 \in DOMAIN States
  BY ScanFacts
<1>2. k \in Nat
  BY EventFacts
<1> QED
  BY <1>1, <1>2, NoRecordType DEF LocalType, Enter, PCs, group

\* So does moving on to the next one, or out of the loop.
LEMMA NextContextType ==
    ASSUME LocalType, NEW v \in Invocations, NEW f \in BOOLEAN, NextContext(v, f)
    PROVE  LocalType'
<1>1. event[v] \in Events /\ ctx[v] \in DOMAIN event[v].group
  BY DEF LocalType, group
<1>2. CASE ctx[v] < Len(group(v))
  <2>1. ctx[v] + 1 \in DOMAIN event[v].group
    BY <1>1, <1>2, EventFacts DEF group
  <2> QED
    BY <1>1, <1>2, <2>1, EnterType DEF NextContext
<1>3. CASE ~(ctx[v] < Len(group(v)))
  BY <1>1, <1>3, EventFacts, EnterType DEF NextContext
<1> QED
  BY <1>2, <1>3

\* So does ending.
LEMMA EndType ==
    ASSUME LocalType, NEW v \in Invocations, End(v)
    PROVE  LocalType'
BY NoEventType, EventFacts, EnterType DEF End


\* So does going on to the next state of a scan.
LEMMA NextScanType ==
    ASSUME LocalType, NEW v \in Invocations, NEW last \in Nat,
           NEW call \in {"list", "get", "guard"}, NextScan(v, last, call), UNCHANGED task,
           \/ pc[v] \in {"head", "list"} /\ last = Len(States)
           \/ pc[v] = "submitter" /\ last = Len(SubmitterStates)
    PROVE  /\ pc' \in [Invocations -> PCs] /\ scan' \in [Invocations -> Nat]
           /\ \A w \in Invocations :
                /\ ctx'[w] \in DOMAIN group(w)'
                /\ pc'[w] \in {"head", "list"} => scan'[w] \in DOMAIN States
                /\ pc'[w] = "submitter" => scan'[w] \in DOMAIN SubmitterStates
                /\ pc'[w] \in PCs \ {"head", "list", "submitter"} => scan'[w] = 1
<1>1. pc \in [Invocations -> PCs] /\ scan \in [Invocations -> Nat] /\ call \in PCs
  BY DEF LocalType, PCs
<1>2. \A w \in Invocations : ctx'[w] \in DOMAIN group(w)'
  BY DEF LocalType, task, group
<1>3. CASE scan[v] < last
  <2>1. scan' = [scan EXCEPT ![v] = scan[v] + 1] /\ pc' = pc
    BY <1>3 DEF NextScan
  <2>2. scan' \in [Invocations -> Nat]
    BY <1>1, <2>1
  <2>3. pc[v] # "submitter" => scan[v] + 1 \in DOMAIN States
    BY <1>1, <1>3, ScanFacts
  <2>4. pc[v] = "submitter" => scan[v] + 1 \in DOMAIN SubmitterStates
    BY <1>1, <1>3, ScanFacts
  <2> QED
    BY <1>1, <1>2, <2>1, <2>2, <2>3, <2>4 DEF LocalType
<1>4. CASE ~(scan[v] < last)
  <2>1. scan' = [scan EXCEPT ![v] = 1] /\ pc' = [pc EXCEPT ![v] = call]
    BY <1>4 DEF NextScan
  <2>2. scan' \in [Invocations -> Nat] /\ pc' \in [Invocations -> PCs]
    BY <1>1, <2>1
  <2> QED
    BY <1>1, <1>2, <2>1, <2>2, ScanFacts DEF LocalType
<1> QED
  BY <1>3, <1>4

\* An invocation's current entity and attempt are its event's.
LEMMA CurrentContext ==
    ASSUME TypeOK, NEW v \in Invocations
    PROVE  /\ event[v] \in Events /\ group(v) = event[v].group
           /\ entity(v) \in Entities
           /\ attempt(v) \in Attempts /\ attempt(v) \in Nat
           /\ new_state(v) \in StateSet /\ new_state(v).name \in StateNames
           /\ canonical_key(v) \in Entities \X Attempts
BY EventFacts DEF TypeOK, group, entity, attempt, new_state, canonical_key

\* The initial states are well typed.
LEMMA TypeInit == Init => TypeOK
<1> SUFFICES ASSUME Init PROVE TypeOK
  OBVIOUS
<1>1. pointers \subseteq Pointer
  BY DEF Init, Pointer, PointerKey
<1>2. LocalType
  BY NoEventType, NoRecordType, EventFacts DEF Init, LocalType, PCs, group
<1> QED
  BY <1>1, <1>2, NoRecordType, ParametersAssumption DEF Init, TypeOK, LocalType

\* Every step keeps the variables well typed.
LEMMA TypeStep == TypeOK /\ [Next]_vars => TypeOK'
<1> SUFFICES ASSUME TypeOK, [Next]_vars PROVE TypeOK'
  OBVIOUS
<1>0. LocalType
  BY DEF TypeOK, LocalType
<1> DEFINE Shared ==
        /\ pointers \subseteq Pointer
        /\ records \in [Entities \X Attempts -> Record]
        /\ outputs \subseteq [name : StateNames, output : {ev.output : ev \in Events}]
        /\ retry_queue \in [Events -> Nat] /\ failure_dlq \in [Events -> Nat]
        /\ handled \subseteq Events /\ discarded \subseteq Events
        /\ tries \in [Events -> 0..MaxTries]
<1>s. Shared
  BY DEF TypeOK
<1>q. SUFFICES Shared' /\ LocalType'
  BY DEF TypeOK, LocalType
<1>1. CASE UNCHANGED vars
  BY <1>0, <1>1, <1>s DEF vars, store, queues, delivery, task, lookup, LocalType, group
<1>2. ASSUME NEW v \in Invocations, NEW ev \in Events, Deliver(v, ev)
      PROVE  Shared' /\ LocalType'
  <2>1. LocalType'
    BY <1>0, <1>2, EnterType, EventFacts DEF Deliver
  <2>2. Shared'
    BY <1>2, <1>s, ParametersAssumption DEF Deliver, store, queues
  <2> QED BY <2>1, <2>2
<1>3. ASSUME NEW v \in Invocations, Crash(v)
      PROVE  Shared' /\ LocalType'
  BY <1>0, <1>3, <1>s, EndType, CurrentContext DEF Crash, store, queues
<1>4. ASSUME NEW v \in Invocations, HeadState(v)
      PROVE  Shared' /\ LocalType'
  <2>1. States[scan[v]] \in StateSet
    BY <1>4, <1>0 DEF HeadState, LocalType, StateSet
  <2>2. hits' \in [Invocations -> SUBSET Hit]
    BY <1>0, <1>4, <2>1, CurrentContext DEF HeadState, LocalType, Hit
  <2>3. LocalType'
    BY <1>0, <1>4, <2>2, NextScanType, ScanFacts DEF HeadState, LocalType, PCs, task
  <2> QED BY <1>4, <1>s, <2>3 DEF HeadState, store, queues, delivery
<1>5. ASSUME NEW v \in Invocations, ListState(v)
      PROVE  Shared' /\ LocalType'
  <2>1. States[scan[v]] \in StateSet
    BY <1>5, <1>0 DEF ListState, LocalType, StateSet
  <2>2. hits' \in [Invocations -> SUBSET Hit]
    BY <1>0, <1>5, <1>s, <2>1 DEF ListState, LocalType, Hit, Pointer
  <2>3. LocalType'
    BY <1>0, <1>5, <2>2, NextScanType, ScanFacts DEF ListState, LocalType, PCs, task
  <2> QED BY <1>5, <1>s, <2>3 DEF ListState, store, queues, delivery
<1>6. ASSUME NEW v \in Invocations, GetRecord(v)
      PROVE  Shared' /\ LocalType'
  <2>1. LocalType'
    BY <1>0, <1>6, <1>s, CurrentContext DEF GetRecord, LocalType, PCs, task, lookup, group
  <2> QED BY <1>6, <1>s, <2>1 DEF GetRecord, store, queues, delivery
<1>7. ASSUME NEW v \in Invocations, PutRecord(v)
      PROVE  Shared' /\ LocalType'
  <2>1. records' \in [Entities \X Attempts -> Record]
    BY <1>0, <1>7, <1>s, CurrentContext, AppendedType DEF PutRecord, LocalType
  <2>2. LocalType'
    BY <1>0, <1>7, ScanFacts, NoRecordType DEF PutRecord, LocalType, PCs, task, lookup, group
  <2> QED
    BY <1>7, <1>s, <2>1, <2>2 DEF PutRecord, queues, delivery
<1>8. ASSUME NEW v \in Invocations, DeleteSubmitterPointer(v)
      PROVE  Shared' /\ LocalType'
  <2>1. LocalType'
    BY <1>0, <1>8, NextScanType, ScanFacts DEF DeleteSubmitterPointer, LocalType, PCs, task
  <2> QED BY <1>8, <1>s, <2>1 DEF DeleteSubmitterPointer, queues, delivery
<1>9. ASSUME NEW v \in Invocations, SkipContext(v) \/ KeepPointer(v)
      PROVE  Shared' /\ LocalType'
  <2>1. fresh[v] \in BOOLEAN
    BY <1>0 DEF LocalType
  <2>2. LocalType'
    BY <1>0, <1>9, <2>1, NextContextType DEF SkipContext, KeepPointer
  <2> QED BY <1>9, <1>s, <2>2 DEF SkipContext, KeepPointer, store, queues, delivery
<1>10. ASSUME NEW v \in Invocations, PutPointer(v)
      PROVE  Shared' /\ LocalType'
  <2>1. ASSUME Old(v) = {} PROVE LocalType'
    BY <1>0, <1>10, <2>1, NextContextType DEF PutPointer
  <2>2. ASSUME Old(v) # {} PROVE LocalType'
    BY <1>0, <1>10, <2>2 DEF PutPointer, Goto, LocalType, PCs, task, lookup, group
  <2>3. pointers' \subseteq Pointer
    BY <1>10, <1>s, CurrentContext DEF PutPointer, Pointer, PointerKey
  <2> QED BY <1>10, <1>s, <2>1, <2>2, <2>3 DEF PutPointer, queues, delivery
<1>11. ASSUME NEW v \in Invocations, DeleteOldPointer(v)
      PROVE  Shared' /\ LocalType'
  <2>1. LocalType'
    BY <1>0, <1>11, NextContextType DEF DeleteOldPointer
  <2> QED BY <1>11, <1>s, <2>1 DEF DeleteOldPointer, queues, delivery
<1>12. ASSUME NEW v \in Invocations, WriteOutputIndex(v)
      PROVE  Shared' /\ LocalType'
  <2>1. LocalType'
    BY <1>0, <1>12 DEF WriteOutputIndex, Goto, LocalType, PCs, task, lookup, group
  <2> QED BY <1>12, <1>s, <2>1, CurrentContext DEF WriteOutputIndex, queues, delivery
<1>13. ASSUME NEW v \in Invocations, SendRetry(v)
      PROVE  Shared' /\ LocalType'
  <2>1. LocalType'
    BY <1>0, <1>13 DEF SendRetry, Goto, LocalType, PCs, task, lookup, group
  <2> QED BY <1>13, <1>s, <2>1, CurrentContext DEF SendRetry, store, delivery
<1>14. ASSUME NEW v \in Invocations, SendDlq(v)
      PROVE  Shared' /\ LocalType'
  <2>1. LocalType'
    BY <1>0, <1>14 DEF SendDlq, Goto, LocalType, PCs, task, lookup, group
  <2> QED BY <1>14, <1>s, <2>1, CurrentContext DEF SendDlq, store, delivery
<1>15. ASSUME NEW v \in Invocations, Return(v)
      PROVE  Shared' /\ LocalType'
  BY <1>0, <1>15, <1>s, EndType, CurrentContext DEF Return, store, queues
<1> QED
  BY <1>1, <1>2, <1>3, <1>4, <1>5, <1>6, <1>7, <1>8, <1>9, <1>10, <1>11, <1>12, <1>13,
     <1>14, <1>15
  DEF Next, MonitorNext, Step

\* Type correctness: every reachable state of the monitor is well typed.
THEOREM TypeCorrect == Spec => []TypeOK
BY TypeInit, TypeStep, PTL DEF Spec

-----------------------------------------------------------------------------
(* No step loses what an entity has reached *)

\* The old pointer is a hit, and no later than the event's attempt.
LEMMA OldFacts ==
    ASSUME TypeOK, NEW v \in Invocations, NEW h \in Old(v)
    PROVE  /\ h \in hits[v] /\ h.state \in StateSet /\ h.attempt \in Nat
           /\ h.attempt <= attempt(v)
<1>1. hits[v] \subseteq Hit
  BY DEF TypeOK
<1>2. h \in hits[v] /\ h.attempt <= attempt(v)
  BY DEF Old, Best
<1> QED
  BY <1>1, <1>2, AttemptsNat DEF Hit

\* A pointer in the bucket reaches the level of its state and attempt.
LEMMA PointerIsReached ==
    ASSUME NEW s \in StateSet, NEW e, NEW a \in Nat, PointerKey(s.name, e, a) \in pointers
    PROVE  Reached(e, Level(s, a))
<1>1. PICK p \in pointers : p = PointerKey(s.name, e, a)
  OBVIOUS
<1>2. p.entity = e /\ p.name = s.name /\ p.attempt = a
  BY <1>1 DEF PointerKey
<1>3. Level(s, p.attempt) >= Level(s, a)
  BY <1>2, LevelType
<1> QED
  BY <1>2, <1>3 DEF Reached

\* Deleting a submitter pointer touches none of the monitor's.
LEMMA SubmitterDeleteKeepsReached ==
    ASSUME TypeOK, NEW v \in Invocations, DeleteSubmitterPointer(v),
           NEW e, NEW l, Reached(e, l)
    PROVE  Reached(e, l)'
<1>1. CASE UNCHANGED pointers
  BY <1>1 DEF Reached
<1>2. CASE pointers' = pointers \ {PointerKey(SubmitterStates[scan[v]], entity(v), attempt(v))}
  <2>1. PICK p \in pointers, s \in StateSet :
            p.entity = e /\ p.name = s.name /\ Level(s, p.attempt) >= l
    BY DEF Reached
  <2>2. SubmitterStates[scan[v]] \in SubmitterNames
    BY DEF DeleteSubmitterPointer, TypeOK, SubmitterNames
  <2>3. p.name \in StateNames
    BY <2>1 DEF StateNames
  <2>4. p # PointerKey(SubmitterStates[scan[v]], entity(v), attempt(v))
    BY <2>2, <2>3, SubmitterAssumption DEF PointerKey
  <2> QED
    BY <1>2, <2>1, <2>4 DEF Reached
<1> QED
  BY <1>1, <1>2 DEF DeleteSubmitterPointer

\* Deleting the old pointer leaves the higher one that is there.
LEMMA OldDeleteKeepsReached ==
    ASSUME TypeOK, NEW v \in Invocations, NewOutranksOld(v), DeleteOldPointer(v),
           NEW e, NEW l \in Nat, Reached(e, l)
    PROVE  Reached(e, l)'
<1> DEFINE top == Level(new_state(v), attempt(v))
           key(h) == PointerKey(h.state.name, entity(v), h.attempt)
<1>t. top \in Nat
  BY CurrentContext, LevelType
<1>1. CASE UNCHANGED pointers
  BY <1>1 DEF Reached
<1>2. CASE pointers' = pointers \ {key(h) : h \in Old(v)}
  <2>1. /\ Reached(entity(v), top)
        /\ \A h \in Old(v) : HitLevel(h) < top
    BY DEF NewOutranksOld, DeleteOldPointer
  <2>2. \A h \in Old(v) : \A p \in pointers : \A s \in StateSet :
            p = key(h) /\ p.name = s.name => Level(s, p.attempt) = HitLevel(h)
    <3> SUFFICES ASSUME NEW h \in Old(v), NEW s \in StateSet, key(h).name = s.name
                 PROVE  Level(s, key(h).attempt) = HitLevel(h)
      OBVIOUS
    <3>1. h.state \in StateSet /\ key(h).name = h.state.name /\ key(h).attempt = h.attempt
      BY OldFacts DEF PointerKey
    <3>2. s = h.state
      BY <3>1, ConsistentNamesAssumption
    <3> QED
      BY <3>1, <3>2 DEF HitLevel
  <2>3. PICK q \in pointers, t \in StateSet :
            q.entity = entity(v) /\ q.name = t.name /\ Level(t, q.attempt) >= top
    BY <2>1 DEF Reached
  <2>4. q \in pointers'
    <3> SUFFICES ASSUME NEW h \in Old(v), q = key(h) PROVE FALSE
      BY <1>2
    <3>1. Level(t, q.attempt) = HitLevel(h)
      BY <2>2, <2>3
    <3>2. h.attempt \in Nat /\ HitLevel(h) \in Nat
      BY OldFacts, LevelType DEF HitLevel
    <3> QED
      BY <1>t, <2>1, <2>3, <3>1, <3>2
  <2>5. PICK p \in pointers, s \in StateSet :
            p.entity = e /\ p.name = s.name /\ Level(s, p.attempt) >= l
    BY DEF Reached
  <2>6. CASE p \in pointers'
    BY <2>5, <2>6 DEF Reached
  <2>7. CASE p \notin pointers'
    <3>1. PICK h \in Old(v) : p = key(h)
      BY <1>2, <2>7
    <3>2. Level(s, p.attempt) = HitLevel(h) /\ e = entity(v)
      BY <2>2, <2>5, <3>1 DEF PointerKey
    <3>3. HitLevel(h) \in Nat
      BY OldFacts, LevelType DEF HitLevel
    <3>4. q.attempt \in Nat
      BY AttemptsNat DEF TypeOK, Pointer
    <3>5. Level(t, q.attempt) \in Nat
      BY <3>4, LevelType
    <3>6. Level(t, q.attempt) >= l
      BY <1>t, <2>1, <2>3, <2>5, <3>2, <3>3, <3>5
    <3> QED
      BY <2>3, <2>4, <3>2, <3>6 DEF Reached
  <2> QED
    BY <2>6, <2>7
<1> QED
  BY <1>1, <1>2 DEF DeleteOldPointer

\* No step takes away a level that was reached: the heart of NeverRegresses.
LEMMA StepKeepsReached ==
    ASSUME TypeOK, \A v \in Invocations : LocalInv(v), [Next]_vars,
           NEW e, NEW l \in Nat, Reached(e, l)
    PROVE  Reached(e, l)'
<1>1. ASSUME NEW v \in Invocations, DeleteSubmitterPointer(v) PROVE Reached(e, l)'
  BY <1>1, SubmitterDeleteKeepsReached
<1>2. ASSUME NEW v \in Invocations, DeleteOldPointer(v) PROVE Reached(e, l)'
  <2>1. NewOutranksOld(v)
    BY <1>2 DEF LocalInv, DeleteOldPointer, NewOutranksOld
  <2> QED
    BY <1>2, <2>1, OldDeleteKeepsReached
<1>3. ASSUME NEW v \in Invocations, PutPointer(v) PROVE Reached(e, l)'
  BY <1>3, ReachedGrows DEF PutPointer
<1>4. CASE UNCHANGED pointers
  BY <1>4, ReachedGrows
<1>5. ASSUME NEW v \in Invocations,
             \/ HeadState(v) \/ ListState(v) \/ GetRecord(v) \/ PutRecord(v)
             \/ SkipContext(v) \/ KeepPointer(v)
             \/ WriteOutputIndex(v) \/ SendRetry(v) \/ SendDlq(v) \/ Return(v) \/ Crash(v)
             \/ \E ev \in Events : Deliver(v, ev)
      PROVE  UNCHANGED pointers
  BY <1>5 DEF HeadState, ListState, GetRecord, PutRecord, SkipContext, KeepPointer,
              WriteOutputIndex, SendRetry, SendDlq, Return, Crash, Deliver, store
<1> QED
  BY <1>1, <1>2, <1>3, <1>4, <1>5 DEF Next, MonitorNext, Step, vars, store

-----------------------------------------------------------------------------
(* What a step preserves of the other invocations *)

LoopCalls == {"head", "list", "get", "append", "submitter", "guard"}

\* Nothing reached, indexed or sent is undone.
Kept == \A e : \A l \in Nat : Reached(e, l) => Reached(e, l)'
Grown ==
    /\ Kept
    /\ outputs \subseteq outputs'
    /\ \A ev \in Events : retry_queue[ev] > 0 => retry_queue'[ev] > 0
    /\ \A ev \in Events : failure_dlq[ev] > 0 => failure_dlq'[ev] > 0

\* Every step keeps what was reached, indexed and sent.
LEMMA StepGrows ==
    ASSUME TypeOK, \A v \in Invocations : LocalInv(v), [Next]_vars
    PROVE  Grown
<1>1. Kept
  BY StepKeepsReached DEF Kept
<1>t. /\ retry_queue \in [Events -> Nat] /\ failure_dlq \in [Events -> Nat]
      /\ \A v \in Invocations : event[v] \in Events
  BY DEF TypeOK
<1>2. ASSUME NEW v \in Invocations, WriteOutputIndex(v) \/ SendRetry(v) \/ SendDlq(v)
      PROVE  Grown
  BY <1>1, <1>2, <1>t DEF Grown, WriteOutputIndex, SendRetry, SendDlq, store, queues
<1>3. CASE UNCHANGED <<outputs, queues>>
  BY <1>1, <1>3 DEF Grown, queues
<1>4. ASSUME NEW v \in Invocations,
             \/ HeadState(v) \/ ListState(v) \/ GetRecord(v) \/ PutRecord(v)
             \/ DeleteSubmitterPointer(v) \/ SkipContext(v) \/ KeepPointer(v)
             \/ PutPointer(v) \/ DeleteOldPointer(v) \/ Return(v) \/ Crash(v)
             \/ \E ev \in Events : Deliver(v, ev)
      PROVE  UNCHANGED <<outputs, queues>>
  BY <1>4 DEF HeadState, ListState, GetRecord, PutRecord, DeleteSubmitterPointer,
              SkipContext, KeepPointer, PutPointer, DeleteOldPointer, Return, Crash,
              Deliver, store
<1> QED
  BY <1>2, <1>3, <1>4 DEF Next, MonitorNext, Step, vars, store

\* The hits of an invocation's lookup have states and attempts, and a level.
LEMMA HitFacts ==
    ASSUME TypeOK, NEW v \in Invocations, NEW h \in hits[v]
    PROVE  /\ h.state \in StateSet /\ h.attempt \in Nat
           /\ HitLevel(h) \in Nat /\ rank(h.state) \in 0..2
           /\ HitLevel(h) = 3 * h.attempt + rank(h.state)
<1>1. hits[v] \subseteq Hit
  BY DEF TypeOK
<1>2. h.state \in StateSet /\ h.attempt \in Nat
  BY <1>1, AttemptsNat DEF Hit
<1> QED
  BY <1>2, LevelType DEF HitLevel, Level

\* The level an invocation's event reports is a natural.
LEMMA OwnLevel ==
    ASSUME TypeOK, NEW v \in Invocations
    PROVE  /\ Level(new_state(v), attempt(v)) \in Nat
           /\ Level(new_state(v), attempt(v)) = 3 * attempt(v) + rank(new_state(v))
           /\ rank(new_state(v)) \in 0..2
           /\ 3 * (attempt(v) + 1) \in Nat
BY CurrentContext, LevelType DEF Level

\* An invocation whose own state does not change keeps its invariant.
LEMMA OtherStable ==
    ASSUME TypeOK, Grown, NEW w \in Invocations, LocalInv(w),
           event'[w] = event[w], ctx'[w] = ctx[w], hits'[w] = hits[w],
           fresh'[w] = fresh[w], pc'[w] = pc[w]
    PROVE  LocalInv(w)'
<1> SUFFICES ASSUME pc[w] # "idle" PROVE LocalInv(w)'
  BY DEF LocalInv
<1>1. /\ group(w)' = group(w) /\ attempt(w)' = attempt(w) /\ new_state(w)' = new_state(w)
      /\ entity(w)' = entity(w)
  BY DEF group, attempt, new_state, entity
<1>2. Old(w)' = Old(w)
  BY <1>1 DEF Old, Best
<1>3. Past(w)' = Past(w)
  BY <1>1 DEF Past
<1>4. SeenIsReached(w)'
  BY <1>1, HitFacts DEF LocalInv, SeenIsReached, Grown, Kept, Reported
<1>5. NewOutranksOld(w)'
  BY <1>1, <1>2, OwnLevel DEF LocalInv, NewOutranksOld, Grown, Kept
<1>6. PastIsReached(w)'
  BY <1>1, <1>3, OwnLevel DEF LocalInv, PastIsReached, Grown, Kept
<1>7. TerminalIsIndexed(w)'
  BY <1>1 DEF LocalInv, TerminalIsIndexed, terminal, Grown
<1>8. OwedIsSent(w)'
  BY <1>1, CurrentContext DEF LocalInv, OwedIsSent, ToRetryQueue, ToFailureDlq, Grown
<1> QED
  BY <1>4, <1>5, <1>6, <1>7, <1>8 DEF LocalInv

\* Within the loop over contexts, an invocation keeps its invariant as long as
\* what it has seen is reached.
LEMMA LoopStable ==
    ASSUME TypeOK, Grown, NEW v \in Invocations, LocalInv(v),
           event'[v] = event[v], ctx'[v] = ctx[v], fresh'[v] = fresh[v],
           pc[v] \in LoopCalls, pc'[v] \in LoopCalls, SeenIsReached(v)'
    PROVE  LocalInv(v)'
<1>1. /\ group(v)' = group(v) /\ attempt(v)' = attempt(v) /\ new_state(v)' = new_state(v)
  BY DEF group, attempt, new_state
<1>2. Past(v)' = Past(v)
  BY <1>1 DEF Past, LoopCalls
<1>3. PastIsReached(v)'
  BY <1>1, <1>2, OwnLevel DEF LocalInv, PastIsReached, Grown, Kept, LoopCalls
<1> QED
  BY <1>3 DEF LocalInv, NewOutranksOld, TerminalIsIndexed, OwedIsSent, LoopCalls

\* The loop moves on from a context that has reached the event's level.
LEMMA NextContextStable ==
    ASSUME TypeOK, Grown, NEW v \in Invocations, LocalInv(v), NEW f \in BOOLEAN,
           pc[v] \in {"guard", "delete_old"}, NextContext(v, f),
           fresh[v] => f,
           NEW e, e = entity(v),
           NEW l, l = Level(new_state(v), attempt(v)), Reached(e, l)',
           NEW m, m = 3 * (attempt(v) + 1),
           ~f /\ rank(new_state(v)) = 2 => Reached(e, m)'
    PROVE  LocalInv(v)'
<1>1. /\ pc \in [Invocations -> PCs] /\ event \in [Invocations -> Events]
      /\ ctx \in [Invocations -> Nat] /\ fresh \in [Invocations -> BOOLEAN]
      /\ hits \in [Invocations -> SUBSET Hit] /\ ctx[v] \in DOMAIN group(v)
  BY DEF TypeOK
<1>2. /\ DOMAIN group(v) = 1..Len(group(v)) /\ Len(group(v)) \in Nat
  BY CurrentContext, EventFacts
<1>3. /\ event'[v] = event[v] /\ fresh'[v] = f /\ hits'[v] = {}
      /\ \/ pc'[v] = "head" /\ ctx'[v] = ctx[v] + 1
         \/ pc'[v] = "route" /\ ctx[v] = Len(group(v))
  BY <1>1, <1>2 DEF NextContext, Enter
<1>4. /\ group(v)' = group(v) /\ attempt(v)' = attempt(v) /\ new_state(v)' = new_state(v)
      /\ e = group(v)[ctx[v]]
      /\ l = Level(new_state(v), attempt(v))' /\ m = 3 * (attempt(v)' + 1)
  BY <1>3 DEF group, attempt, new_state, entity
<1>5. Past(v) = {j \in DOMAIN group(v) : j < ctx[v]}
  BY DEF Past
<1>6. \A j \in Past(v)' : j \in Past(v) \/ j = ctx[v]
  BY <1>1, <1>2, <1>3, <1>4, <1>5 DEF Past
<1>7. PastIsReached(v)'
  <2> SUFFICES ASSUME NEW j \in Past(v)'
               PROVE  /\ Reached(group(v)[j], l)'
                      /\ ~f /\ rank(new_state(v)) = 2 => Reached(group(v)[j], m)'
    BY <1>3, <1>4 DEF PastIsReached
  <2>1. CASE j = ctx[v]
    BY <2>1, <1>3, <1>4
  <2>2. CASE j \in Past(v)
    <3>1. /\ Reached(group(v)[j], l)
          /\ ~fresh[v] /\ rank(new_state(v)) = 2 => Reached(group(v)[j], m)
      BY <2>2 DEF LocalInv, PastIsReached
    <3> QED
      BY <3>1, <1>4, OwnLevel DEF Grown, Kept
  <2> QED
    BY <1>6, <2>1, <2>2
<1>8. SeenIsReached(v)'
  BY <1>3 DEF SeenIsReached
<1> QED
  BY <1>3, <1>7, <1>8 DEF LocalInv, NewOutranksOld, TerminalIsIndexed, OwedIsSent

-----------------------------------------------------------------------------
(* What a step establishes of the invocation that takes it *)

\* A pointer in one of the monitor's states was reported, and is reached.
LEMMA PointerFacts ==
    ASSUME TypeOK, PointersReported, NEW s \in StateSet, NEW p \in pointers,
           p.name = s.name
    PROVE  /\ Reported(p.entity, s, p.attempt)
           /\ Reached(p.entity, Level(s, p.attempt))
<1>1. s.name \in StateNames
  BY DEF StateNames
<1>2. PICK t \in StateSet : t.name = p.name /\ Reported(p.entity, t, p.attempt)
  BY <1>1 DEF PointersReported
<1>3. t = s
  BY <1>2, ConsistentNamesAssumption
<1>4. p.attempt \in Nat
  BY AttemptsNat DEF TypeOK, Pointer
<1>5. Level(s, p.attempt) >= Level(s, p.attempt)
  BY <1>4, LevelType
<1> QED
  BY <1>2, <1>3, <1>5 DEF Reached

\* A HEAD that finds a pointer has seen one that was reported and reached.
LEMMA HeadStateKeeps ==
    ASSUME IInv, Grown, NEW v \in Invocations, HeadState(v)
    PROVE  LocalInv(v)'
<1> DEFINE s == States[scan[v]]
<1>0. TypeOK /\ LocalInv(v) /\ PointersReported
  BY DEF IInv
<1>1. s \in StateSet
  BY <1>0 DEF HeadState, TypeOK, StateSet
<1>2. /\ event' = event /\ ctx' = ctx /\ fresh' = fresh
      /\ pc[v] \in LoopCalls /\ pc'[v] \in LoopCalls
  BY <1>0 DEF HeadState, task, NextScan, LoopCalls, TypeOK
<1>3. \A h \in hits'[v] :
         \/ h \in hits[v]
         \/ /\ h = [state |-> s, attempt |-> attempt(v)]
            /\ PointerKey(s.name, entity(v), attempt(v)) \in pointers
  BY <1>0 DEF HeadState, TypeOK
<1>4. ASSUME PointerKey(s.name, entity(v), attempt(v)) \in pointers
      PROVE  /\ Reported(entity(v), s, attempt(v))
             /\ Reached(entity(v), Level(s, attempt(v)))
  <2>1. PICK p \in pointers : p = PointerKey(s.name, entity(v), attempt(v))
    BY <1>4
  <2>2. p.name = s.name /\ p.entity = entity(v) /\ p.attempt = attempt(v)
    BY <2>1 DEF PointerKey
  <2> QED
    BY <1>0, <1>1, <2>2, PointerFacts
<1>5. SeenIsReached(v)'
  <2> SUFFICES ASSUME NEW h \in hits'[v]
               PROVE  /\ Reported(entity(v), h.state, h.attempt)
                      /\ Reached(entity(v), HitLevel(h))'
    BY <1>2 DEF SeenIsReached, entity, group, Reported
  <2>e. entity(v)' = entity(v)
    BY <1>2 DEF entity, group
  <2>1. CASE h \in hits[v]
    BY <1>0, <1>2, <2>1, <2>e, HitFacts
       DEF LocalInv, SeenIsReached, Grown, Kept, LoopCalls
  <2>2. CASE h \notin hits[v]
    <3>1. h.state = s /\ h.attempt = attempt(v)
      BY <1>3, <2>2
    <3>2. Reported(entity(v), s, attempt(v)) /\ Reached(entity(v), Level(s, attempt(v)))
      BY <1>3, <1>4, <2>2
    <3>3. Level(s, attempt(v)) \in Nat
      BY <1>0, CurrentContext, LevelType
    <3> QED
      BY <3>1, <3>2, <3>3, <2>e DEF HitLevel, Grown, Kept
  <2> QED
    BY <2>1, <2>2
<1> QED
  BY <1>0, <1>2, <1>5, LoopStable

\* So has a LIST, whichever of the keys it could read.
LEMMA ListStateKeeps ==
    ASSUME IInv, Grown, NEW v \in Invocations, ListState(v)
    PROVE  LocalInv(v)'
<1> DEFINE s == States[scan[v]]
<1>0. TypeOK /\ LocalInv(v) /\ PointersReported
  BY DEF IInv
<1>1. s \in StateSet
  BY <1>0 DEF ListState, TypeOK, StateSet
<1>2. /\ event' = event /\ ctx' = ctx /\ fresh' = fresh
      /\ pc[v] \in LoopCalls /\ pc'[v] \in LoopCalls
  BY <1>0 DEF ListState, task, NextScan, LoopCalls, TypeOK
<1>3. \A h \in hits'[v] :
         \/ h \in hits[v]
         \/ \E p \in pointers : /\ p.name = s.name /\ p.entity = entity(v)
                                /\ h = [state |-> s, attempt |-> p.attempt]
  BY <1>0 DEF ListState, TypeOK
<1>5. SeenIsReached(v)'
  <2> SUFFICES ASSUME NEW h \in hits'[v]
               PROVE  /\ Reported(entity(v), h.state, h.attempt)
                      /\ Reached(entity(v), HitLevel(h))'
    BY <1>2 DEF SeenIsReached, entity, group, Reported
  <2>e. entity(v)' = entity(v)
    BY <1>2 DEF entity, group
  <2>1. CASE h \in hits[v]
    BY <1>0, <1>2, <2>1, <2>e, HitFacts
       DEF LocalInv, SeenIsReached, Grown, Kept, LoopCalls
  <2>2. CASE h \notin hits[v]
    <3>1. PICK p \in pointers : /\ p.name = s.name /\ p.entity = entity(v)
                                /\ h = [state |-> s, attempt |-> p.attempt]
      BY <1>3, <2>2
    <3>2. h.state = s /\ h.attempt = p.attempt
      BY <3>1
    <3>3. Reported(entity(v), s, p.attempt) /\ Reached(entity(v), Level(s, p.attempt))
      BY <1>0, <1>1, <3>1, PointerFacts
    <3>4. p.attempt \in Nat
      BY <1>0, AttemptsNat DEF TypeOK, Pointer
    <3>5. Level(s, p.attempt) \in Nat
      BY <3>4, LevelType
    <3> QED
      BY <3>2, <3>3, <3>5, <2>e DEF HitLevel, Grown, Kept
  <2> QED
    BY <2>1, <2>2
<1> QED
  BY <1>0, <1>2, <1>5, LoopStable

\* Reading and writing the record, and deleting a submitter pointer, leave what
\* is known of the lookup as it was.
LEMMA RecordStepsKeep ==
    ASSUME IInv, Grown, NEW v \in Invocations,
           GetRecord(v) \/ PutRecord(v) \/ DeleteSubmitterPointer(v)
    PROVE  LocalInv(v)'
<1>0. TypeOK /\ LocalInv(v)
  BY DEF IInv
<1>2. /\ event' = event /\ ctx' = ctx /\ fresh' = fresh /\ hits' = hits
      /\ pc[v] \in LoopCalls /\ pc'[v] \in LoopCalls
  BY <1>0 DEF GetRecord, PutRecord, DeleteSubmitterPointer, task, lookup, NextScan,
              LoopCalls, TypeOK
<1>3. SeenIsReached(v)'
  <2> SUFFICES ASSUME NEW h \in hits[v]
               PROVE  /\ Reported(entity(v), h.state, h.attempt)
                      /\ Reached(entity(v), HitLevel(h))'
    BY <1>2 DEF SeenIsReached, entity, group, Reported
  <2>e. entity(v)' = entity(v)
    BY <1>2 DEF entity, group
  <2> QED
    BY <1>0, <1>2, <2>e, HitFacts DEF LocalInv, SeenIsReached, Grown, Kept, LoopCalls
<1> QED
  BY <1>0, <1>2, <1>3, LoopStable

\* The old pointer is one the lookup has seen.
LEMMA OldIsSeen ==
    ASSUME TypeOK, NEW v \in Invocations, LocalInv(v), pc[v] # "idle", NEW h \in Best(v)
    PROVE  /\ h \in hits[v]
           /\ Reported(entity(v), h.state, h.attempt)
           /\ Reached(entity(v), HitLevel(h))
BY DEF Best, LocalInv, SeenIsReached

\* A context is skipped when it has reached more than the event's level.
LEMMA SkipContextKeeps ==
    ASSUME IInv, Grown, NEW v \in Invocations, SkipContext(v)
    PROVE  LocalInv(v)'
<1> SUFFICES ASSUME NEW e, e = entity(v),
                    NEW l, l = Level(new_state(v), attempt(v)),
                    NEW m, m = 3 * (attempt(v) + 1)
             PROVE  LocalInv(v)'
  OBVIOUS
<1>0. TypeOK /\ LocalInv(v) /\ fresh[v] \in BOOLEAN /\ pc[v] = "guard"
  BY DEF IInv, TypeOK, SkipContext
<1>t. /\ attempt(v) \in Nat /\ l \in Nat /\ m \in Nat /\ l < m
      /\ l = 3 * attempt(v) + rank(new_state(v)) /\ rank(new_state(v)) \in 0..2
  BY <1>0, CurrentContext, OwnLevel
<1>1. PICK h \in Best(v) :
         \/ h.attempt > attempt(v)
         \/ h.attempt = attempt(v) /\ rank(new_state(v)) < rank(h.state)
  BY DEF SkipContext, OutOfOrder, Stale, Old
<1>2. h \in hits[v] /\ Reached(entity(v), HitLevel(h))
  BY <1>0, OldIsSeen
<1>3. /\ HitLevel(h) \in Nat /\ h.attempt \in Nat /\ rank(h.state) \in 0..2
      /\ HitLevel(h) = 3 * h.attempt + rank(h.state)
  BY <1>0, <1>2, HitFacts
<1>4. l <= HitLevel(h) /\ (rank(new_state(v)) = 2 => m <= HitLevel(h))
  BY <1>t, <1>1, <1>3
<1>5. Reached(e, l) /\ (rank(new_state(v)) = 2 => Reached(e, m))
  BY <1>0, <1>t, <1>2, <1>3, <1>4, ReachedWeaken DEF TypeOK
<1>6. Reached(e, l)' /\ (rank(new_state(v)) = 2 => Reached(e, m)')
  BY <1>5, <1>t DEF Grown, Kept
<1> QED
  BY <1>0, <1>6, NextContextStable DEF SkipContext

\* The pointer that is there is the one to write.
LEMMA KeepPointerKeeps ==
    ASSUME IInv, Grown, NEW v \in Invocations, KeepPointer(v)
    PROVE  LocalInv(v)'
<1> SUFFICES ASSUME NEW e, e = entity(v),
                    NEW l, l = Level(new_state(v), attempt(v)),
                    NEW m, m = 3 * (attempt(v) + 1)
             PROVE  LocalInv(v)'
  OBVIOUS
<1>0. TypeOK /\ LocalInv(v) /\ fresh[v] \in BOOLEAN /\ pc[v] = "guard"
  BY DEF IInv, TypeOK, KeepPointer
<1>1. PICK h \in Best(v) : h.attempt = attempt(v) /\ h.state = new_state(v)
  BY DEF KeepPointer, SameState, Old
<1>2. Reached(e, l)
  BY <1>0, <1>1, OldIsSeen DEF HitLevel
<1>3. Reached(e, l)'
  BY <1>0, <1>2, OwnLevel DEF Grown, Kept
<1> QED
  BY <1>0, <1>3, NextContextStable DEF KeepPointer

\* The old pointer is gone; the new one, or a higher, is there.
LEMMA DeleteOldPointerKeeps ==
    ASSUME IInv, Grown, NEW v \in Invocations, DeleteOldPointer(v)
    PROVE  LocalInv(v)'
<1> SUFFICES ASSUME NEW e, e = entity(v),
                    NEW l, l = Level(new_state(v), attempt(v)),
                    NEW m, m = 3 * (attempt(v) + 1)
             PROVE  LocalInv(v)'
  OBVIOUS
<1>0. TypeOK /\ LocalInv(v) /\ pc[v] = "delete_old"
  BY DEF IInv, DeleteOldPointer
<1>2. Reached(e, l)
  BY <1>0 DEF LocalInv, NewOutranksOld
<1>3. Reached(e, l)'
  BY <1>0, <1>2, OwnLevel DEF Grown, Kept
<1> QED
  BY <1>0, <1>3, NextContextStable DEF DeleteOldPointer

\* The pointer just put is reached, and outranks the one to be deleted.
LEMMA PutPointerKeeps ==
    ASSUME IInv, Grown, NEW v \in Invocations, PutPointer(v)
    PROVE  LocalInv(v)'
<1> SUFFICES ASSUME NEW e, e = entity(v),
                    NEW l, l = Level(new_state(v), attempt(v)),
                    NEW m, m = 3 * (attempt(v) + 1)
             PROVE  LocalInv(v)'
  OBVIOUS
<1>0. TypeOK /\ LocalInv(v) /\ pc[v] = "guard" /\ pc \in [Invocations -> PCs]
  BY DEF IInv, PutPointer, TypeOK
<1>t. /\ attempt(v) \in Nat /\ l \in Nat /\ new_state(v) \in StateSet
      /\ l = 3 * attempt(v) + rank(new_state(v)) /\ rank(new_state(v)) \in 0..2
  BY <1>0, CurrentContext, OwnLevel
<1>1. Reached(e, l)'
  <2>1. PICK p \in pointers' : p = PointerKey(new_state(v).name, entity(v), attempt(v))
    BY DEF PutPointer
  <2>2. p.entity = e /\ p.name = new_state(v).name /\ p.attempt = attempt(v)
    BY <2>1 DEF PointerKey
  <2>3. Level(new_state(v), p.attempt) >= l
    <3>1. Level(new_state(v), p.attempt) = Level(new_state(v), attempt(v))
      BY <2>2, Zenon
    <3>2. l >= l
      BY <1>t
    <3> QED
      BY <3>1, <3>2
  <2>4. PICK s \in StateSet : s = new_state(v)
    BY <1>t
  <2> QED
    BY <2>2, <2>3, <2>4 DEF Reached
<1>2. CASE Old(v) = {}
  BY <1>0, <1>1, <1>2, NextContextStable DEF PutPointer
<1>3. CASE Old(v) # {}
  <2>1. /\ pc' = [pc EXCEPT ![v] = "delete_old"]
        /\ event' = event /\ ctx' = ctx /\ fresh' = fresh /\ hits' = hits
    BY <1>3 DEF PutPointer, Goto, task, lookup
  <2>2. /\ group(v)' = group(v) /\ attempt(v)' = attempt(v)
        /\ new_state(v)' = new_state(v) /\ entity(v)' = entity(v)
    BY <2>1 DEF group, attempt, new_state, entity
  <2>3. Old(v)' = Old(v) /\ pc'[v] = "delete_old"
    BY <1>0, <2>1, <2>2 DEF Old, Best
  <2>4. ASSUME NEW h \in Old(v) PROVE HitLevel(h) < l
    <3>1. h \in Best(v) /\ h.attempt <= attempt(v)
      BY DEF Old
    <3>2. h \in hits[v] /\ Reported(entity(v), h.state, h.attempt)
      BY <1>0, <3>1, OldIsSeen
    <3>3. /\ h.attempt \in Nat /\ rank(h.state) \in 0..2
          /\ HitLevel(h) = 3 * h.attempt + rank(h.state)
      BY <1>0, <3>2, HitFacts
    <3>4. CASE h.attempt < attempt(v)
      BY <1>t, <3>3, <3>4
    <3>5. CASE h.attempt = attempt(v)
      <4>1. rank(h.state) <= rank(new_state(v)) /\ h.state # new_state(v)
        BY <1>t, <3>3, <3>5 DEF PutPointer, OutOfOrder, SameState
      <4>2. rank(h.state) # rank(new_state(v))
        <5>1. PICK ev \in Events : /\ ev.state = h.state /\ ev.attempt = h.attempt
                                   /\ \E k \in DOMAIN ev.group : ev.group[k] = entity(v)
          BY <3>2 DEF Reported
        <5>2. /\ event[v] \in Events /\ ctx[v] \in DOMAIN event[v].group
              /\ event[v].group[ctx[v]] = entity(v)
              /\ event[v].attempt = attempt(v) /\ event[v].state = new_state(v)
          BY <1>0 DEF TypeOK, group, attempt, new_state, entity
        <5> QED
          BY <3>5, <4>1, <5>1, <5>2, OneOutcomeAssumption
      <4> QED
        BY <1>t, <3>3, <3>5, <4>1, <4>2
    <3> QED
      BY <1>t, <3>1, <3>3, <3>4, <3>5
  <2>5. NewOutranksOld(v)'
    BY <1>1, <2>2, <2>3, <2>4 DEF NewOutranksOld
  <2>6. SeenIsReached(v)'
    BY <1>0, <2>1, <2>2, HitFacts DEF LocalInv, SeenIsReached, Grown, Kept, Reported
  <2>7. Past(v)' = Past(v)
    BY <1>0, <2>1, <2>2, <2>3 DEF Past
  <2>8. PastIsReached(v)'
    BY <1>0, <2>1, <2>2, <2>7, OwnLevel DEF LocalInv, PastIsReached, Grown, Kept
  <2> QED
    BY <2>3, <2>5, <2>6, <2>8 DEF LocalInv, TerminalIsIndexed, OwedIsSent
<1> QED
  BY <1>2, <1>3

\* An event that is routed or indexed reports an outcome, which has rank 2.
LEMMA OutcomeFacts ==
    ASSUME NEW s, NEW a
    PROVE  /\ is_terminal(s, a, max_attempts) => rank(s) = 2
           /\ goes_to_retry_queue(s, a, max_attempts) =>
                 rank(s) = 2 /\ ~is_terminal(s, a, max_attempts)
           /\ goes_to_failure_dlq(s, a, max_attempts) => is_terminal(s, a, max_attempts)
BY DEF is_terminal, rank, goes_to_retry_queue, goes_to_failure_dlq, retryable

\* Writing the output index and sending to a queue leave what was reached alone.
LEMMA RouteStepsKeep ==
    ASSUME IInv, Grown, NEW v \in Invocations,
           WriteOutputIndex(v) \/ SendRetry(v) \/ SendDlq(v)
    PROVE  LocalInv(v)'
<1>0. /\ TypeOK /\ LocalInv(v) /\ pc[v] \in {"route", "send"}
      /\ pc \in [Invocations -> PCs] /\ event[v] \in Events
      /\ retry_queue \in [Events -> Nat] /\ failure_dlq \in [Events -> Nat]
  BY DEF IInv, WriteOutputIndex, SendRetry, SendDlq, TypeOK
<1>1. /\ event' = event /\ ctx' = ctx /\ fresh' = fresh /\ hits' = hits
      /\ pc'[v] \in {"send", "return"}
  BY <1>0 DEF WriteOutputIndex, SendRetry, SendDlq, Goto, task, lookup
<1>2. /\ group(v)' = group(v) /\ attempt(v)' = attempt(v)
      /\ new_state(v)' = new_state(v) /\ entity(v)' = entity(v)
  BY <1>1 DEF group, attempt, new_state, entity
<1>3. /\ terminal(v)' = terminal(v) /\ ToFailureDlq(v)' = ToFailureDlq(v)
      /\ ToRetryQueue(v)' = ToRetryQueue(v)
  BY <1>2 DEF terminal, ToFailureDlq, ToRetryQueue
<1>4. SeenIsReached(v)'
  BY <1>0, <1>1, <1>2, HitFacts DEF LocalInv, SeenIsReached, Grown, Kept, Reported
<1>5. PastIsReached(v)'
  <2>1. Past(v)' = Past(v)
    BY <1>0, <1>1, <1>2 DEF Past
  <2> QED
    BY <1>0, <1>1, <1>2, <2>1, OwnLevel DEF LocalInv, PastIsReached, Grown, Kept
<1>6. /\ ToRetryQueue(v) => ~terminal(v)
      /\ ToFailureDlq(v) => terminal(v)
  BY OutcomeFacts DEF ToRetryQueue, ToFailureDlq, terminal
<1>7. TerminalIsIndexed(v)' /\ OwedIsSent(v)'
  <2>1. CASE WriteOutputIndex(v)
    BY <1>0, <1>1, <1>2, <1>3, <1>6, <2>1
       DEF WriteOutputIndex, Goto, TerminalIsIndexed, OwedIsSent
  <2>2. CASE SendRetry(v)
    BY <1>0, <1>1, <1>2, <1>3, <1>6, <2>2
       DEF SendRetry, Goto, TerminalIsIndexed, OwedIsSent
  <2>3. CASE SendDlq(v)
    BY <1>0, <1>1, <1>2, <1>3, <1>6, <2>3
       DEF SendDlq, Goto, TerminalIsIndexed, OwedIsSent, LocalInv, store
  <2> QED
    BY <2>1, <2>2, <2>3
<1> QED
  BY <1>0, <1>1, <1>4, <1>5, <1>7 DEF LocalInv, NewOutranksOld

-----------------------------------------------------------------------------
(* The inductive invariant *)

\* An idle invocation satisfies the local invariant.
LEMMA LocalInit == Init => \A v \in Invocations : LocalInv(v)
BY DEF Init, LocalInv

\* Whoever takes the step, every invocation keeps its invariant.
LEMMA LocalStep ==
    ASSUME IInv, Grown, [Next]_vars, NEW w \in Invocations
    PROVE  LocalInv(w)'
<1>0. /\ TypeOK /\ LocalInv(w)
      /\ pc \in [Invocations -> PCs] /\ event \in [Invocations -> Events]
      /\ ctx \in [Invocations -> Nat] /\ fresh \in [Invocations -> BOOLEAN]
      /\ hits \in [Invocations -> SUBSET Hit]
  BY DEF IInv, TypeOK
<1> DEFINE Alone(v) ==
        v # w => /\ event'[w] = event[w] /\ ctx'[w] = ctx[w] /\ hits'[w] = hits[w]
                 /\ fresh'[w] = fresh[w] /\ pc'[w] = pc[w]
<1>1. CASE UNCHANGED vars
  BY <1>0, <1>1, OtherStable DEF vars, task, lookup
<1>2. ASSUME NEW v \in Invocations,
             (\E ev \in Events : Deliver(v, ev)) \/ Crash(v) \/ Return(v)
      PROVE  LocalInv(w)'
  <2>1. Alone(v)
    BY <1>0, <1>2 DEF Deliver, Crash, Return, End, Enter
  <2>2. CASE v # w
    BY <1>0, <2>1, <2>2, OtherStable
  <2>3. CASE v = w /\ pc'[w] = "idle"
    BY <2>3 DEF LocalInv
  <2>4. ASSUME v = w, NEW ev \in Events, Deliver(v, ev) PROVE LocalInv(w)'
    <3>1. /\ pc'[w] = "head" /\ hits'[w] = {} /\ ctx'[w] = 1 /\ event'[w] = ev
      BY <1>0, <2>4 DEF Deliver, Enter
    <3>2. Past(w)' = {}
      BY <3>1, EventFacts DEF Past, group
    <3> QED
      BY <3>1, <3>2 DEF LocalInv, SeenIsReached, NewOutranksOld, PastIsReached,
                        TerminalIsIndexed, OwedIsSent
  <2>5. Crash(v) \/ Return(v) => pc'[v] = "idle"
    BY <1>0 DEF Crash, Return, End, Enter
  <2> QED
    BY <1>2, <2>2, <2>3, <2>4, <2>5
<1>3. ASSUME NEW v \in Invocations, Step(v), ~Return(v)
      PROVE  LocalInv(w)'
  <2>1. CASE v = w
    BY <1>3, <2>1, HeadStateKeeps, ListStateKeeps, RecordStepsKeep, SkipContextKeeps,
       KeepPointerKeeps, PutPointerKeeps, DeleteOldPointerKeeps, RouteStepsKeep
    DEF Step
  <2>2. Alone(v)
    <3>1. CASE HeadState(v) \/ ListState(v) \/ GetRecord(v) \/ PutRecord(v)
               \/ DeleteSubmitterPointer(v)
      BY <1>0, <3>1 DEF HeadState, ListState, GetRecord, PutRecord,
                        DeleteSubmitterPointer, NextScan, task, lookup
    <3>2. CASE SkipContext(v) \/ KeepPointer(v) \/ PutPointer(v) \/ DeleteOldPointer(v)
      BY <1>0, <3>2 DEF SkipContext, KeepPointer, PutPointer, DeleteOldPointer,
                        NextContext, Enter, Goto, task, lookup
    <3>3. CASE WriteOutputIndex(v) \/ SendRetry(v) \/ SendDlq(v)
      BY <1>0, <3>3 DEF WriteOutputIndex, SendRetry, SendDlq, Goto, task, lookup
    <3> QED
      BY <1>3, <3>1, <3>2, <3>3 DEF Step
  <2>3. CASE v # w
    BY <1>0, <2>2, <2>3, OtherStable
  <2> QED
    BY <2>1, <2>3
<1> QED
  BY <1>1, <1>2, <1>3 DEF Next, MonitorNext, Step

\* A pointer is put for the event at hand, and for no other.
LEMMA PointersReportedStep == IInv /\ [Next]_vars => PointersReported'
<1> SUFFICES ASSUME IInv, [Next]_vars PROVE PointersReported'
  OBVIOUS
<1>0. TypeOK /\ PointersReported
  BY DEF IInv
<1>1. ASSUME pointers' \subseteq pointers PROVE PointersReported'
  BY <1>0, <1>1 DEF PointersReported, Reported
<1>2. ASSUME NEW v \in Invocations, PutPointer(v) PROVE PointersReported'
  <2> SUFFICES ASSUME NEW p \in pointers', p.name \in StateNames
               PROVE  \E s \in StateSet : s.name = p.name /\ Reported(p.entity, s, p.attempt)
    BY DEF PointersReported, Reported
  <2>1. CASE p \in pointers
    BY <1>0, <2>1 DEF PointersReported
  <2>2. CASE p \notin pointers
    <3>1. /\ p.name = new_state(v).name /\ p.entity = entity(v) /\ p.attempt = attempt(v)
      BY <1>2, <2>2 DEF PutPointer, PointerKey
    <3>2. /\ event[v] \in Events /\ ctx[v] \in DOMAIN event[v].group
          /\ event[v].group[ctx[v]] = entity(v)
          /\ event[v].attempt = attempt(v) /\ event[v].state = new_state(v)
      BY <1>0 DEF TypeOK, group, attempt, new_state, entity
    <3>3. Reported(p.entity, new_state(v), p.attempt)
      BY <3>1, <3>2 DEF Reported
    <3> QED
      BY <1>0, <3>1, <3>3, CurrentContext
  <2> QED
    BY <2>1, <2>2
<1>3. ASSUME NEW v \in Invocations,
             \/ HeadState(v) \/ ListState(v) \/ GetRecord(v) \/ PutRecord(v)
             \/ DeleteSubmitterPointer(v) \/ SkipContext(v) \/ KeepPointer(v)
             \/ DeleteOldPointer(v) \/ WriteOutputIndex(v) \/ SendRetry(v) \/ SendDlq(v)
             \/ Return(v) \/ Crash(v) \/ \E ev \in Events : Deliver(v, ev)
      PROVE  pointers' \subseteq pointers
  BY <1>3 DEF HeadState, ListState, GetRecord, PutRecord, DeleteSubmitterPointer,
              SkipContext, KeepPointer, DeleteOldPointer, WriteOutputIndex, SendRetry,
              SendDlq, Return, Crash, Deliver, store
<1> QED
  BY <1>1, <1>2, <1>3 DEF Next, MonitorNext, Step, vars, store

\* What has to hold of an event for monitor_job to return from it.
Settled(ev) ==
    /\ \A k \in DOMAIN ev.group : Reached(ev.group[k], Level(ev.state, ev.attempt))
    /\ is_terminal(ev.state, ev.attempt, max_attempts)
          => \/ [name |-> ev.state.name, output |-> ev.output] \in outputs
             \/ Superseded(ev)
    /\ retry_queue_url /\ goes_to_retry_queue(ev.state, ev.attempt, max_attempts)
          => retry_queue[ev] > 0 \/ Superseded(ev)
    /\ dlq_url /\ goes_to_failure_dlq(ev.state, ev.attempt, max_attempts)
          => failure_dlq[ev] > 0 \/ Superseded(ev)

\* The invariants about handled events, one event at a time.
LEMMA HandledSettled ==
    HandledIsReflected /\ HandledTerminalIsIndexed /\ HandledFailureIsRouted
        <=> \A ev \in handled : Settled(ev)
BY DEF HandledIsReflected, HandledTerminalIsIndexed, HandledFailureIsRouted, Settled

\* What is settled for an event stays settled: pointers only go up, the index
\* and the queues only grow.
LEMMA SettledStays ==
    ASSUME Grown, NEW ev \in Events, Settled(ev)
    PROVE  Settled(ev)'
<1>1. ev.state \in StateSet /\ ev.attempt \in Nat
  BY EventFacts
<1>2. Level(ev.state, ev.attempt) \in Nat /\ 3 * (ev.attempt + 1) \in Nat
  BY <1>1, LevelType
<1>3. Superseded(ev) => Superseded(ev)'
  BY <1>2 DEF Grown, Kept, Superseded
<1> QED
  BY <1>2, <1>3 DEF Grown, Kept, Settled

\* Return finds the event settled: by this invocation, or by a later attempt.
LEMMA ReturnSettled ==
    ASSUME IInv, NEW v \in Invocations, Return(v)
    PROVE  Settled(event[v])
<1>0. /\ TypeOK /\ LocalInv(v) /\ pc[v] \in {"route", "return"} /\ event[v] \in Events
      /\ fresh[v] \in BOOLEAN
  BY DEF IInv, Return, TypeOK
<1>1. /\ PastIsReached(v) /\ TerminalIsIndexed(v) /\ OwedIsSent(v)
      /\ Past(v) = DOMAIN event[v].group
  BY <1>0 DEF LocalInv, Past, group
<1>2. \A k \in DOMAIN event[v].group :
         Reached(event[v].group[k], Level(event[v].state, event[v].attempt))
  BY <1>1 DEF PastIsReached, group, new_state, attempt
<1>3. ~fresh[v] /\ rank(event[v].state) = 2 => Superseded(event[v])
  BY <1>1 DEF PastIsReached, Superseded, group, new_state, attempt
<1>4. CASE pc[v] = "return"
  <2>1. is_terminal(event[v].state, event[v].attempt, max_attempts)
           => [name |-> event[v].state.name, output |-> event[v].output] \in outputs
    BY <1>1, <1>4 DEF TerminalIsIndexed, terminal, new_state, attempt
  <2> QED
    BY <1>1, <1>2, <1>4, <2>1
       DEF Settled, OwedIsSent, ToRetryQueue, ToFailureDlq, new_state, attempt
<1>5. CASE pc[v] = "route"
  <2>1. fresh[v] => ~terminal(v) /\ ~ToRetryQueue(v)
    BY <1>5 DEF Return
  <2>2. CASE fresh[v]
    BY <1>2, <2>1, <2>2, OutcomeFacts
       DEF Settled, terminal, ToRetryQueue, new_state, attempt
  <2>3. CASE ~fresh[v]
    BY <1>2, <1>3, <2>3, OutcomeFacts DEF Settled
  <2> QED
    BY <1>0, <2>2, <2>3
<1> QED
  BY <1>0, <1>4, <1>5

\* Every handled event is settled after every step.
LEMMA HandledStep == IInv /\ [Next]_vars => \A ev \in handled' : Settled(ev)'
<1> SUFFICES ASSUME IInv, [Next]_vars, NEW ev \in handled' PROVE Settled(ev)'
  OBVIOUS
<1>0. /\ TypeOK /\ \A ew \in handled : Settled(ew)
      /\ handled \subseteq Events /\ event \in [Invocations -> Events]
  BY HandledSettled DEF IInv, TypeOK
<1>1. Grown
  BY StepGrows DEF IInv
<1>2. CASE ev \in handled
  BY <1>0, <1>1, <1>2, SettledStays
<1>3. ASSUME NEW v \in Invocations, Return(v), ev = event[v] PROVE Settled(ev)'
  <2>1. Settled(ev) /\ ev \in Events
    BY <1>0, <1>3, ReturnSettled
  <2> QED
    BY <1>1, <2>1, SettledStays
<1>4. ASSUME ev \notin handled PROVE \E v \in Invocations : Return(v) /\ ev = event[v]
  BY <1>4 DEF Next, MonitorNext, Step, vars, delivery, Deliver, Crash, HeadState, ListState,
     GetRecord, PutRecord, DeleteSubmitterPointer, SkipContext, KeepPointer, PutPointer,
     DeleteOldPointer, WriteOutputIndex, SendRetry, SendDlq, Return
<1> QED
  BY <1>2, <1>3, <1>4

\* The initial states satisfy the inductive invariant.
LEMMA InvariantInit == Init => IInv
<1> SUFFICES ASSUME Init PROVE IInv
  OBVIOUS
<1>1. PointersReported
  BY SubmitterAssumption DEF Init, PointersReported, PointerKey
<1>2. \A ev \in handled : Settled(ev)
  BY DEF Init
<1> QED
  BY <1>1, <1>2, HandledSettled, TypeInit, LocalInit DEF IInv

\* Every step preserves it.
LEMMA InvariantStep == IInv /\ [Next]_vars => IInv'
<1> SUFFICES ASSUME IInv, [Next]_vars PROVE IInv'
  OBVIOUS
<1>1. TypeOK'
  BY TypeStep DEF IInv
<1>2. \A w \in Invocations : LocalInv(w)'
  BY StepGrows, LocalStep DEF IInv
<1>3. HandledIsReflected' /\ HandledTerminalIsIndexed' /\ HandledFailureIsRouted'
  <2>1. \A ev \in handled' : Settled(ev)'
    BY HandledStep
  <2> QED
    BY <2>1 DEF HandledIsReflected, HandledTerminalIsIndexed, HandledFailureIsRouted, Settled
<1> QED
  BY <1>1, <1>2, <1>3, PointersReportedStep DEF IInv

\* The inductive invariant holds in every reachable state.
THEOREM InvariantHolds == Spec => []IInv
BY InvariantInit, InvariantStep, PTL DEF Spec

\* However invocations interleave, crash and repeat, an event monitor_job has
\* returned from is reflected in the pointers of every entity of its group.
THEOREM Reflected == Spec => []HandledIsReflected
<1>1. IInv => HandledIsReflected
  BY DEF IInv
<1> QED
  BY <1>1, InvariantHolds, PTL

\* No failure is forgotten: one monitor_job has returned from was sent to the
\* queue it is owed to, or a later attempt has superseded it.
THEOREM Routed == Spec => []HandledFailureIsRouted
<1>1. IInv => HandledFailureIsRouted
  BY DEF IInv
<1> QED
  BY <1>1, InvariantHolds, PTL

\* Nor is a terminal outcome missing from the output index.
THEOREM Indexed == Spec => []HandledTerminalIsIndexed
<1>1. IInv => HandledTerminalIsIndexed
  BY DEF IInv
<1> QED
  BY <1>1, InvariantHolds, PTL

\* The authoritative pointer of an entity never disappears or goes back, though
\* every transition deletes a pointer and no call is atomic with another.
THEOREM NeverRegresses == Spec => PointerNeverRegresses
<1>1. IInv /\ [Next]_vars => [\A e \in Entities : \A l \in Levels :
                                 Reached(e, l) => Reached(e, l)']_vars
  <2> SUFFICES ASSUME IInv, [Next]_vars, NEW e \in Entities, NEW l \in Levels, Reached(e, l)
               PROVE  Reached(e, l)'
    OBVIOUS
  <2>1. l \in Nat
    <3>1. PICK s \in StateSet, a \in Attempts : l = Level(s, a)
      BY DEF Levels
    <3>2. a \in Nat
      BY AttemptsNat
    <3> QED
      BY <3>1, <3>2, LevelType
  <2> QED
    BY <2>1, StepKeepsReached DEF IInv
<1> QED
  BY <1>1, InvariantHolds, PTL DEF Spec, PointerNeverRegresses

-----------------------------------------------------------------------------
(* The refinement mapping *)

AttainedBy(e) == {l \in Levels : Reached(e, l)}
AttainedMap == [e \in Entities |-> AttainedBy(e)]

\* Levels are numbers, and an event's own level is one of them.
LEMMA LevelFacts ==
    /\ Levels \subseteq Nat
    /\ \A ev \in Events : EventLevel(ev) \in Levels /\ NextAttemptLevel(ev) \in Nat
<1>1. ASSUME NEW l \in Levels PROVE l \in Nat
  <2>1. PICK s \in StateSet, a \in Attempts : l = Level(s, a)
    BY DEF Levels
  <2> QED
    BY <2>1, AttemptsNat, LevelType
<1>2. ASSUME NEW ev \in Events PROVE EventLevel(ev) \in Levels /\ NextAttemptLevel(ev) \in Nat
  BY EventFacts DEF Levels, EventLevel, NextAttemptLevel
<1> QED
  BY <1>1, <1>2

\* An entity whose pointers reach a level has attained that level or a higher
\* one: the level of the pointer itself.
LEMMA ReachedIsAttained ==
    ASSUME TypeOK, NEW e \in Entities, NEW l \in Nat, Reached(e, l)
    PROVE  \E m \in AttainedBy(e) : m >= l
<1>1. PICK p \in pointers, s \in StateSet :
         p.entity = e /\ p.name = s.name /\ Level(s, p.attempt) >= l
  BY DEF Reached
<1>2. p.attempt \in Attempts
  BY DEF TypeOK, Pointer
<1>3. Level(s, p.attempt) \in Levels /\ Level(s, p.attempt) \in Nat
  BY <1>2, LevelFacts DEF Levels
<1>4. Reached(e, Level(s, p.attempt))
  BY <1>1, <1>3 DEF Reached
<1> QED
  BY <1>1, <1>3, <1>4 DEF AttainedBy

\* What is settled in the bucket is attained in the abstract state.
LEMMA AttainedGroup ==
    ASSUME NEW ev \in Events,
           \A k \in DOMAIN ev.group : Reached(ev.group[k], EventLevel(ev))
    PROVE  \A k \in DOMAIN ev.group : EventLevel(ev) \in AttainedMap[ev.group[k]]
BY LevelFacts, EventFacts DEF AttainedMap, AttainedBy

LEMMA SupersededGroup ==
    ASSUME TypeOK, NEW ev \in Events, Superseded(ev)
    PROVE  \A k \in DOMAIN ev.group :
              \E l \in AttainedMap[ev.group[k]] : l >= NextAttemptLevel(ev)
<1> SUFFICES ASSUME NEW k \in DOMAIN ev.group
             PROVE  \E l \in AttainedMap[ev.group[k]] : l >= NextAttemptLevel(ev)
  OBVIOUS
<1>1. ev.group[k] \in Entities /\ NextAttemptLevel(ev) \in Nat
  BY EventFacts, LevelFacts
<1>2. Reached(ev.group[k], NextAttemptLevel(ev))
  BY DEF Superseded, NextAttemptLevel
<1> QED
  BY <1>1, <1>2, ReachedIsAttained DEF AttainedMap

-----------------------------------------------------------------------------
(* Steps *)

\* A step whose pointers change for entity e only advances e.
LEMMA PointerStepAdvances ==
    ASSUME IInv, [Next]_vars, NEW e \in Entities,
           \A p : p.entity # e => (p \in pointers <=> p \in pointers'),
           UNCHANGED <<queues, handled>>
    PROVE  Tracking!Advance(e)
<1>1. \A l \in Levels : Reached(e, l) => Reached(e, l)'
  BY LevelFacts, StepKeepsReached DEF IInv
<1>2. \A d \in Entities \ {e} : AttainedBy(d)' = AttainedBy(d)
  <2> SUFFICES ASSUME NEW d \in Entities \ {e}, NEW l \in Levels
               PROVE  Reached(d, l)' <=> Reached(d, l)
    BY DEF AttainedBy, Levels
  <2> QED
    BY DEF Reached
<1>3. AttainedBy(e) \subseteq AttainedBy(e)' /\ AttainedBy(e)' \in SUBSET Levels
  BY <1>1 DEF AttainedBy, Levels
<1>4. AttainedMap' = [AttainedMap EXCEPT ![e] = AttainedBy(e)']
  BY <1>2 DEF AttainedMap
<1>5. AttainedMap[e] = AttainedBy(e)
  BY DEF AttainedMap
<1>6. NotifiedEvents' = NotifiedEvents /\ handled' = handled
  BY DEF NotifiedEvents, queues
<1> QED
  BY <1>3, <1>4, <1>5, <1>6 DEF Tracking!Advance, AttainedMap, AttainedBy

\* A step that leaves pointers, queues and acknowledgements alone stutters.
LEMMA OtherStepStutters ==
    ASSUME UNCHANGED <<pointers, queues, handled>>
    PROVE  UNCHANGED Tracking!vars
<1>1. AttainedMap' = AttainedMap
  BY DEF AttainedMap, AttainedBy, Levels, Reached
<1>2. NotifiedEvents' = NotifiedEvents
  BY DEF NotifiedEvents, queues
<1> QED
  BY <1>1, <1>2 DEF Tracking!vars, AttainedMap, AttainedBy

\* A message is sent for a failure that is owed one, once every entity of the
\* group has attained its level.
LEMMA SendNotifies ==
    ASSUME IInv, NEW v \in Invocations, SendRetry(v) \/ SendDlq(v)
    PROVE  Tracking!Notify(event[v])
<1>0. /\ TypeOK /\ LocalInv(v) /\ event[v] \in Events /\ pc[v] \in {"route", "send"}
      /\ retry_queue \in [Events -> Nat] /\ failure_dlq \in [Events -> Nat]
  BY DEF IInv, TypeOK, SendRetry, SendDlq
<1>1. OwedTo(event[v])
  <2>1. CASE SendRetry(v)
    BY <2>1 DEF SendRetry, ToRetryQueue, OwedTo, new_state, attempt
  <2>2. CASE SendDlq(v)
    BY <1>0, <2>2 DEF SendDlq, LocalInv, OwedIsSent, ToFailureDlq, OwedTo, new_state, attempt
  <2> QED
    BY <2>1, <2>2
<1>2. \A k \in DOMAIN event[v].group : EventLevel(event[v]) \in AttainedMap[event[v].group[k]]
  <2>1. \A k \in DOMAIN event[v].group : Reached(event[v].group[k], EventLevel(event[v]))
    BY <1>0 DEF LocalInv, PastIsReached, Past, group, new_state, attempt, EventLevel
  <2> QED
    BY <1>0, <2>1, AttainedGroup
<1>3. NotifiedEvents' = NotifiedEvents \cup {event[v]}
  <2>1. CASE SendRetry(v)
    BY <1>0, <2>1 DEF SendRetry, NotifiedEvents
  <2>2. CASE SendDlq(v)
    BY <1>0, <2>2 DEF SendDlq, NotifiedEvents
  <2> QED
    BY <2>1, <2>2
<1>4. AttainedMap' = AttainedMap /\ handled' = handled
  BY DEF SendRetry, SendDlq, store, delivery, AttainedMap, AttainedBy, Levels, Reached
<1> QED
  BY <1>1, <1>2, <1>3, <1>4
     DEF Tracking!Notify, Tracking!Attained, AttainedMap, AttainedBy

\* A return acknowledges an event that is settled.
LEMMA ReturnAcknowledges ==
    ASSUME IInv, NEW v \in Invocations, Return(v)
    PROVE  Tracking!Acknowledge(event[v])
<1>0. /\ TypeOK /\ event[v] \in Events /\ Settled(event[v])
      /\ retry_queue \in [Events -> Nat] /\ failure_dlq \in [Events -> Nat]
  BY ReturnSettled DEF IInv, TypeOK
<1>1. \A k \in DOMAIN event[v].group : EventLevel(event[v]) \in AttainedMap[event[v].group[k]]
  BY <1>0, AttainedGroup DEF Settled, EventLevel
<1>2. OwedTo(event[v]) => event[v] \in NotifiedEvents \/ Superseded(event[v])
  BY <1>0 DEF Settled, OwedTo, NotifiedEvents
<1>3. Superseded(event[v]) =>
         \A k \in DOMAIN event[v].group :
            \E l \in AttainedMap[event[v].group[k]] : l >= NextAttemptLevel(event[v])
  BY <1>0, SupersededGroup
<1>4. AttainedMap' = AttainedMap /\ NotifiedEvents' = NotifiedEvents
  BY DEF Return, store, queues, NotifiedEvents, AttainedMap, AttainedBy, Levels, Reached
<1>5. handled' = handled \cup {event[v]}
  BY DEF Return
<1> QED
  BY <1>1, <1>2, <1>3, <1>4, <1>5
     DEF Tracking!Acknowledge, Tracking!Attained, Tracking!Superseded, AttainedMap, AttainedBy

-----------------------------------------------------------------------------
(* The refinement *)

\* An invocation's writes to the bucket are of its current entity alone.
LEMMA WritesOwnEntity ==
    ASSUME TypeOK, NEW v \in Invocations,
           PutPointer(v) \/ DeleteOldPointer(v) \/ DeleteSubmitterPointer(v)
    PROVE  /\ entity(v) \in Entities
           /\ \A p : p.entity # entity(v) => (p \in pointers <=> p \in pointers')
           /\ UNCHANGED <<queues, handled>>
<1>1. entity(v) \in Entities
  BY EventFacts DEF TypeOK, entity, group
<1>2. CASE PutPointer(v)
  BY <1>1, <1>2 DEF PutPointer, PointerKey, delivery
<1>3. CASE DeleteOldPointer(v)
  BY <1>1, <1>3 DEF DeleteOldPointer, PointerKey, delivery
<1>4. CASE DeleteSubmitterPointer(v)
  BY <1>1, <1>4 DEF DeleteSubmitterPointer, PointerKey, delivery
<1> QED
  BY <1>2, <1>3, <1>4

\* No entity has attained anything before the first event: the pointers that a
\* submitter left are of its own states.
LEMMA TrackingInit == Init => Tracking!Init
<1> SUFFICES ASSUME Init PROVE Tracking!Init
  OBVIOUS
<1>1. \A e \in Entities : AttainedBy(e) = {}
  BY SubmitterAssumption DEF Init, AttainedBy, Reached, PointerKey, StateNames
<1>2. NotifiedEvents = {}
  BY DEF Init, NotifiedEvents
<1>3. AttainedMap = [e \in Entities |-> {}]
  BY <1>1 DEF AttainedMap
<1> QED
  BY <1>2, <1>3 DEF Init, Tracking!Init, AttainedMap, AttainedBy

\* Every step of the monitor is a step of EntityTracking, or stutters.
LEMMA TrackingStep == IInv /\ [Next]_vars => [Tracking!Next]_(Tracking!vars)
<1> SUFFICES ASSUME IInv, [Next]_vars PROVE [Tracking!Next]_(Tracking!vars)
  OBVIOUS
<1>0. TypeOK /\ \A v \in Invocations : event[v] \in Events
  BY DEF IInv, TypeOK
<1>1. ASSUME NEW v \in Invocations,
             PutPointer(v) \/ DeleteOldPointer(v) \/ DeleteSubmitterPointer(v)
      PROVE  Tracking!Next
  <2>1. Tracking!Advance(entity(v))
    BY <1>0, <1>1, WritesOwnEntity, PointerStepAdvances
  <2> QED
    BY <1>0, <1>1, <2>1, WritesOwnEntity DEF Tracking!Next
<1>2. ASSUME NEW v \in Invocations, SendRetry(v) \/ SendDlq(v) PROVE Tracking!Next
  BY <1>0, <1>2, SendNotifies DEF Tracking!Next
<1>3. ASSUME NEW v \in Invocations, Return(v) PROVE Tracking!Next
  BY <1>0, <1>3, ReturnAcknowledges DEF Tracking!Next
<1>4. CASE UNCHANGED <<pointers, queues, handled>>
  BY <1>4, OtherStepStutters
<1>5. ASSUME NEW v \in Invocations,
             \/ HeadState(v) \/ ListState(v) \/ GetRecord(v) \/ PutRecord(v)
             \/ SkipContext(v) \/ KeepPointer(v) \/ WriteOutputIndex(v) \/ Crash(v)
             \/ \E ev \in Events : Deliver(v, ev)
      PROVE  UNCHANGED <<pointers, queues, handled>>
  BY <1>5 DEF HeadState, ListState, GetRecord, PutRecord, SkipContext, KeepPointer,
              WriteOutputIndex, Crash, Deliver, store, delivery, queues
<1> QED
  BY <1>1, <1>2, <1>3, <1>4, <1>5 DEF Next, MonitorNext, Step, vars, store, delivery

\* However its calls interleave, crash and repeat, the monitor behaves as one
\* that advances entities, notifies and acknowledges in single steps.
THEOREM Implements == Spec => ImplementsTracking
BY InvariantHolds, TrackingInit, TrackingStep, PTL
   DEF Spec, ImplementsTracking, Tracking!Spec

-----------------------------------------------------------------------------
(* What an invocation is done with *)

\* The loop moves on: the context at hand joins those that are done.
LEMMA EnteredStep ==
    ASSUME TypeOK, NEW v \in Invocations, NEW f, pc[v] \in {"guard", "delete_old"}, NextContext(v, f)
    PROVE  /\ event'[v] = event[v] /\ pc'[v] \in {"head", "route"}
           /\ Entered(v)' \subseteq Entered(v) \cup {entity(v)}
<1>1. /\ pc \in [Invocations -> PCs] /\ event \in [Invocations -> Events]
      /\ ctx \in [Invocations -> Nat] /\ ctx[v] \in DOMAIN group(v)
  BY DEF TypeOK
<1>2. /\ DOMAIN group(v) = 1..Len(group(v)) /\ Len(group(v)) \in Nat
  BY CurrentContext, EventFacts
<1>3. /\ event'[v] = event[v]
      /\ \/ pc'[v] = "head" /\ ctx'[v] = ctx[v] + 1
         \/ pc'[v] = "route" /\ ctx[v] = Len(group(v))
  BY <1>1, <1>2 DEF NextContext, Enter
<1>4. group(v)' = group(v) /\ Past(v) = {j \in DOMAIN group(v) : j < ctx[v]}
  BY <1>3 DEF group, Past
<1>5. \A j \in Past(v)' : j \in Past(v) \/ j = ctx[v]
  BY <1>1, <1>2, <1>3, <1>4 DEF Past
<1>6. Entered(v)' \subseteq Entered(v) \cup {entity(v)}
  BY <1>4, <1>5 DEF Entered, entity
<1> QED
  BY <1>3, <1>6

\* A call within the loop or after it leaves the contexts that are done alone.
LEMMA EnteredSame ==
    ASSUME UNCHANGED <<event, ctx>>, NEW v,
           \/ pc[v] \in LoopCalls \cup {"delete_old"} /\ pc'[v] \in LoopCalls \cup {"delete_old"}
           \/ pc[v] \in {"route", "send", "return"} /\ pc'[v] \in {"route", "send", "return"}
    PROVE  /\ event'[v] = event[v] /\ entity(v)' = entity(v) /\ attempt(v)' = attempt(v)
           /\ group(v)' = group(v) /\ Entered(v)' = Entered(v)
<1>1. group(v)' = group(v) /\ entity(v)' = entity(v) /\ attempt(v)' = attempt(v)
  BY DEF group, entity, attempt
<1>2. Past(v)' = Past(v)
  BY <1>1 DEF Past, LoopCalls
<1> QED
  BY <1>1, <1>2 DEF Entered

\* A delivered event has no context that is done.
LEMMA EnteredDelivered ==
    ASSUME TypeOK, NEW v \in Invocations, NEW ev \in Events, Deliver(v, ev)
    PROVE  Entered(v)' = {} /\ pc'[v] = "head" /\ event'[v] = ev
<1>1. pc'[v] = "head" /\ ctx'[v] = 1 /\ event'[v] = ev
  BY DEF TypeOK, Deliver, Enter
<1>2. Past(v)' = {}
  BY <1>1, EventFacts DEF Past, group
<1> QED
  BY <1>1, <1>2 DEF Entered

\* What one step does to an invocation: it leaves it alone, ends it, starts it,
\* or takes it one call further.
Idled(v) == pc'[v] = "idle"
Started(v) == Entered(v)' = {} /\ pc'[v] = "head"
Advanced(v) ==
    /\ event'[v] = event[v] /\ pc[v] # "idle"
    /\ \/ /\ Entered(v)' = Entered(v) /\ entity(v)' = entity(v)
          /\ \/ pc'[v] = pc[v] /\ scan'[v] = scan[v]
             \/ pc'[v] \notin {"submitter", "guard"}
             \/ PutRecord(v) \/ DeleteSubmitterPointer(v)
          /\ pc'[v] = "delete_old" => pc[v] \in {"guard", "delete_old"}
          /\ pc'[v] = "submitter" => PutRecord(v) \/ pc[v] = "submitter"
       \/ /\ pc[v] \in {"guard", "delete_old"} /\ pc'[v] \in {"head", "route"}
          /\ Entered(v)' \subseteq Entered(v) \cup {entity(v)}

LEMMA InvocationStep ==
    ASSUME TypeOK, [Next]_vars, NEW v \in Invocations, pc[v] # "idle" \/ pc'[v] # "idle"
    PROVE  Idled(v) \/ Started(v) \/ Advanced(v)
<1>0. /\ pc \in [Invocations -> PCs] /\ event \in [Invocations -> Events]
      /\ ctx \in [Invocations -> Nat] /\ scan \in [Invocations -> Nat]
  BY DEF TypeOK
<1>1. ASSUME pc'[v] = pc[v], event'[v] = event[v], ctx'[v] = ctx[v], scan'[v] = scan[v]
      PROVE  Advanced(v)
  <2>1. group(v)' = group(v) /\ entity(v)' = entity(v) /\ Entered(v)' = Entered(v)
    BY <1>1 DEF group, entity, Entered, Past
  <2> QED
    BY <1>1, <2>1 DEF Advanced
<1>2. ASSUME Step(v) PROVE Idled(v) \/ Advanced(v)
  <2>1. ASSUME HeadState(v) \/ ListState(v) \/ GetRecord(v) PROVE Advanced(v)
    <3>1. /\ pc[v] \in {"head", "list", "get"} /\ pc'[v] \in {"head", "list", "get", "append"}
          /\ UNCHANGED <<event, ctx>>
      BY <1>0, <2>1 DEF HeadState, ListState, GetRecord, NextScan, task
    <3> QED
      BY <3>1, EnteredSame DEF Advanced, LoopCalls
  <2>2. ASSUME PutRecord(v) \/ DeleteSubmitterPointer(v) PROVE Advanced(v)
    <3>1. /\ pc[v] \in {"append", "submitter"} /\ pc'[v] \in {"submitter", "guard"}
          /\ pc'[v] = "submitter" => PutRecord(v) \/ pc[v] = "submitter"
          /\ UNCHANGED <<event, ctx>>
      BY <1>0, <2>2 DEF PutRecord, DeleteSubmitterPointer, NextScan, task
    <3> QED
      BY <2>2, <3>1, EnteredSame DEF Advanced, LoopCalls
  <2>3. ASSUME NEW f, pc[v] \in {"guard", "delete_old"}, NextContext(v, f) PROVE Advanced(v)
    BY <2>3, EnteredStep DEF Advanced
  <2>4. ASSUME PutPointer(v), Goto(v, "delete_old") PROVE Advanced(v)
    <3>1. pc[v] = "guard" /\ pc'[v] = "delete_old" /\ UNCHANGED <<event, ctx>>
      BY <1>0, <2>4 DEF PutPointer, Goto, task
    <3> QED
      BY <3>1, EnteredSame DEF Advanced, LoopCalls
  <2>5. ASSUME SkipContext(v) \/ KeepPointer(v) \/ PutPointer(v) \/ DeleteOldPointer(v)
        PROVE  Advanced(v)
    <3>1. \/ PutPointer(v) /\ Goto(v, "delete_old")
          \/ pc[v] \in {"guard", "delete_old"} /\ \E f : NextContext(v, f)
      BY <2>5, Zenon DEF SkipContext, KeepPointer, PutPointer, DeleteOldPointer
    <3> QED
      BY <2>3, <2>4, <3>1
  <2>6. ASSUME WriteOutputIndex(v) \/ SendRetry(v) \/ SendDlq(v) PROVE Advanced(v)
    <3>1. /\ pc[v] \in {"route", "send"} /\ pc'[v] \in {"send", "return"}
          /\ UNCHANGED <<event, ctx>>
      BY <1>0, <2>6 DEF WriteOutputIndex, SendRetry, SendDlq, Goto, task
    <3> QED
      BY <3>1, EnteredSame DEF Advanced
  <2>7. ASSUME Return(v) PROVE Idled(v)
    BY <1>0, <2>7 DEF Return, End, Enter, Idled
  <2> QED
    BY <1>2, <2>1, <2>2, <2>5, <2>6, <2>7 DEF Step
<1>3. ASSUME NEW w \in Invocations, w # v,
             Step(w) \/ Crash(w) \/ \E ev \in Events : Deliver(w, ev)
      PROVE  /\ pc'[v] = pc[v] /\ event'[v] = event[v]
             /\ ctx'[v] = ctx[v] /\ scan'[v] = scan[v]
  <2>1. CASE HeadState(w) \/ ListState(w) \/ GetRecord(w) \/ PutRecord(w) \/ DeleteSubmitterPointer(w)
    BY <1>0, <1>3, <2>1 DEF HeadState, ListState, GetRecord, PutRecord, DeleteSubmitterPointer,
       NextScan, task, lookup
  <2>2. CASE SkipContext(w) \/ KeepPointer(w) \/ PutPointer(w) \/ DeleteOldPointer(w)
    BY <1>0, <1>3, <2>2 DEF SkipContext, KeepPointer, PutPointer, DeleteOldPointer,
       NextContext, Enter, Goto, task, lookup
  <2>3. CASE WriteOutputIndex(w) \/ SendRetry(w) \/ SendDlq(w)
    BY <1>0, <1>3, <2>3 DEF WriteOutputIndex, SendRetry, SendDlq, Goto, task, lookup
  <2>4. CASE Return(w) \/ Crash(w) \/ \E ev \in Events : Deliver(w, ev)
    BY <1>0, <1>3, <2>4 DEF Return, Crash, Deliver, End, Enter
  <2> QED
    BY <1>3, <2>1, <2>2, <2>3, <2>4 DEF Step
<1>4. ASSUME Crash(v) PROVE Idled(v)
  BY <1>0, <1>4 DEF Crash, End, Enter, Idled
<1>5. ASSUME NEW ev \in Events, Deliver(v, ev) PROVE Started(v)
  BY <1>5, EnteredDelivered DEF Started
<1>6. CASE UNCHANGED vars
  BY <1>1, <1>6 DEF vars, task, lookup
<1> QED
  BY <1>1, <1>2, <1>3, <1>4, <1>5, <1>6 DEF Next, MonitorNext

\* An event is handled when an invocation returns from it, with every context done.
LEMMA HandledByReturn ==
    ASSUME TypeOK, [Next]_vars, NEW ev \in handled', ev \notin handled
    PROVE  \E v \in Invocations :
              /\ pc[v] # "idle" /\ ev = event[v] /\ ev \in Events
              /\ UNCHANGED <<pointers, records>>
              /\ Entered(v) = {ev.group[k] : k \in DOMAIN ev.group}
<1>1. PICK v \in Invocations : Return(v) /\ ev = event[v]
  BY DEF Next, MonitorNext, Step, vars, delivery, Deliver, Crash, HeadState, ListState,
     GetRecord, PutRecord, DeleteSubmitterPointer, SkipContext, KeepPointer, PutPointer,
     DeleteOldPointer, WriteOutputIndex, SendRetry, SendDlq, Return
<1>2. pc[v] \in {"route", "return"} /\ UNCHANGED <<pointers, records>>
  BY <1>1 DEF Return, store
<1>3. Entered(v) = {ev.group[k] : k \in DOMAIN ev.group}
  BY <1>1, <1>2 DEF Entered, Past, group
<1> QED
  BY <1>1, <1>2, <1>3 DEF TypeOK

\* The entities an invocation is done with are its event's.
LEMMA EnteredEntities ==
    ASSUME TypeOK, NEW v \in Invocations
    PROVE  Entered(v) \subseteq Entities /\ Audited(v) \subseteq Entities /\ entity(v) \in Entities
<1>1. event[v] \in Events /\ group(v) = event[v].group /\ entity(v) \in Entities
  BY CurrentContext
<1>2. Entered(v) \subseteq Entities
  BY <1>1, EventFacts DEF Entered, Past
<1> QED
  BY <1>1, <1>2 DEF Audited

-----------------------------------------------------------------------------
(* One invocation at a time: the canonical records *)

\* Invocations run one at a time, as with a reserved concurrency of one.
Sequential == \A v, w \in Invocations : v = w

\* append_canonical_event keeps what was recorded, and adds its event.
LEMMA AppendRecords ==
    ASSUME AuditInv, NEW v \in Invocations, PutRecord(v)
    PROVE  /\ InRecord(entity(v), event[v])'
           /\ \A e \in Entities, ev \in Events : InRecord(e, ev) => InRecord(e, ev)'
           /\ \A x \in DOMAIN records :
                 records[x].log_stream # "none" => records'[x].log_stream # "none"
<1> DEFINE key == canonical_key(v)
           old == records[key]
           entry == [job |-> event[v].job, state |-> event[v].state.name]
<1>0. /\ TypeOK /\ event[v] \in Events /\ key = <<entity(v), event[v].attempt>>
      /\ key \in Entities \X Attempts /\ records \in [Entities \X Attempts -> Record]
      /\ record[v] = old
  BY CurrentContext DEF AuditInv, TypeOK, canonical_key, attempt, PutRecord
<1>1. PICK new : new = Appended(old, event[v])
  OBVIOUS
<1>2. /\ new.events = Append(old.events, entry)
      /\ old.log_stream # "none" => new.log_stream # "none"
  BY <1>1 DEF Appended
<1>3. records' = [records EXCEPT ![key] = new] /\ event' = event /\ ctx' = ctx
  BY <1>0, <1>1 DEF PutRecord, task
<1>4. /\ records'[key] = new
      /\ \A x \in Entities \X Attempts : x # key => records'[x] = records[x]
  BY <1>0, <1>3
<1>5. old.events \in Seq([job : JobIds, state : StateNames])
  BY <1>0 DEF Record
<1>6. /\ DOMAIN new.events = 1..Len(old.events) + 1 /\ Len(old.events) \in Nat
      /\ \A n \in 1..Len(old.events) : new.events[n] = old.events[n]
      /\ new.events[Len(old.events) + 1] = entry
      /\ DOMAIN old.events = 1..Len(old.events)
  <2>1. Len(old.events) \in Nat /\ DOMAIN old.events = 1..Len(old.events)
    BY <1>5
  <2> HIDE DEF entry
  <2>2. /\ DOMAIN Append(old.events, entry) = 1..Len(old.events) + 1
        /\ \A n \in 1..Len(old.events) : Append(old.events, entry)[n] = old.events[n]
        /\ Append(old.events, entry)[Len(old.events) + 1] = entry
    BY <1>5, <2>1
  <2> QED
    BY <1>2, <2>1, <2>2
<1> HIDE DEF key, old, entry
<1>7. InRecord(entity(v), event[v])'
  <2>1. entity(v)' = entity(v) /\ event'[v] = event[v]
    BY <1>3 DEF entity, group
  <2>2. records'[<<entity(v), event[v].attempt>>] = new
    BY <1>0, <1>4
  <2>3. Len(old.events) + 1 \in DOMAIN new.events /\ new.events[Len(old.events) + 1] = entry
    BY <1>6
  <2> QED
    BY <2>1, <2>2, <2>3 DEF InRecord, entry
<1>8. ASSUME NEW e \in Entities, NEW ev \in Events, InRecord(e, ev) PROVE InRecord(e, ev)'
  <2>1. <<e, ev.attempt>> \in Entities \X Attempts
    BY EventFacts
  <2>2. CASE <<e, ev.attempt>> = key
    <3>1. records[<<e, ev.attempt>>] = old /\ records'[<<e, ev.attempt>>] = new
      BY <1>4, <2>2 DEF old
    <3>2. PICK n \in DOMAIN old.events : old.events[n] = [job |-> ev.job, state |-> ev.state.name]
      BY <1>8, <3>1 DEF InRecord
    <3>3. n \in DOMAIN new.events /\ new.events[n] = [job |-> ev.job, state |-> ev.state.name]
      BY <1>6, <3>2
    <3> QED
      BY <3>1, <3>3 DEF InRecord
  <2>3. CASE <<e, ev.attempt>> # key
    BY <1>4, <1>8, <2>1, <2>3 DEF InRecord
  <2> QED
    BY <2>2, <2>3
<1>9. \A x \in DOMAIN records :
         records[x].log_stream # "none" => records'[x].log_stream # "none"
  BY <1>0, <1>2, <1>4 DEF old
<1> QED
  BY <1>7, <1>8, <1>9

\* No other call touches a record.
LEMMA RecordsKept ==
    ASSUME AuditInv, [Next]_vars
    PROVE  /\ \A e \in Entities, ev \in Events : InRecord(e, ev) => InRecord(e, ev)'
           /\ \A x \in DOMAIN records :
                 records[x].log_stream # "none" => records'[x].log_stream # "none"
<1>1. CASE records' = records
  BY <1>1 DEF InRecord
<1>2. records' = records \/ \E v \in Invocations : PutRecord(v)
  BY DEF Next, MonitorNext, Step, vars, store, Deliver, Crash, HeadState, ListState,
     GetRecord, DeleteSubmitterPointer, SkipContext, KeepPointer, PutPointer,
     DeleteOldPointer, WriteOutputIndex, SendRetry, SendDlq, Return
<1> QED
  BY <1>1, <1>2, AppendRecords

\* What an invocation has read of a record is still there when it puts it.
LEMMA ReadIsCurrent ==
    ASSUME Sequential, AuditInv, [Next]_vars, NEW v \in Invocations, pc'[v] = "append"
    PROVE  record'[v] = records'[canonical_key(v)']
<1>0. /\ pc \in [Invocations -> PCs] /\ record \in [Invocations -> Record]
      /\ pc[v] = "append" => record[v] = records[canonical_key(v)]
  BY DEF AuditInv, TypeOK
<1>1. CASE UNCHANGED vars
  BY <1>0, <1>1 DEF vars, store, task, canonical_key, entity, attempt, group
<1>2. ASSUME NEW w \in Invocations,
             Step(w) \/ Crash(w) \/ \E ev \in Events : Deliver(w, ev)
      PROVE  GetRecord(v)
  <2>1. w = v
    BY DEF Sequential
  <2>2. CASE HeadState(w) \/ ListState(w) \/ PutRecord(w) \/ DeleteSubmitterPointer(w)
    BY <1>0, <2>1, <2>2 DEF HeadState, ListState, PutRecord, DeleteSubmitterPointer, NextScan
  <2>3. CASE SkipContext(w) \/ KeepPointer(w) \/ PutPointer(w) \/ DeleteOldPointer(w)
    BY <1>0, <2>1, <2>3 DEF SkipContext, KeepPointer, PutPointer, DeleteOldPointer,
       NextContext, Enter, Goto
  <2>4. CASE WriteOutputIndex(w) \/ SendRetry(w) \/ SendDlq(w)
    BY <1>0, <2>1, <2>4 DEF WriteOutputIndex, SendRetry, SendDlq, Goto
  <2>5. CASE Return(w) \/ Crash(w) \/ \E ev \in Events : Deliver(w, ev)
    BY <1>0, <2>1, <2>5 DEF Return, Crash, Deliver, End, Enter
  <2> QED
    BY <1>2, <2>1, <2>2, <2>3, <2>4, <2>5 DEF Step
<1>3. CASE GetRecord(v)
  <2>1. canonical_key(v)' = canonical_key(v) /\ records' = records
    BY <1>3 DEF GetRecord, task, store, canonical_key, entity, attempt, group
  <2> QED
    BY <1>0, <1>3, <2>1 DEF GetRecord
<1> QED
  BY <1>1, <1>2, <1>3 DEF Next, MonitorNext

LEMMA AuditStep ==
    ASSUME Sequential, AuditInv, [Next]_vars
    PROVE  AuditInv'
<1>0. /\ TypeOK /\ TypeOK'
      /\ \A e \in Entities, ev \in Events : InRecord(e, ev) => InRecord(e, ev)'
  BY TypeStep, RecordsKept DEF AuditInv
<1>1. ASSUME NEW v \in Invocations, pc'[v] # "idle", NEW e \in Audited(v)'
      PROVE  InRecord(e, event[v])'
  <2>1. Started(v) \/ Advanced(v)
    BY <1>0, <1>1, InvocationStep DEF Idled
  <2>2. CASE Started(v)
    BY <1>1, <2>2 DEF Started, Audited
  <2>3. CASE Advanced(v) /\ e \in Audited(v)
    <3>1. event[v] \in Events /\ e \in Entities /\ InRecord(e, event[v])
      BY <1>0, <2>3, EnteredEntities, CurrentContext DEF AuditInv, Advanced
    <3>2. event'[v] = event[v]
      BY <2>3 DEF Advanced
    <3>3. InRecord(e, event[v]) => InRecord(e, event[v])'
      BY <1>0, <3>1, <3>2 DEF InRecord
    <3> QED
      BY <3>1, <3>3
  <2>4. ASSUME Advanced(v), e \notin Audited(v) PROVE PutRecord(v) /\ e = entity(v)
    BY <1>1, <2>4 DEF Advanced, Audited, DeleteSubmitterPointer
  <2>5. CASE PutRecord(v) /\ e = entity(v)
    <3>1. e = entity(v)'
      BY <2>5 DEF PutRecord, task, entity, group
    <3> QED
      BY <2>5, <3>1, AppendRecords DEF InRecord
  <2> QED
    BY <2>1, <2>2, <2>3, <2>4, <2>5
<1>2. ASSUME NEW ev \in handled', NEW k \in DOMAIN ev.group PROVE InRecord(ev.group[k], ev)'
  <2>1. CASE ev \in handled
    <3>1. ev \in Events /\ ev.group[k] \in Entities /\ InRecord(ev.group[k], ev)
      BY <2>1, EventFacts DEF AuditInv, HandledEventIsRecorded, TypeOK
    <3> QED
      BY <1>0, <3>1
  <2>2. CASE ev \notin handled
    <3>1. PICK v \in Invocations :
             /\ pc[v] # "idle" /\ ev = event[v] /\ ev \in Events
             /\ Entered(v) = {ev.group[j] : j \in DOMAIN ev.group}
      BY <1>0, <2>2, HandledByReturn
    <3>2. InRecord(ev.group[k], ev)
      BY <3>1 DEF AuditInv, Audited
    <3> QED
      BY <1>0, <3>1, <3>2, EventFacts
  <2> QED
    BY <2>1, <2>2
<1>3. \A v \in Invocations : pc'[v] = "append" => record'[v] = records'[canonical_key(v)']
  BY ReadIsCurrent
<1> QED
  BY <1>0, <1>1, <1>2, <1>3 DEF AuditInv, HandledEventIsRecorded

LEMMA AuditInit == Init => AuditInv
<1> SUFFICES ASSUME Init PROVE AuditInv
  OBVIOUS
<1>1. TypeOK
  BY TypeInit
<1> QED
  BY <1>1 DEF Init, AuditInv, HandledEventIsRecorded

LEMMA AuditInvariantHolds ==
    ASSUME Sequential
    PROVE  Spec => []AuditInv
<1>1. AuditInv /\ [Next]_vars => AuditInv'
  BY AuditStep
<1> QED
  BY <1>1, AuditInit, PTL DEF Spec

\* With one invocation at a time, whatever fails half way, no event is lost from
\* the canonical record of its entities: append_canonical_event's read and write
\* are apart, so two invocations can lose one.
THEOREM Recorded ==
    ASSUME Sequential
    PROVE  Spec => []HandledEventIsRecorded
<1>1. AuditInv => HandledEventIsRecorded
  BY DEF AuditInv
<1> QED
  BY <1>1, AuditInvariantHolds, PTL

\* Nor does an event without a log stream erase the one that was recorded.
THEOREM LogStreamKept ==
    ASSUME Sequential
    PROVE  Spec => LogStreamNeverErased
<1>1. AuditInv /\ [Next]_vars
         => [\A x \in DOMAIN records :
                records[x].log_stream # "none" => records'[x].log_stream # "none"]_vars
  BY RecordsKept
<1> QED
  BY <1>1, AuditInvariantHolds, PTL DEF Spec, LogStreamNeverErased

-----------------------------------------------------------------------------
(* Where no DELETE fails: the submitter pointers *)

\* The monitor writes no pointer in a submitter state.
LEMMA NoNewSubmitterPointer ==
    ASSUME TypeOK, [Next]_vars, NEW name \in SubmitterNames, NEW e, NEW a,
           PointerKey(name, e, a) \notin pointers
    PROVE  PointerKey(name, e, a) \notin pointers'
<1>1. CASE pointers' \subseteq pointers
  BY <1>1
<1>2. ASSUME NEW v \in Invocations, PutPointer(v) PROVE PointerKey(name, e, a) \notin pointers'
  <2>1. new_state(v).name # name
    BY CurrentContext, SubmitterAssumption
  <2>2. PointerKey(new_state(v).name, entity(v), attempt(v)) # PointerKey(name, e, a)
    BY <2>1 DEF PointerKey
  <2> QED
    BY <1>2, <2>2 DEF PutPointer
<1>3. pointers' \subseteq pointers \/ \E v \in Invocations : PutPointer(v)
  BY DEF Next, MonitorNext, Step, vars, store, Deliver, Crash, HeadState, ListState,
     GetRecord, PutRecord, DeleteSubmitterPointer, SkipContext, KeepPointer,
     DeleteOldPointer, WriteOutputIndex, SendRetry, SendDlq, Return
<1> QED
  BY <1>1, <1>2, <1>3

\* The names that a step adds to those an invocation is done with have no pointer.
LEMMA ClearedStep ==
    ASSUME ~DeleteFaults, TypeOK, [Next]_vars, NEW v \in Invocations, Advanced(v), pc'[v] # "idle",
           NEW e \in Entities, NEW name \in ClearedNames(v, e)', name \notin ClearedNames(v, e)
    PROVE  PointerKey(name, e, attempt(v)) \notin pointers'
<1>0. /\ scan[v] \in Nat
      /\ pc[v] = "submitter" => scan[v] \in DOMAIN SubmitterStates
      /\ DOMAIN SubmitterStates = 1..Len(SubmitterStates) /\ Len(SubmitterStates) \in Nat
      /\ pc \in [Invocations -> PCs] /\ scan \in [Invocations -> Nat]
      /\ pc[v] = "append" => scan[v] = 1
  <2>1. DOMAIN SubmitterStates = 1..Len(SubmitterStates) /\ Len(SubmitterStates) \in Nat
    BY SubmitterAssumption
  <2>2. /\ pc \in [Invocations -> PCs] /\ scan \in [Invocations -> Nat]
        /\ pc[v] = "submitter" => scan[v] \in DOMAIN SubmitterStates
        /\ pc[v] \in PCs \ {"head", "list", "submitter"} => scan[v] = 1
    BY DEF TypeOK
  <2>3. "append" \in PCs \ {"head", "list", "submitter"}
    BY DEF PCs
  <2> QED
    BY <2>1, <2>2, <2>3
<1>1. CASE DeleteSubmitterPointer(v)
  <2>1. /\ pc[v] = "submitter" /\ Entered(v)' = Entered(v) /\ entity(v)' = entity(v)
        /\ pointers' = pointers \ {PointerKey(SubmitterStates[scan[v]], entity(v), attempt(v))}
    BY <1>1 DEF DeleteSubmitterPointer, Advanced
  <2>2. \/ pc'[v] = "submitter" /\ scan'[v] = scan[v] + 1
        \/ pc'[v] = "guard" /\ scan[v] = Len(SubmitterStates)
    BY <1>0, <1>1 DEF DeleteSubmitterPointer, NextScan
  <2>3. e = entity(v) /\ e \notin Entered(v)
    BY <2>1, <2>2 DEF ClearedNames, Cleared
  <2>4. ASSUME NEW i \in DOMAIN SubmitterStates, name = SubmitterStates[i], i # scan[v]
        PROVE  i >= scan[v]
    BY <1>0, <2>1, <2>3, <2>4 DEF ClearedNames, Cleared
  <2>5. CASE pc'[v] = "submitter"
    <3>1. PICK i \in DOMAIN SubmitterStates : name = SubmitterStates[i] /\ i < scan[v] + 1
      BY <2>1, <2>2, <2>3, <2>5 DEF ClearedNames, Cleared
    <3>2. i = scan[v]
      BY <1>0, <2>4, <3>1
    <3> QED
      BY <2>1, <2>3, <3>1, <3>2
  <2>6. CASE pc'[v] = "guard"
    <3>1. PICK i \in DOMAIN SubmitterStates : name = SubmitterStates[i]
      BY <2>1, <2>3, <2>6 DEF ClearedNames, Cleared, SubmitterNames
    <3>2. i = scan[v]
      BY <1>0, <2>2, <2>4, <2>6, <3>1
    <3> QED
      BY <2>1, <2>3, <3>1, <3>2
  <2> QED
    BY <2>2, <2>5, <2>6
<1>2. CASE PutRecord(v)
  <2>1. /\ Entered(v)' = Entered(v) /\ pc[v] = "append" /\ scan'[v] = scan[v]
        /\ pc'[v] = IF SubmitterStates = <<>> THEN "guard" ELSE "submitter"
    BY <1>0, <1>2 DEF PutRecord, Advanced, lookup
  <2>2. SubmitterStates = <<>> => SubmitterNames = {}
    BY DEF SubmitterNames
  <2> QED
    BY <1>0, <2>1, <2>2 DEF ClearedNames, Cleared
<1>3. CASE ~DeleteSubmitterPointer(v) /\ ~PutRecord(v)
  BY <1>3 DEF Advanced, ClearedNames, Cleared
<1> QED
  BY <1>1, <1>2, <1>3

LEMMA SubmitterStep ==
    ASSUME ~DeleteFaults, SubmitterInv, [Next]_vars
    PROVE  SubmitterInv'
<1>0. TypeOK /\ TypeOK'
  BY TypeStep DEF SubmitterInv
<1>1. ASSUME NEW v \in Invocations, pc'[v] # "idle", NEW e \in Entities,
             NEW name \in ClearedNames(v, e)'
      PROVE  PointerKey(name, e, attempt(v)') \notin pointers'
  <2>1. Started(v) \/ Advanced(v)
    BY <1>0, <1>1, InvocationStep DEF Idled
  <2>2. CASE Started(v)
    BY <1>1, <2>2 DEF Started, ClearedNames, Cleared
  <2>3. CASE Advanced(v)
    <3>1. attempt(v)' = attempt(v) /\ pc[v] # "idle"
      BY <2>3 DEF Advanced, attempt
    <3>2. CASE name \in ClearedNames(v, e)
      <4>1. PointerKey(name, e, attempt(v)) \notin pointers
        BY <3>1, <3>2 DEF SubmitterInv
      <4>2. name \in SubmitterNames
        BY <3>2 DEF ClearedNames, SubmitterNames
      <4> QED
        BY <1>0, <3>1, <4>1, <4>2, NoNewSubmitterPointer
    <3>3. CASE name \notin ClearedNames(v, e)
      BY <1>0, <1>1, <2>3, <3>1, <3>3, ClearedStep
    <3> QED
      BY <3>2, <3>3
  <2> QED
    BY <2>1, <2>2, <2>3
<1>2. ASSUME NEW ev \in handled', NEW k \in DOMAIN ev.group, NEW name \in SubmitterNames
      PROVE  PointerKey(name, ev.group[k], ev.attempt) \notin pointers'
  <2>1. PointerKey(name, ev.group[k], ev.attempt) \notin pointers
    <3>1. CASE ev \in handled
      BY <3>1 DEF SubmitterInv, SubmitterPointersCleared
    <3>2. CASE ev \notin handled
      <4>1. PICK v \in Invocations :
               /\ pc[v] # "idle" /\ ev = event[v] /\ ev \in Events
               /\ Entered(v) = {ev.group[j] : j \in DOMAIN ev.group}
        BY <1>0, <3>2, HandledByReturn
      <4>2. ev.group[k] \in Entities /\ name \in ClearedNames(v, ev.group[k]) /\ attempt(v) = ev.attempt
        BY <4>1, EventFacts DEF ClearedNames, Cleared, attempt
      <4> QED
        BY <4>1, <4>2 DEF SubmitterInv
    <3> QED
      BY <3>1, <3>2
  <2> QED
    BY <1>0, <2>1, NoNewSubmitterPointer
<1> QED
  BY <1>0, <1>1, <1>2 DEF SubmitterInv, SubmitterPointersCleared

LEMMA SubmitterInit == Init => SubmitterInv
<1> SUFFICES ASSUME Init PROVE SubmitterInv
  OBVIOUS
<1>1. TypeOK
  BY TypeInit
<1> QED
  BY <1>1 DEF Init, SubmitterInv, SubmitterPointersCleared

\* However invocations interleave, crash and repeat, no submitter pointer outlives
\* the first event of its attempt that is handled, where no DELETE is swallowed.
THEOREM SubmittersCleared ==
    ASSUME ~DeleteFaults
    PROVE  Spec => []SubmitterPointersCleared
<1>1. SubmitterInv /\ [Next]_vars => SubmitterInv'
  BY SubmitterStep
<1>2. SubmitterInv => SubmitterPointersCleared
  BY DEF SubmitterInv
<1> QED
  BY <1>1, <1>2, SubmitterInit, PTL DEF Spec

-----------------------------------------------------------------------------
(* One invocation at a time, to the end, without faults: one pointer *)

\* What PointerInv says of the invocation that runs.
PointerLocal(v) ==
    /\ LookupIsExact(v) /\ NewAndOld(v)
    /\ \A e \in Entities : ~(pc[v] = "delete_old" /\ entity(v) = e) => OnePointer(e)

LEMMA PointerInvLocal ==
    ASSUME Sequential, NEW v \in Invocations
    PROVE  PointerInv <=> TypeOK /\ PointerLocal(v)
BY DEF Sequential, PointerInv, PointerLocal

\* A pointer is its key, and a hit its state and attempt.
LEMMA PointerForm ==
    ASSUME TypeOK, NEW p \in pointers
    PROVE  p = PointerKey(p.name, p.entity, p.attempt) /\ p.attempt \in Attempts
BY DEF TypeOK, Pointer, PointerKey

LEMMA KeyFields ==
    \A n, e, a : /\ PointerKey(n, e, a).name = n /\ PointerKey(n, e, a).entity = e
                 /\ PointerKey(n, e, a).attempt = a
BY DEF PointerKey

\* A pointer of the monitor's is a hit of its entity's lookup.
LEMMA PointerIsHit ==
    ASSUME TypeOK, NEW v, NEW p \in pointers, p.entity = entity(v), p.name \in StateNames
    PROVE  \E h \in PointerHits(v) : p = PointerKey(h.state.name, entity(v), h.attempt)
<1>1. PICK s \in StateSet : s.name = p.name
  BY DEF StateNames
<1>2. PICK h : h = [state |-> s, attempt |-> p.attempt]
  OBVIOUS
<1>3. p = PointerKey(p.name, p.entity, p.attempt) /\ p.attempt \in Attempts
  BY PointerForm
<1>4. h \in Hit /\ h.state = s /\ h.attempt = p.attempt
  BY <1>2, <1>3 DEF Hit
<1> QED
  BY <1>1, <1>3, <1>4 DEF PointerHits

\* One pointer, one hit.
LEMMA OneHit ==
    ASSUME NEW v, OnePointer(entity(v)), NEW g \in PointerHits(v), NEW h \in PointerHits(v)
    PROVE  g = h
<1>1. /\ g \in Hit /\ h \in Hit
      /\ PointerKey(g.state.name, entity(v), g.attempt) \in pointers
      /\ PointerKey(h.state.name, entity(v), h.attempt) \in pointers
  BY DEF PointerHits
<1>2. g.state.name \in StateNames /\ h.state.name \in StateNames
  BY <1>1 DEF Hit, StateNames
<1>3. PointerKey(g.state.name, entity(v), g.attempt) = PointerKey(h.state.name, entity(v), h.attempt)
  BY <1>1, <1>2, KeyFields DEF OnePointer
<1>4. g.state.name = h.state.name /\ g.attempt = h.attempt
  BY <1>3, KeyFields
<1>5. g.state = h.state
  BY <1>1, <1>4, ConsistentNamesAssumption DEF Hit
<1> QED
  BY <1>1, <1>4, <1>5 DEF Hit

\* An entity that gains no pointer of the monitor's has one at most, still.
LEMMA OnePointerStays ==
    ASSUME NEW e, OnePointer(e),
           \A p \in pointers' : p.entity = e /\ p.name \in StateNames => p \in pointers
    PROVE  OnePointer(e)'
BY DEF OnePointer

\* A context begins, or the loop is left, with nothing looked up.
LEMMA NothingLookedUp ==
    ASSUME NEW v, pc'[v] \in {"head", "route", "send", "return", "idle"},
           pc'[v] = "head" => hits'[v] = {} /\ scan'[v] = 1
    PROVE  LookupIsExact(v)' /\ NewAndOld(v)'
<1>1. scan'[v] = 1 => ScannedStates(v)' = {}
  <2>1. DOMAIN States = 1..Len(States) /\ Len(States) \in Nat
    BY StatesAssumption
  <2> QED
    BY <2>1 DEF ScannedStates
<1> QED
  BY <1>1 DEF LookupIsExact, NewAndOld

LEMMA NextContextLookup ==
    ASSUME TypeOK, NEW v \in Invocations, NEW f, NextContext(v, f)
    PROVE  pc'[v] \in {"head", "route"} /\ LookupIsExact(v)' /\ NewAndOld(v)'
<1>1. pc'[v] \in {"head", "route"} /\ hits'[v] = {} /\ scan'[v] = 1
  BY DEF TypeOK, NextContext, Enter
<1> QED
  BY <1>1, NothingLookedUp

\* The states that are scanned once the scan has gone one further, or to its end.
LEMMA ScanAdvances ==
    ASSUME TypeOK, NEW v \in Invocations, pc[v] \in {"head", "list"},
           NEW call, NextScan(v, Len(States), call)
    PROVE  /\ States[scan[v]] \in StateSet
           /\ \/ /\ scan[v] < Len(States) /\ pc'[v] = pc[v]
                 /\ ScannedStates(v)' = ScannedStates(v) \cup {States[scan[v]]}
              \/ /\ pc'[v] = call /\ scan'[v] = 1
                 /\ StateSet = ScannedStates(v) \cup {States[scan[v]]}
<1>1. /\ pc \in [Invocations -> PCs] /\ scan \in [Invocations -> Nat]
      /\ scan[v] \in DOMAIN States
  BY DEF TypeOK
<1>2. DOMAIN States = 1..Len(States) /\ Len(States) \in Nat
  BY StatesAssumption
<1>3. CASE scan[v] < Len(States)
  <2>1. scan'[v] = scan[v] + 1 /\ pc' = pc
    BY <1>1, <1>3 DEF NextScan
  <2>2. {j \in DOMAIN States : j < scan[v] + 1} = {j \in DOMAIN States : j < scan[v]} \cup {scan[v]}
    BY <1>1, <1>2
  <2>3. ScannedStates(v)' = {States[i] : i \in {j \in DOMAIN States : j < scan[v]} \cup {scan[v]}}
    BY <2>1, <2>2 DEF ScannedStates
  <2>4. ScannedStates(v)' = ScannedStates(v) \cup {States[scan[v]]}
    BY <2>3 DEF ScannedStates
  <2> QED
    BY <1>1, <1>3, <2>1, <2>4 DEF StateSet
<1>4. CASE ~(scan[v] < Len(States))
  <2>1. pc'[v] = call /\ scan'[v] = 1
    BY <1>1, <1>4 DEF NextScan
  <2>2. DOMAIN States = {j \in DOMAIN States : j < scan[v]} \cup {scan[v]}
    BY <1>1, <1>2, <1>4
  <2>3. StateSet = {States[i] : i \in {j \in DOMAIN States : j < scan[v]} \cup {scan[v]}}
    BY <2>2 DEF StateSet
  <2>4. StateSet = ScannedStates(v) \cup {States[scan[v]]}
    BY <2>3 DEF ScannedStates
  <2> QED
    BY <1>1, <2>1, <2>4 DEF StateSet
<1> QED
  BY <1>3, <1>4

\* While it looks its entity up, an invocation changes nothing it looks at.
LEMMA LookupFrame ==
    ASSUME NEW v, UNCHANGED <<pointers, task>>
    PROVE  /\ PointerHits(v)' = PointerHits(v) /\ entity(v)' = entity(v)
           /\ attempt(v)' = attempt(v)
           /\ \A e : OnePointer(e)' <=> OnePointer(e)
<1>1. entity(v)' = entity(v) /\ attempt(v)' = attempt(v)
  BY DEF task, entity, attempt, group
<1> QED
  BY <1>1 DEF PointerHits, Hit, Attempts, OnePointer

LEMMA HeadStateExact ==
    ASSUME TypeOK, NEW v \in Invocations, PointerLocal(v), HeadState(v)
    PROVE  PointerLocal(v)'
<1> DEFINE s == States[scan[v]]
           known == PointerKey(s.name, entity(v), attempt(v)) \in pointers
           seen == IF known THEN hits[v] \cup {[state |-> s, attempt |-> attempt(v)]} ELSE hits[v]
           own == {h \in PointerHits(v) : h.attempt = attempt(v)}
<1>0. /\ pc[v] = "head" /\ UNCHANGED <<pointers, task>> /\ hits'[v] = seen
      /\ NextScan(v, Len(States), IF seen = {} THEN "list" ELSE "get")
      /\ attempt(v) \in Attempts /\ entity(v) \in Entities /\ OnePointer(entity(v))
  BY CurrentContext DEF TypeOK, HeadState, store, PointerLocal
<1>1. hits[v] = {h \in own : h.state \in ScannedStates(v)}
  BY <1>0 DEF PointerLocal, LookupIsExact
<1>2. s \in StateSet
  BY <1>0, ScanAdvances
<1>3. seen = {h \in own : h.state \in ScannedStates(v) \cup {s}}
  <2>1. PICK n : n = [state |-> s, attempt |-> attempt(v)]
    OBVIOUS
  <2>2. n \in Hit /\ n.state = s /\ n.attempt = attempt(v)
    BY <1>0, <1>2, <2>1 DEF Hit
  <2>3. \A h \in Hit : h.state = s /\ h.attempt = attempt(v) => h = n
    BY <2>1 DEF Hit
  <2>4. n \in own <=> known
    BY <2>2 DEF PointerHits
  <2>5. \A h \in own : h \in Hit /\ h.attempt = attempt(v)
    BY DEF PointerHits
  <2>6. seen = IF known THEN hits[v] \cup {n} ELSE hits[v]
    BY <2>1
  <2> HIDE DEF known, seen, own
  <2> QED
    BY <1>1, <2>2, <2>3, <2>4, <2>5, <2>6
<1>4. \A h \in own : h \in PointerHits(v) /\ h.state \in StateSet
  BY DEF PointerHits, Hit
<1> HIDE DEF seen, own, known
<1>5. CASE scan[v] < Len(States) /\ pc'[v] = "head" /\ ScannedStates(v)' = ScannedStates(v) \cup {s}
  BY <1>0, <1>3, <1>5, LookupFrame DEF PointerLocal, LookupIsExact, NewAndOld, own
<1>6. CASE pc'[v] = (IF seen = {} THEN "list" ELSE "get") /\ scan'[v] = 1
           /\ StateSet = ScannedStates(v) \cup {s}
  <2>1. seen = own
    BY <1>3, <1>4, <1>6
  <2>2. CASE seen = {}
    <3>1. pc'[v] = "list" /\ hits'[v] = {}
      BY <1>0, <1>6, <2>2
    <3>2. ScannedStates(v)' = {}
      <4>1. DOMAIN States = 1..Len(States) /\ Len(States) \in Nat
        BY StatesAssumption
      <4> QED
        BY <1>6, <4>1 DEF ScannedStates
    <3> QED
      BY <1>0, <3>1, <3>2, LookupFrame DEF PointerLocal, LookupIsExact, NewAndOld
  <2>3. CASE seen # {}
    <3>1. PICK h \in own : TRUE
      BY <2>1, <2>3
    <3>2. seen = PointerHits(v)
      <4>1. \A g \in PointerHits(v) : g = h
        BY <1>0, <1>4, <3>1, OneHit
      <4> QED
        BY <1>4, <2>1, <3>1, <4>1
    <3> QED
      BY <1>0, <1>6, <2>3, <3>2, LookupFrame DEF PointerLocal, LookupIsExact, NewAndOld
  <2> QED
    BY <2>2, <2>3
<1> QED
  BY <1>0, <1>5, <1>6, ScanAdvances

LEMMA ListStateExact ==
    ASSUME ~ReadFaults, TypeOK, NEW v \in Invocations, PointerLocal(v), ListState(v)
    PROVE  PointerLocal(v)'
<1> DEFINE s == States[scan[v]]
           listed == {p \in pointers : p.name = s.name /\ p.entity = entity(v)}
           new == {[state |-> s, attempt |-> p.attempt] : p \in listed}
<1>0. /\ pc[v] = "list" /\ UNCHANGED <<pointers, task>>
      /\ NextScan(v, Len(States), "get")
      /\ hits \in [Invocations -> SUBSET Hit]
  BY DEF TypeOK, ListState, store
<1>1. hits'[v] = hits[v] \cup new
  BY <1>0 DEF ListState
<1>2. hits[v] = {h \in PointerHits(v) : h.state \in ScannedStates(v)} /\ s \in StateSet
  BY <1>0, ScanAdvances DEF PointerLocal, LookupIsExact
<1>3. new = {h \in PointerHits(v) : h.state = s}
  <2>1. ASSUME NEW p \in listed, NEW h, h = [state |-> s, attempt |-> p.attempt]
        PROVE  h \in PointerHits(v) /\ h.state = s
    <3>1. p = PointerKey(s.name, entity(v), p.attempt) /\ p.attempt \in Attempts
      BY PointerForm
    <3>2. h \in Hit /\ h.state = s /\ h.attempt = p.attempt
      BY <1>2, <2>1, <3>1 DEF Hit
    <3> QED
      BY <3>1, <3>2 DEF PointerHits
  <2>2. ASSUME NEW h \in PointerHits(v), h.state = s
        PROVE  h \in new
    <3>1. PICK p : p = PointerKey(s.name, entity(v), h.attempt)
      OBVIOUS
    <3>2. p \in listed /\ p.attempt = h.attempt
      BY <2>2, <3>1, KeyFields DEF PointerHits
    <3>3. h = [state |-> s, attempt |-> p.attempt]
      BY <2>2, <3>2 DEF PointerHits, Hit
    <3> QED
      BY <3>2, <3>3
  <2> QED
    BY <2>1, <2>2
<1>4. hits'[v] = {h \in PointerHits(v) : h.state \in ScannedStates(v) \cup {s}}
  BY <1>1, <1>2, <1>3
<1>5. CASE scan[v] < Len(States) /\ pc'[v] = "list" /\ ScannedStates(v)' = ScannedStates(v) \cup {s}
  BY <1>0, <1>4, <1>5, LookupFrame DEF PointerLocal, LookupIsExact, NewAndOld
<1>6. CASE pc'[v] = "get" /\ StateSet = ScannedStates(v) \cup {s}
  <2>1. \A h \in PointerHits(v) : h.state \in StateSet
    BY DEF PointerHits, Hit
  <2>2. hits'[v] = PointerHits(v)
    BY <1>4, <1>6, <2>1
  <2> QED
    BY <1>0, <1>6, <2>2, LookupFrame DEF PointerLocal, LookupIsExact, NewAndOld
<1> QED
  BY <1>0, <1>5, <1>6, ScanAdvances

\* A lookup that is over has the entity's one pointer, and neither the record nor
\* the submitter pointers matter to it.
LEMMA AfterLookupExact ==
    ASSUME ~DeleteFaults, TypeOK, NEW v \in Invocations, PointerLocal(v),
           GetRecord(v) \/ PutRecord(v) \/ DeleteSubmitterPointer(v)
    PROVE  PointerLocal(v)'
<1>0. /\ pc[v] \in {"get", "append", "submitter"} /\ pc'[v] \in {"append", "submitter", "guard"}
      /\ UNCHANGED <<task, hits>>
      /\ pc \in [Invocations -> PCs]
  BY DEF TypeOK, GetRecord, PutRecord, DeleteSubmitterPointer, NextScan, lookup
<1>1. entity(v)' = entity(v)
  BY <1>0 DEF task, entity, group
<1>2. \A p : p.name \in StateNames => (p \in pointers' <=> p \in pointers)
  <2>1. CASE GetRecord(v) \/ PutRecord(v)
    BY <2>1 DEF GetRecord, PutRecord, store
  <2>2. CASE DeleteSubmitterPointer(v)
    <3>1. pointers' = pointers \ {PointerKey(SubmitterStates[scan[v]], entity(v), attempt(v))}
      BY <2>2 DEF DeleteSubmitterPointer
    <3>2. SubmitterStates[scan[v]] \in SubmitterNames
      BY <2>2 DEF TypeOK, DeleteSubmitterPointer, SubmitterNames
    <3>3. SubmitterStates[scan[v]] \notin StateNames
      BY <3>2, SubmitterAssumption
    <3> QED
      BY <3>1, <3>3, KeyFields
  <2> QED
    BY <2>1, <2>2
<1>3. PointerHits(v)' = PointerHits(v)
  <2>1. \A h \in Hit : h.state.name \in StateNames
    BY DEF Hit, StateNames
  <2>2. \A h \in Hit : PointerKey(h.state.name, entity(v), h.attempt) \in pointers'
                          <=> PointerKey(h.state.name, entity(v), h.attempt) \in pointers
    BY <1>2, <2>1, KeyFields
  <2> QED
    BY <1>1, <2>2 DEF PointerHits, Hit, Attempts
<1>4. \A e : OnePointer(e) => OnePointer(e)'
  BY <1>2, OnePointerStays
<1> QED
  BY <1>0, <1>3, <1>4 DEF PointerLocal, LookupIsExact, NewAndOld

\* The guard compares the event with the entity's one pointer, if it has one.
LEMMA OldIsThePointer ==
    ASSUME TypeOK, NEW v \in Invocations, PointerLocal(v), pc[v] = "guard", ~OutOfOrder(v)
    PROVE  Old(v) = PointerHits(v)
<1>1. hits[v] = PointerHits(v) /\ OnePointer(entity(v)) /\ attempt(v) \in Nat
  BY CurrentContext DEF PointerLocal, LookupIsExact
<1>2. \A g, h \in hits[v] : g = h
  BY <1>1, OneHit
<1>3. Best(v) = hits[v]
  BY <1>2 DEF Best
<1>4. \A h \in Best(v) : ~(h.attempt > attempt(v))
  BY DEF OutOfOrder, Stale
<1>5. \A h \in hits[v] : h.attempt \in Nat
  BY HitFacts
<1> QED
  BY <1>1, <1>3, <1>4, <1>5 DEF Old

LEMMA PutPointerExact ==
    ASSUME TypeOK, NEW v \in Invocations, PointerLocal(v), PutPointer(v)
    PROVE  PointerLocal(v)'
<1> DEFINE new == PointerKey(new_state(v).name, entity(v), attempt(v))
<1>0. /\ pc[v] = "guard" /\ ~OutOfOrder(v) /\ pointers' = pointers \cup {new}
      /\ entity(v) \in Entities /\ new.entity = entity(v)
      /\ pc \in [Invocations -> PCs]
  BY CurrentContext, KeyFields DEF PutPointer, TypeOK
<1>1. \A p \in pointers : p.entity = entity(v) /\ p.name \in StateNames =>
         \E h \in Old(v) : p = PointerKey(h.state.name, entity(v), h.attempt)
  BY <1>0, OldIsThePointer, PointerIsHit
<1>2. \A e \in Entities : OnePointer(e)
  BY <1>0 DEF PointerLocal
<1> HIDE DEF new
<1>3. \A e \in Entities : e # entity(v) => OnePointer(e)'
  BY <1>0, <1>2, OnePointerStays
<1>4. CASE Old(v) = {} /\ NextContext(v, TRUE)
  <2>1. \A p \in pointers' : p.entity = entity(v) /\ p.name \in StateNames => p = new
    BY <1>0, <1>1, <1>4
  <2>2. \A e : e = entity(v) => OnePointer(e)'
    BY <2>1 DEF OnePointer
  <2> QED
    BY <1>3, <1>4, <2>2, NextContextLookup DEF PointerLocal
<1>5. CASE Goto(v, "delete_old")
  <2>1. pc'[v] = "delete_old" /\ UNCHANGED <<task, hits>>
    BY <1>0, <1>5 DEF Goto, lookup
  <2>2. /\ entity(v)' = entity(v) /\ attempt(v)' = attempt(v) /\ new_state(v)' = new_state(v)
        /\ Old(v)' = Old(v)
    BY <2>1 DEF task, entity, attempt, new_state, group, Old, Best
  <2>3. NewAndOld(v)'
    BY <1>0, <1>1, <2>2 DEF NewAndOld, new
  <2> QED
    BY <1>3, <2>1, <2>2, <2>3 DEF PointerLocal, LookupIsExact
<1> QED
  BY <1>4, <1>5 DEF PutPointer

LEMMA DeleteOldPointerExact ==
    ASSUME ~DeleteFaults, TypeOK, NEW v \in Invocations, PointerLocal(v), DeleteOldPointer(v)
    PROVE  PointerLocal(v)'
<1> DEFINE new == PointerKey(new_state(v).name, entity(v), attempt(v))
           old == {PointerKey(h.state.name, entity(v), h.attempt) : h \in Old(v)}
<1>0. /\ pc[v] = "delete_old" /\ pointers' = pointers \ old /\ NextContext(v, TRUE)
  BY DEF DeleteOldPointer
<1>1. \A p \in pointers' : p.entity = entity(v) /\ p.name \in StateNames => p = new
  BY <1>0 DEF PointerLocal, NewAndOld
<1> HIDE DEF new, old
<1>2. ASSUME NEW e \in Entities PROVE OnePointer(e)'
  <2>1. CASE e = entity(v)
    BY <1>1, <2>1 DEF OnePointer
  <2>2. CASE e # entity(v)
    BY <1>0, <2>2, OnePointerStays DEF PointerLocal
  <2> QED
    BY <2>1, <2>2
<1> QED
  BY <1>0, <1>2, NextContextLookup DEF PointerLocal

LEMMA PointerStep ==
    ASSUME Sequential, ~Crashes, ~ReadFaults, ~DeleteFaults, PointerInv, [Next]_vars
    PROVE  PointerInv'
<1>0. TypeOK /\ TypeOK'
  BY TypeStep DEF PointerInv
<1>1. ASSUME NEW v \in Invocations, PointerLocal(v)' PROVE PointerInv'
  BY <1>0, <1>1 DEF Sequential, PointerInv, PointerLocal
<1>2. ASSUME NEW v \in Invocations PROVE PointerLocal(v)
  BY PointerInvLocal
<1>3. ASSUME NEW v \in Invocations, pc[v] # "delete_old",
             pc'[v] \in {"head", "route", "send", "return", "idle"},
             LookupIsExact(v)' /\ NewAndOld(v)', pointers' = pointers
      PROVE  PointerLocal(v)'
  BY <1>2, <1>3 DEF PointerLocal, OnePointer
<1>4. ASSUME NEW v \in Invocations, Step(v) PROVE PointerLocal(v)'
  <2>1. CASE HeadState(v)
    BY <1>0, <1>2, <2>1, HeadStateExact
  <2>2. CASE ListState(v)
    BY <1>0, <1>2, <2>2, ListStateExact
  <2>3. CASE GetRecord(v) \/ PutRecord(v) \/ DeleteSubmitterPointer(v)
    BY <1>0, <1>2, <2>3, AfterLookupExact
  <2>4. ASSUME SkipContext(v) \/ KeepPointer(v) PROVE PointerLocal(v)'
    <3>1. pc[v] = "guard" /\ pointers' = pointers /\ \E f : NextContext(v, f)
      BY <2>4, Zenon DEF SkipContext, KeepPointer, store
    <3> QED
      BY <1>0, <1>3, <3>1, NextContextLookup
  <2>5. CASE PutPointer(v)
    BY <1>0, <1>2, <2>5, PutPointerExact
  <2>6. CASE DeleteOldPointer(v)
    BY <1>0, <1>2, <2>6, DeleteOldPointerExact
  <2>7. ASSUME WriteOutputIndex(v) \/ SendRetry(v) \/ SendDlq(v) \/ Return(v)
        PROVE  PointerLocal(v)'
    <3>1. /\ pc[v] \in {"route", "send", "return"} /\ pc'[v] \in {"send", "return", "idle"}
          /\ pointers' = pointers
      BY <1>0, <2>7 DEF TypeOK, WriteOutputIndex, SendRetry, SendDlq, Return, Goto, End, Enter, store
    <3> QED
      BY <1>3, <3>1, NothingLookedUp
  <2> QED
    BY <1>4, <2>1, <2>2, <2>3, <2>4, <2>5, <2>6, <2>7 DEF Step
<1>5. ASSUME NEW v \in Invocations, NEW ev \in Events, Deliver(v, ev) PROVE PointerLocal(v)'
  <2>1. /\ pc[v] = "idle" /\ pc'[v] = "head" /\ hits'[v] = {} /\ scan'[v] = 1
        /\ pointers' = pointers
    BY <1>0, <1>5 DEF TypeOK, Deliver, Enter, store
  <2> QED
    BY <1>3, <2>1, NothingLookedUp
<1>6. CASE UNCHANGED vars
  <2>1. UNCHANGED <<pointers, pc, event, ctx, scan, hits>>
    BY <1>6 DEF vars, store, task, lookup
  <2>2. ASSUME NEW v \in Invocations PROVE LookupIsExact(v)' /\ NewAndOld(v)' /\ entity(v)' = entity(v)
    <3>1. /\ entity(v)' = entity(v) /\ attempt(v)' = attempt(v) /\ new_state(v)' = new_state(v)
          /\ Old(v)' = Old(v) /\ PointerHits(v)' = PointerHits(v)
          /\ ScannedStates(v)' = ScannedStates(v)
      BY <2>1 DEF entity, attempt, new_state, group, Old, Best, PointerHits, Hit, Attempts,
         ScannedStates
    <3> QED
      BY <2>1, <3>1 DEF PointerInv, LookupIsExact, NewAndOld
  <2> QED
    BY <1>0, <2>1, <2>2 DEF PointerInv, OnePointer
<1>7. ASSUME NEW v \in Invocations PROVE ~Crash(v)
  BY DEF Crash
<1> QED
  BY <1>1, <1>4, <1>5, <1>6, <1>7 DEF Next, MonitorNext

LEMMA PointerInit == Init => PointerInv
<1> SUFFICES ASSUME Init PROVE PointerInv
  OBVIOUS
<1>1. \A p \in pointers : p.name \notin StateNames
  BY SubmitterAssumption, KeyFields DEF Init
<1> QED
  BY <1>1, TypeInit DEF Init, PointerInv, LookupIsExact, NewAndOld, OnePointer

\* One invocation at a time, run to the end, with no call that fails and is
\* swallowed, leaves an entity one pointer at most: what two invocations, a crash
\* between PUT and DELETE, or a swallowed error undo.
THEOREM OnePointerKept ==
    ASSUME Sequential, ~Crashes, ~ReadFaults, ~DeleteFaults
    PROVE  Spec => []OnePointerPerEntity
<1>1. PointerInv /\ [Next]_vars => PointerInv'
  BY PointerStep
<1>2. PointerInv => OnePointerPerEntity
  <2> SUFFICES ASSUME PointerInv, Resting, NEW p \in pointers, NEW q \in pointers,
                      p.entity = q.entity, p.name \in StateNames, q.name \in StateNames
               PROVE  p = q
    BY DEF OnePointerPerEntity
  <2>1. p.entity \in Entities
    BY DEF PointerInv, TypeOK, Pointer
  <2>2. OnePointer(p.entity)
    BY <2>1 DEF PointerInv, Resting
  <2> QED
    BY <2>2 DEF OnePointer
<1> QED
  BY <1>1, <1>2, PointerInit, PTL DEF Spec
===============================================================================
