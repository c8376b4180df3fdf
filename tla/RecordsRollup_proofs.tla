------------------------- MODULE RecordsRollup_proofs -------------------------
(***************************************************************************)
(* Proofs about RecordsRollup, for any objects and versions, any sizes and *)
(* limits and any number of faults.  Fairness plays no part in them.       *)
(***************************************************************************)
EXTENDS RecordsRollupInvariant, FiniteSetTheorems, TLAPS

-----------------------------------------------------------------------------
(* Messages *)

\* A message sent has an id no other message of its key has.
LEMMA MessageIsNew ==
    ASSUME IsFiniteSet(InFlight), NEW k \in Keys
    PROVE  /\ Message(k) = [key |-> k, id |-> Message(k).id, receives |-> 0]
           /\ Message(k).id \in Nat \ {0}
           /\ \A m \in InFlight : m.key = k => m.id # Message(k).id
<1> DEFINE ms == {n \in InFlight : n.key = k}
           used == {m.id : m \in ms}
           n == Cardinality(used)
<1>1. IsFiniteSet(used) /\ n \in Nat
  <2>1. IsFiniteSet(ms)
    BY FS_Subset
  <2> DEFINE f == [m \in ms |-> m.id]
  <2>2. f \in Surjection(ms, used)
    BY DEF Surjection
  <2> HIDE DEF ms, used, f
  <2> QED
    BY <2>1, <2>2, FS_Surjection, FS_CardinalityType
<1>2. \E i \in 1..n + 1 : i \notin used
  <2> SUFFICES ASSUME 1..n + 1 \subseteq used PROVE FALSE
    OBVIOUS
  <2> HIDE DEF used, n
  <2>1. Cardinality(1..n + 1) <= n
    BY <1>1, FS_Subset DEF n
  <2>2. Cardinality(1..n + 1) = n + 1
    <3>1. 1 \in Int /\ n + 1 \in Int /\ ~(1 > n + 1) /\ (n + 1) - 1 + 1 = n + 1
      BY <1>1
    <3> QED
      BY <3>1, FS_Interval
  <2> QED
    BY <1>1, <2>1, <2>2
<1> DEFINE id == CHOOSE i \in 1..n + 1 : i \notin used
<1>3. id \in 1..n + 1 /\ id \notin used
  <2> HIDE DEF used, n
  <2> QED
    BY <1>2
<1>4. Message(k) = [key |-> k, id |-> id, receives |-> 0]
  BY DEF Message, InFlight
<1> HIDE DEF id
<1>5. Message(k).id = id
  BY <1>4
<1> QED
  BY <1>1, <1>3, <1>4, <1>5

\* What the invariant says of messages.
MessagesOK ==
    /\ IsFiniteSet(InFlight)
    /\ \A m \in InFlight :
          MessageType(m) /\ m = [key |-> m.key, id |-> m.id, receives |-> m.receives]
    /\ \A m, n \in InFlight : m.key = n.key /\ m.id = n.id => m = n
    /\ queue \cap abandoned = {} /\ queue \cap drained = {} /\ abandoned \cap drained = {}

LEMMA MessagesOfInv == RollupInv => MessagesOK
BY DEF RollupInv, TypeOK, ShapeOK, MessagesOK, InFlight

\* Messages moved between places stay what they are.
LEMMA MessagesMoved ==
    ASSUME MessagesOK, InFlight' \subseteq InFlight,
           queue' \cap abandoned' = {}, queue' \cap drained' = {}, abandoned' \cap drained' = {}
    PROVE  MessagesOK'
<1>1. IsFiniteSet(InFlight')
  BY FS_Subset DEF MessagesOK
<1> QED
  BY <1>1 DEF MessagesOK, MessageType

\* Messages sent leave those in flight alone.
LEMMA SentMessages ==
    ASSUME MessagesOK, NEW keys, keys \subseteq Keys, queue' = Sent(keys),
           UNCHANGED <<abandoned, drained>>
    PROVE  /\ MessagesOK'
           /\ \A k \in keys : \E m \in queue' : m.key = k
<1> DEFINE new == {Message(k) : k \in keys}
<1>1. queue' = queue \cup new /\ InFlight' = InFlight \cup new
  BY DEF Sent, InFlight
<1>2. IsFiniteSet(new)
  <2> DEFINE f == [k \in keys |-> Message(k)]
  <2>1. f \in Surjection(keys, new)
    BY DEF Surjection
  <2>2. IsFiniteSet(keys)
    BY FS_Subset, RollupAssumption
  <2> HIDE DEF f, new
  <2> QED
    BY <2>1, <2>2, FS_Surjection
<1>3. IsFiniteSet(InFlight')
  <2> HIDE DEF new
  <2> QED
    BY <1>1, <1>2, FS_Union DEF MessagesOK
<1>4. ASSUME NEW k \in keys
      PROVE  /\ Message(k) = [key |-> k, id |-> Message(k).id, receives |-> 0]
             /\ Message(k).id \in Nat \ {0}
             /\ \A m \in InFlight : m.key = k => m.id # Message(k).id
  BY MessageIsNew DEF MessagesOK
<1>5. ASSUME NEW k \in keys
      PROVE  /\ Message(k).key = k /\ Message(k).id \in Nat \ {0}
             /\ Message(k).receives = 0
  BY <1>4
<1>6. \A m \in new : /\ \E k \in keys : m = Message(k)
                     /\ m = [key |-> m.key, id |-> m.id, receives |-> m.receives]
                     /\ m.key \in keys /\ m.id \in Nat \ {0} /\ m.receives = 0
                     /\ m = Message(m.key)
                     /\ \A n \in InFlight : m.key = n.key => m.id # n.id
  BY <1>4, <1>5
<1> HIDE DEF new
<1>7. \A m, n \in InFlight' : m.key = n.key /\ m.id = n.id => m = n
  BY <1>1, <1>6 DEF MessagesOK
<1>8. new \cap InFlight = {}
  BY <1>6
<1>9. \A m \in InFlight' :
         MessageType(m) /\ m = [key |-> m.key, id |-> m.id, receives |-> m.receives]
  BY <1>1, <1>6, RollupAssumption DEF MessagesOK, MessageType
<1>10. queue' \cap abandoned' = {} /\ queue' \cap drained' = {} /\ abandoned' \cap drained' = {}
  BY <1>1, <1>8 DEF MessagesOK, InFlight
<1>11. \A k \in keys : \E m \in queue' : m.key = k
  BY <1>1, <1>5 DEF new
<1> QED
  BY <1>3, <1>7, <1>9, <1>10, <1>11 DEF MessagesOK

\* A receive counts itself, and moves a message where its key is drained.
LEMMA ReceivedMessages ==
    ASSUME MessagesOK, NEW batch \in SUBSET Receivable, queue' = queue \ batch,
           drained' = drained \cup Receives(batch), abandoned' = abandoned
    PROVE  MessagesOK' /\ DrainedKeys' = DrainedKeys \cup {m.key : m \in batch}
<1> DEFINE received(m) == [key |-> m.key, id |-> m.id, receives |-> m.receives + 1]
           new == Receives(batch)
<1>1. \A m \in batch : m \in queue /\ m \in InFlight /\ m.receives < max_receive_count
  BY DEF Receivable, InFlight
<1>2. ASSUME NEW m \in batch PROVE [m EXCEPT !.receives = @ + 1] = received(m)
  <2> DEFINE r == [key |-> m.key, id |-> m.id, receives |-> m.receives]
  <2>1. [r EXCEPT !.receives = @ + 1] = received(m)
    OBVIOUS
  <2>2. m = r
    BY <1>1 DEF MessagesOK
  <2> QED
    BY <2>1, <2>2
<1>3. new = {received(m) : m \in batch}
  <2>1. new = {[m EXCEPT !.receives = @ + 1] : m \in batch}
    BY DEF Receives
  <2> HIDE DEF received, new
  <2> QED
    BY <1>2, <2>1
<1>4. \A m \in new : \E n \in batch : m = received(n)
  BY <1>3
<1>5. \A n \in batch : received(n) \in new /\ received(n).key = n.key
  BY <1>3
<1>6. \A m \in new : \E n \in batch :
         /\ m.key = n.key /\ m.id = n.id /\ m.receives = n.receives + 1
         /\ m = [key |-> m.key, id |-> m.id, receives |-> m.receives]
  BY <1>4
<1>7. IsFiniteSet(new)
  <2> DEFINE f == [m \in batch |-> received(m)]
  <2>1. f \in Surjection(batch, new)
    <3> HIDE DEF new
    <3> QED
      BY <1>3 DEF Surjection
  <2>2. IsFiniteSet(batch)
    BY <1>1, FS_Subset DEF MessagesOK
  <2> HIDE DEF f, new
  <2> QED
    BY <2>1, <2>2, FS_Surjection
<1> HIDE DEF new, received
<1>8. InFlight' \subseteq InFlight \cup new
  BY DEF InFlight, new
<1>9. IsFiniteSet(InFlight')
  <2>1. IsFiniteSet(InFlight \cup new)
    BY <1>7, FS_Union DEF MessagesOK
  <2> QED
    BY <1>8, <2>1, FS_Subset
<1>10. ASSUME NEW m \in new
       PROVE  /\ MessageType(m) /\ m = [key |-> m.key, id |-> m.id, receives |-> m.receives]
              /\ m \notin queue' \cup abandoned
  <2>1. PICK n \in batch :
           /\ m.key = n.key /\ m.id = n.id /\ m.receives = n.receives + 1
           /\ m = [key |-> m.key, id |-> m.id, receives |-> m.receives]
    BY <1>6
  <2>2. MessageType(n) /\ n.receives < max_receive_count
    BY <1>1 DEF MessagesOK
  <2>3. MessageType(m)
    BY <2>1, <2>2, RollupAssumption DEF MessageType
  <2>4. m # n
    BY <2>1, <2>2 DEF MessageType
  <2>5. m \notin InFlight
    BY <1>1, <2>1, <2>4 DEF MessagesOK
  <2> QED
    BY <2>1, <2>3, <2>5 DEF InFlight
<1>11. \A m \in InFlight' :
          MessageType(m) /\ m = [key |-> m.key, id |-> m.id, receives |-> m.receives]
  BY <1>8, <1>10 DEF MessagesOK
<1>12. \A m \in InFlight' : m \in new \/ (m \in InFlight /\ m \notin batch)
  BY <1>1 DEF InFlight, new, MessagesOK
<1>13. ASSUME NEW m \in InFlight', NEW n \in InFlight', m.key = n.key, m.id = n.id
       PROVE  m = n
  <2>1. CASE m \in new /\ n \in new
    BY <1>1, <1>6, <1>13, <2>1 DEF MessagesOK
  <2>2. CASE m \in new /\ n \notin new
    BY <1>1, <1>6, <1>12, <1>13, <2>2 DEF MessagesOK
  <2>3. CASE m \notin new /\ n \in new
    BY <1>1, <1>6, <1>12, <1>13, <2>3 DEF MessagesOK
  <2>4. CASE m \notin new /\ n \notin new
    BY <1>12, <1>13, <2>4 DEF MessagesOK
  <2> QED
    BY <2>1, <2>2, <2>3, <2>4
<1>14. queue' \cap abandoned' = {} /\ queue' \cap drained' = {} /\ abandoned' \cap drained' = {}
  BY <1>10 DEF MessagesOK, new
<1>15. DrainedKeys' = DrainedKeys \cup {m.key : m \in batch}
  <2>1. DrainedKeys' = DrainedKeys \cup {m.key : m \in new}
    BY DEF DrainedKeys, new
  <2>2. {m.key : m \in new} = {m.key : m \in batch}
    BY <1>5, <1>6
  <2> QED
    BY <2>1, <2>2
<1> QED
  BY <1>9, <1>11, <1>13, <1>14, <1>15 DEF MessagesOK

\* A batch of no more messages than keys are needed is captured to its last.
LEMMA BatchCaptured ==
    ASSUME RollupInv, NEW batch \in SUBSET Receivable, Cardinality(batch) <= Asked,
           NEW captured \in Captured(batch)
    PROVE  captured = batch
<1> SUFFICES ASSUME captured # batch PROVE FALSE
  OBVIOUS
<1> DEFINE keys == {m.key : m \in captured}
<1>1. IsFiniteSet(batch) /\ IsFiniteSet(captured) /\ IsFiniteSet(fetching)
  <2>1. IsFiniteSet(queue)
    BY FS_Subset DEF RollupInv, ShapeOK, InFlight
  <2>2. batch \subseteq queue /\ captured \subseteq batch
    BY DEF Receivable, Captured
  <2>3. IsFiniteSet(fetching)
    BY FS_Subset, RollupAssumption DEF RollupInv, ShapeOK
  <2> QED
    BY <2>1, <2>2, <2>3, FS_Subset
<1>2. Cardinality(captured) < Cardinality(batch)
  <2>1. captured \subseteq batch
    BY DEF Captured
  <2>2. /\ Cardinality(captured) <= Cardinality(batch)
        /\ Cardinality(captured) = Cardinality(batch) => captured = batch
    BY <1>1, <2>1, FS_Subset
  <2>3. Cardinality(captured) \in Nat /\ Cardinality(batch) \in Nat
    BY <1>1, FS_CardinalityType
  <2> QED
    BY <2>2, <2>3
<1>3. IsFiniteSet(keys) /\ Cardinality(keys) <= Cardinality(captured)
  <2> DEFINE f == [m \in captured |-> m.key]
  <2>1. f \in Surjection(captured, keys)
    BY DEF Surjection
  <2> HIDE DEF f, keys
  <2> QED
    BY <1>1, <2>1, FS_Surjection
<1>4. Cardinality(fetching \cup keys) <= Cardinality(fetching) + Cardinality(keys)
  <2> HIDE DEF keys
  <2>1. /\ IsFiniteSet(fetching \cup keys) /\ IsFiniteSet(fetching \cap keys)
        /\ Cardinality(fetching \cup keys)
              = Cardinality(fetching) + Cardinality(keys) - Cardinality(fetching \cap keys)
    BY <1>1, <1>3, FS_Union, FS_Intersection
  <2> QED
    BY <1>1, <1>3, <2>1, FS_CardinalityType
<1>5. Cardinality(fetching \cup keys) >= max_keys
  BY DEF Captured, KeysWith
<1>6. Cardinality(batch) <= max_keys - Cardinality(fetching)
  <2> DEFINE a == receive_batch
             b == max_keys - Cardinality(fetching)
  <2>1. a \in Int /\ b \in Int
    BY <1>1, FS_CardinalityType, RollupAssumption
  <2>2. Min({a, b}) <= b
    <3> HIDE DEF a, b
    <3>1. \E x \in {a, b} : \A y \in {a, b} : x <= y
      BY <2>1
    <3>2. Min({a, b}) \in {a, b} /\ \A y \in {a, b} : Min({a, b}) <= y
      BY <3>1 DEF Min
    <3> QED
      BY <3>2
  <2>3. Min({a, b}) \in Int
    <3> HIDE DEF a, b
    <3>1. \E x \in {a, b} : \A y \in {a, b} : x <= y
      BY <2>1
    <3>2. Min({a, b}) \in {a, b}
      BY <3>1 DEF Min
    <3> QED
      BY <2>1, <3>2
  <2>4. Cardinality(batch) \in Nat
    BY <1>1, FS_CardinalityType
  <2>5. Cardinality(batch) <= Min({a, b})
    BY DEF Asked
  <2> HIDE DEF a, b
  <2>6. Cardinality(batch) <= b
    BY <2>1, <2>2, <2>3, <2>4, <2>5
  <2> QED
    BY <2>6 DEF b
<1>7. /\ Cardinality(batch) \in Nat /\ Cardinality(captured) \in Nat
      /\ Cardinality(keys) \in Nat /\ Cardinality(fetching) \in Nat /\ max_keys \in Nat
      /\ Cardinality(fetching \cup keys) \in Nat
  <2> HIDE DEF keys
  <2> QED
    BY <1>1, <1>3, FS_CardinalityType, FS_Union, RollupAssumption
<1> HIDE DEF keys
<1> QED
  BY <1>2, <1>3, <1>4, <1>5, <1>6, <1>7

\* A receive: what it took from the queue is in hand, and nothing is set aside.
LEMMA DrainFacts ==
    ASSUME RollupInv, Drain
    PROVE  \E batch \in SUBSET Receivable :
              /\ fetching' = fetching \cup {m.key : m \in batch}
              /\ queue' = queue \ batch
              /\ drained' = drained \cup Receives(batch)
              /\ abandoned' = abandoned
<1>1. PICK batch \in SUBSET Receivable : \E captured \in Captured(batch) :
         /\ Cardinality(batch) <= Asked
         /\ fetching' = KeysWith(captured)
         /\ queue' = queue \ batch
         /\ drained' = drained \cup Receives(captured)
         /\ abandoned' = abandoned \cup Receives(batch \ captured)
  BY DEF Drain
<1>2. PICK captured \in Captured(batch) :
         /\ Cardinality(batch) <= Asked
         /\ fetching' = KeysWith(captured)
         /\ queue' = queue \ batch
         /\ drained' = drained \cup Receives(captured)
         /\ abandoned' = abandoned \cup Receives(batch \ captured)
  BY <1>1
<1>3. captured = batch
  BY <1>2, BatchCaptured
<1>4. Receives({}) = {}
  BY DEF Receives
<1>5. abandoned' = abandoned
  BY <1>2, <1>3, <1>4
<1> QED
  BY <1>2, <1>3, <1>5 DEF KeysWith

-----------------------------------------------------------------------------
(* Merging *)

\* A MERGE raises the time of a row or leaves the row alone, and a row of the
\* table is one that was staged.
LEMMA MergeRaises ==
    ASSUME DOMAIN table = NaturalKeys, \A n \in NaturalKeys : table[n].time \in Nat,
           NEW staged, NEW at, \A r \in staged : RowRead(r)
    PROVE  /\ DOMAIN Merged(staged, at) = NaturalKeys
           /\ \A n \in NaturalKeys :
                 /\ Merged(staged, at)[n].time \in Nat
                 /\ Merged(staged, at)[n].time >= table[n].time
                 /\ \/ Merged(staged, at)[n] = table[n]
                    \/ \E r \in RowsOf(n, staged) : Merged(staged, at)[n] = RolledUp(r, at)
                 /\ \A r \in RowsOf(n, staged) :
                       (\A s \in RowsOf(n, staged) : r = s) => Merged(staged, at)[n].time >= r.time
<1> DEFINE new(n) == {r \in RowsOf(n, staged) : table[n] = NoRow \/ r.time >= table[n].time}
           t == Merged(staged, at)
<1>1. DOMAIN t = NaturalKeys
  BY DEF Merged
<1>2. ASSUME NEW n \in NaturalKeys
      PROVE  t[n] = IF new(n) = {} THEN table[n] ELSE RolledUp(CHOOSE r \in new(n) : TRUE, at)
  BY DEF Merged
<1>3. NoRow.time = 0
  BY DEF NoRow
<1> HIDE DEF t
<1>4. ASSUME NEW n \in NaturalKeys
      PROVE  /\ t[n].time \in Nat /\ t[n].time >= table[n].time
             /\ \/ t[n] = table[n]
                \/ \E r \in RowsOf(n, staged) : t[n] = RolledUp(r, at)
             /\ \A r \in RowsOf(n, staged) :
                   (\A s \in RowsOf(n, staged) : r = s) => t[n].time >= r.time
  <2>0. /\ table[n].time \in Nat
        /\ \A r \in RowsOf(n, staged) : r.time \in Nat /\ r.time > 0
    BY DEF RowsOf, RowRead
  <2>1. CASE new(n) = {}
    BY <1>2, <2>0, <2>1
  <2>2. CASE new(n) # {}
    <3>1. PICK r \in new(n) : t[n] = RolledUp(r, at)
      <4> DEFINE c == CHOOSE r \in new(n) : TRUE
      <4>1. c \in new(n)
        BY <2>2
      <4>2. t[n] = RolledUp(c, at)
        BY <1>2, <2>2
      <4> QED
        BY <4>1, <4>2
    <3>2. t[n].time = r.time /\ r \in RowsOf(n, staged)
      BY <3>1 DEF RolledUp
    <3>3. r.time >= table[n].time
      BY <1>3, <2>0, <3>2
    <3> QED
      BY <2>0, <3>1, <3>2, <3>3
  <2> QED
    BY <2>1, <2>2
<1> QED
  BY <1>1, <1>4 DEF t

-----------------------------------------------------------------------------
(* Objects, rows and the table *)

\* Only a write changes an object's version, and only by moving it on.
LEMMA ObjectsStep ==
    ASSUME RollupInv, [Next]_vars
    PROVE  /\ clock' \in Nat /\ object' \in [Keys -> [version : Nat, modified : Nat, there : BOOLEAN]]
           /\ \A k \in Keys :
                 /\ object'[k].version \in 0..Len(EventTimes[k]) /\ object'[k].modified <= clock'
                 /\ object'[k].there => object'[k].version >= 1
                 /\ object'[k].version >= object[k].version
<1>0. /\ clock \in Nat /\ object \in [Keys -> [version : Nat, modified : Nat, there : BOOLEAN]]
      /\ \A k \in Keys :
            /\ object[k].version \in 0..Len(EventTimes[k]) /\ object[k].modified <= clock
            /\ object[k].there => object[k].version >= 1
      /\ \A k \in Keys : Len(EventTimes[k]) \in Nat
  BY RollupAssumption DEF RollupInv, ShapeOK, TypeOK
<1>1. CASE UNCHANGED <<clock, object>>
  BY <1>0, <1>1
<1>2. ASSUME NEW k \in Keys, WriteObject(k)
      PROVE  /\ clock' = clock + 1 /\ object[k].version < Len(EventTimes[k])
             /\ object' = [object EXCEPT ![k] = [version |-> object[k].version + 1,
                                                 modified |-> clock + 1, there |-> TRUE]]
  BY <1>2 DEF WriteObject
<1>3. ASSUME NEW k \in Keys, DeleteObject(k)
      PROVE  /\ clock' = clock /\ object' = [object EXCEPT ![k].there = FALSE]
  BY <1>3 DEF DeleteObject
<1>4. ASSUME \/ SQS \/ Rollup \/ Reconcile \/ TakeInventory \/ FailMerge \/ Crash \/ FailReconcile
             \/ UNCHANGED vars \/ \E q \in orphans : EndOrphan(q)
      PROVE  UNCHANGED <<clock, object>>
  BY <1>4 DEF SQS, Reappear, Redrive, Rollup, StartScheduled, StartChained, Start, Drain, EndDrain,
     Fetch, StartMerge, NothingFetched, CommitMerge, DeleteMessages, Check, Reconcile,
     StartReconcile, EnqueuePage, ResumeReconcile, TakeInventory, FailMerge, Crash,
     FailReconcile, EndOrphan, vars, storage
<1>5. ASSUME NEW k \in Keys, WriteObject(k)
      PROVE  /\ clock' \in Nat
             /\ object' \in [Keys -> [version : Nat, modified : Nat, there : BOOLEAN]]
             /\ \A j \in Keys :
                   /\ object'[j].version \in 0..Len(EventTimes[j]) /\ object'[j].modified <= clock'
                   /\ object'[j].there => object'[j].version >= 1
                   /\ object'[j].version >= object[j].version
  <2> DEFINE o == [version |-> object[k].version + 1, modified |-> clock + 1, there |-> TRUE]
  <2>1. /\ o \in [version : Nat, modified : Nat, there : BOOLEAN]
          /\ o.version = object[k].version + 1 /\ o.modified = clock + 1
    BY <1>0
  <2> HIDE DEF o
  <2>2. object' = [object EXCEPT ![k] = o] /\ \A j \in Keys : j # k => object'[j] = object[j]
    BY <1>0, <1>2, <1>5 DEF o
  <2>3. object' \in [Keys -> [version : Nat, modified : Nat, there : BOOLEAN]] /\ object'[k] = o
    BY <1>0, <2>1, <2>2
  <2>4. clock' = clock + 1 /\ object[k].version < Len(EventTimes[k])
    BY <1>2, <1>5
  <2>5. /\ object'[k].version \in 0..Len(EventTimes[k]) /\ object'[k].modified <= clock'
          /\ object'[k].version >= 1 /\ object'[k].version >= object[k].version
    BY <1>0, <2>1, <2>3, <2>4
  <2>6. \A j \in Keys : object[j].modified <= clock + 1 /\ object[j].version >= object[j].version
    BY <1>0
  <2> QED
    BY <1>0, <2>2, <2>3, <2>4, <2>5, <2>6
<1>6. ASSUME NEW k \in Keys, DeleteObject(k)
      PROVE  /\ clock' \in Nat
             /\ object' \in [Keys -> [version : Nat, modified : Nat, there : BOOLEAN]]
             /\ \A j \in Keys :
                   /\ object'[j].version \in 0..Len(EventTimes[j]) /\ object'[j].modified <= clock'
                   /\ object'[j].there => object'[j].version >= 1
                   /\ object'[j].version >= object[j].version
  <2>1. \A j \in Keys : /\ object'[j].version = object[j].version
                        /\ object'[j].modified = object[j].modified
                        /\ object'[j].there => object[j].there
    BY <1>0, <1>3, <1>6
  <2>2. object' \in [Keys -> [version : Nat, modified : Nat, there : BOOLEAN]]
    BY <1>0, <1>3, <1>6
  <2> QED
    BY <1>0, <1>3, <1>6, <2>1, <2>2
<1> QED
  BY <1>1, <1>4, <1>5, <1>6 DEF Next, Writes, Faults

\* A row that was read stays one, whatever is written after.
LEMMA RowsStayRead ==
    ASSUME RollupInv, [Next]_vars, NEW r, RowRead(r)
    PROVE  RowRead(r)'
<1>1. r.source_key \in Keys /\ r.version \in 1..object[r.source_key].version /\ r.time \in Nat \ {0}
  BY DEF RowRead
<1>2. /\ object[r.source_key].version \in Nat /\ object'[r.source_key].version \in Nat
      /\ object'[r.source_key].version >= object[r.source_key].version
  BY <1>1, ObjectsStep DEF RollupInv, ShapeOK
<1> QED
  BY <1>1, <1>2 DEF RowRead

\* Rows in hand or in a MERGE that goes on were read from their objects.
LEMMA RowsStep ==
    ASSUME RollupInv, [Next]_vars
    PROVE  (\A r \in rows : RowRead(r))' /\ (\A q \in orphans : \A r \in q.rows : RowRead(r))'
<1>0. /\ \A r \in rows : RowRead(r)'
      /\ \A q \in orphans : \A r \in q.rows : RowRead(r)'
  BY RowsStayRead DEF RollupInv, ShapeOK
<1>1. CASE rows' \subseteq rows /\ orphans' \subseteq orphans
  BY <1>0, <1>1
<1>2. ASSUME NEW k \in Keys, Fetch(k), Readable(k), NEW r,
             r = [source_key |-> k, version |-> object[k].version,
                  time |-> EventTimes[k][object[k].version]]
      PROVE  RowRead(r)'
  <2>1. /\ object[k].version \in 1..Len(EventTimes[k]) /\ object' = object
        /\ EventTimes[k] \in Seq(Nat \ {0})
    BY <1>2, RollupAssumption DEF Fetch, Readable, storage, RollupInv, ShapeOK, TypeOK
  <2>2. EventTimes[k][object[k].version] \in Nat \ {0} /\ object[k].version \in Nat
    BY <2>1
  <2> QED
    BY <1>2, <2>1, <2>2 DEF RowRead
<1>3. ASSUME NEW k \in Keys, Fetch(k)
      PROVE  (\A r \in rows : RowRead(r))' /\ (\A q \in orphans : \A r \in q.rows : RowRead(r))'
  <2>1. CASE Readable(k)
    <3>0. PICK r : r = [source_key |-> k, version |-> object[k].version,
                        time |-> EventTimes[k][object[k].version]]
      OBVIOUS
    <3>1. rows' = rows \cup {r} /\ orphans' = orphans
      BY <1>3, <2>1, <3>0 DEF Fetch
    <3>2. RowRead(r)'
      BY <1>2, <1>3, <2>1, <3>0
    <3> QED
      BY <1>0, <3>1, <3>2
  <2>2. CASE ~Readable(k)
    BY <1>1, <1>3, <2>2 DEF Fetch
  <2> QED
    BY <2>1, <2>2
<1>4. CASE StartMerge
  BY <1>1, <1>4 DEF StartMerge, Deduped
<1>5. CASE Crash
  <2>1. /\ rows' = {}
        /\ \A q \in orphans' : q \in orphans \/ q = [rows |-> rows, started |-> started]
    BY <1>5 DEF Crash, Idle
  <2> QED
    BY <1>0, <2>1
<1>6. ASSUME \/ Writes \/ SQS \/ Reconcile \/ TakeInventory \/ FailReconcile \/ UNCHANGED vars
             \/ StartScheduled \/ StartChained \/ Drain \/ EndDrain \/ NothingFetched
             \/ CommitMerge \/ DeleteMessages \/ Check \/ FailMerge
             \/ \E k \in Keys : DeleteObject(k)
             \/ \E q \in orphans : EndOrphan(q)
      PROVE  rows' \subseteq rows /\ orphans' \subseteq orphans
  BY <1>6 DEF Writes, WriteObject, SQS, Reappear, Redrive, Reconcile, StartReconcile, EnqueuePage,
     ResumeReconcile, FailReconcile, TakeInventory, StartScheduled, StartChained, Start, Drain,
     EndDrain, NothingFetched, CommitMerge, DeleteMessages, Check, FailMerge, Idle, DeleteObject,
     EndOrphan, vars, invocation
<1> QED
  BY <1>1, <1>3, <1>4, <1>5, <1>6 DEF Next, Rollup, Faults

\* The table changes by a MERGE of rows that were read, and by nothing else.
LEMMA TableChanges ==
    ASSUME RollupInv, [Next]_vars
    PROVE  \/ UNCHANGED table
           \/ CommitMerge /\ table' = Merged(rows, started)
           \/ \E q \in orphans : EndOrphan(q) /\ table' = Merged(q.rows, q.started)
BY DEF Next, Writes, WriteObject, SQS, Reappear, Redrive, Reconcile, StartReconcile, EnqueuePage,
   ResumeReconcile, FailReconcile, TakeInventory, Rollup, StartScheduled, StartChained, Start,
   Drain, EndDrain, Fetch, StartMerge, NothingFetched, CommitMerge, DeleteMessages, Check, Faults,
   FailMerge, Crash, DeleteObject, EndOrphan, vars

\* A row of the table is of its natural key and of a version written, and no
\* step makes it older.
LEMMA TableStep ==
    ASSUME RollupInv, [Next]_vars
    PROVE  /\ DOMAIN table' = NaturalKeys
           /\ \A n \in NaturalKeys :
                 /\ table'[n].time \in Nat /\ table'[n].time >= table[n].time
                 /\ table'[n] # NoRow =>
                       /\ table'[n].source_key \in Keys /\ natural_key[table'[n].source_key] = n
                       /\ table'[n].version \in 1..object'[table'[n].source_key].version
<1>0. /\ DOMAIN table = NaturalKeys
      /\ \A n \in NaturalKeys :
            /\ table[n].time \in Nat
            /\ table[n] # NoRow =>
                  /\ table[n].source_key \in Keys /\ natural_key[table[n].source_key] = n
                  /\ table[n].version \in 1..object[table[n].source_key].version
      /\ \A k \in Keys : /\ object[k].version \in Nat /\ object'[k].version \in Nat
                         /\ object'[k].version >= object[k].version
  BY ObjectsStep DEF RollupInv, ShapeOK, TypeOK
<1>1. \A n \in NaturalKeys : table[n] # NoRow =>
         table[n].version \in 1..object'[table[n].source_key].version
  BY <1>0
<1>2. CASE UNCHANGED table
  BY <1>0, <1>1, <1>2
<1>3. ASSUME NEW staged, NEW at, table' = Merged(staged, at), \A r \in staged : RowRead(r)
      PROVE  /\ DOMAIN table' = NaturalKeys
             /\ \A n \in NaturalKeys :
                   /\ table'[n].time \in Nat /\ table'[n].time >= table[n].time
                   /\ table'[n] # NoRow =>
                         /\ table'[n].source_key \in Keys /\ natural_key[table'[n].source_key] = n
                         /\ table'[n].version \in 1..object'[table'[n].source_key].version
  <2>1. /\ DOMAIN table' = NaturalKeys
        /\ \A n \in NaturalKeys :
              /\ table'[n].time \in Nat /\ table'[n].time >= table[n].time
              /\ table'[n] = table[n] \/ \E r \in RowsOf(n, staged) : table'[n] = RolledUp(r, at)
    BY <1>0, <1>3, MergeRaises
  <2>2. ASSUME NEW n \in NaturalKeys, NEW r \in RowsOf(n, staged), table'[n] = RolledUp(r, at)
        PROVE  /\ table'[n].source_key \in Keys /\ natural_key[table'[n].source_key] = n
               /\ table'[n].version \in 1..object'[table'[n].source_key].version
    <3>1. table'[n].source_key = r.source_key /\ table'[n].version = r.version
      BY <2>2 DEF RolledUp
    <3>2. RowRead(r)' /\ natural_key[r.source_key] = n
      BY <1>3, RowsStayRead DEF RowsOf
    <3> QED
      BY <3>1, <3>2 DEF RowRead
  <2> QED
    BY <1>0, <1>1, <2>1, <2>2
<1>4. /\ \A r \in rows : RowRead(r)
      /\ \A q \in orphans : \A r \in q.rows : RowRead(r)
  BY DEF RollupInv, ShapeOK
<1> QED
  BY <1>2, <1>3, <1>4, TableChanges

-----------------------------------------------------------------------------
(* Faults, chains and messages *)

\* A step only moves faults within the bound, and sets a message aside only with
\* a fault: a receive sets none aside.
LEMMA FaultsStep ==
    ASSUME RollupInv, [Next]_vars
    PROVE  faults' \in 0..MaxFaults /\ NoneAbandoned'
<1>0. faults \in 0..MaxFaults /\ MaxFaults \in Nat /\ (faults = 0 => abandoned = {})
  BY RollupAssumption DEF RollupInv, ShapeOK, NoneAbandoned
<1>1. CASE Drain
  BY <1>0, <1>1, DrainFacts DEF Drain, NoneAbandoned
<1>2. CASE ~Drain
  <2>1. Fault \/ (UNCHANGED faults /\ abandoned' \subseteq abandoned)
    BY <1>2 DEF Next, Writes, WriteObject, SQS, Reappear, Redrive, Reconcile, StartReconcile, EnqueuePage,
       ResumeReconcile, FailReconcile, TakeInventory, Rollup, StartScheduled, StartChained, Start,
       EndDrain, Fetch, StartMerge, NothingFetched, CommitMerge, DeleteMessages, Check, Faults,
       FailMerge, Crash, DeleteObject, EndOrphan, vars, messages
  <2> QED
    BY <1>0, <2>1 DEF Fault, NoneAbandoned
<1> QED
  BY <1>1, <1>2

\* Keys drained are keys.
LEMMA FetchingStep ==
    ASSUME RollupInv, [Next]_vars
    PROVE  fetching' \subseteq Keys
<1>0. fetching \subseteq Keys /\ \A m \in queue : m.key \in Keys
  BY DEF RollupInv, ShapeOK, TypeOK, MessageType
<1>1. CASE Drain
  BY <1>0, <1>1, DrainFacts DEF Receivable
<1>2. CASE ~Drain
  <2>1. fetching' \subseteq fetching
    BY <1>2 DEF Next, Writes, WriteObject, SQS, Reappear, Redrive, Reconcile, StartReconcile,
       EnqueuePage, ResumeReconcile, FailReconcile, TakeInventory, Rollup, StartScheduled,
       StartChained, Start, EndDrain, Fetch, StartMerge, NothingFetched, CommitMerge,
       DeleteMessages, Check, Faults, FailMerge, Crash, Idle, DeleteObject, EndOrphan, vars,
       invocation
  <2> QED
    BY <1>0, <2>1
<1> QED
  BY <1>1, <1>2


\* Versions lost, keys dead-lettered and pages are of objects, and chains end.
LEMMA BoundsStep ==
    ASSUME RollupInv, [Next]_vars
    PROVE  /\ dlq' \subseteq Keys /\ lost' \subseteq Keys \X Nat /\ pages' \subseteq Keys
           /\ {depth', page_depth'} \cup chain' \subseteq 0..max_depth - 1
<1>0. /\ dlq \subseteq Keys /\ lost \subseteq Keys \X Nat /\ pages \subseteq Keys
      /\ {depth, page_depth} \cup chain \subseteq 0..max_depth - 1
      /\ \A m \in queue : m.key \in Keys
      /\ max_depth \in Nat /\ max_depth >= 1
  BY RollupAssumption DEF RollupInv, TypeOK, MessageType
<1>1. CASE UNCHANGED <<dlq, lost, pages, depth, page_depth, chain>>
  BY <1>0, <1>1
<1>2. ASSUME NEW k \in Keys, WriteObject(k)
      PROVE  lost' \subseteq Keys \X Nat /\ UNCHANGED <<dlq, pages, depth, page_depth, chain>>
  <2>1. object'[k].version \in Nat
    BY ObjectsStep
  <2> QED
    BY <1>0, <1>2, <2>1 DEF WriteObject, invocation, reconcile
<1>3. ASSUME NEW m \in queue, Redrive(m)
      PROVE  dlq' \subseteq Keys /\ UNCHANGED <<lost, pages, depth, page_depth, chain>>
  BY <1>0, <1>3 DEF Redrive, invocation, reconcile
<1>4. CASE StartScheduled \/ StartChained
  BY <1>0, <1>4 DEF StartScheduled, StartChained, Start, messages, reconcile
<1>5. CASE Check
  BY <1>0, <1>5 DEF Check, MayChain, Idle, messages, reconcile
<1>6. CASE StartReconcile \/ EnqueuePage \/ ResumeReconcile \/ FailReconcile
  BY <1>0, <1>6 DEF StartReconcile, Drift, EnqueuePage, ResumeReconcile, FailReconcile, MayChain,
     EndReconcile, messages, invocation
<1>7. CASE FailMerge \/ Crash
  BY <1>0, <1>7 DEF FailMerge, Crash, Idle, messages, reconcile
<1>8. ASSUME \/ TakeInventory \/ Drain \/ EndDrain \/ StartMerge \/ NothingFetched \/ CommitMerge
             \/ DeleteMessages \/ UNCHANGED vars
             \/ \E m \in queue \cup abandoned : Reappear(m)
             \/ \E k \in Keys : Fetch(k) \/ DeleteObject(k)
             \/ \E q \in orphans : EndOrphan(q)
      PROVE  UNCHANGED <<dlq, lost, pages, depth, page_depth, chain>>
  BY <1>8 DEF TakeInventory, Drain, EndDrain, StartMerge, NothingFetched, CommitMerge,
     DeleteMessages, Reappear, Fetch, DeleteObject, EndOrphan, vars, messages, invocation, reconcile
<1>9. ASSUME NEW m, Redrive(m) PROVE m \in queue
  BY <1>9 DEF Redrive
<1> QED
  BY <1>0, <1>1, <1>2, <1>3, <1>4, <1>5, <1>6, <1>7, <1>8, <1>9
     DEF Next, Writes, SQS, Rollup, Reconcile, Faults

\* Messages keep ids of their own, and a message is in one place, whatever is
\* sent, received, redriven, given up or deleted.
LEMMA MessagesStep ==
    ASSUME RollupInv, [Next]_vars
    PROVE  MessagesOK'
<1>0. MessagesOK
  BY MessagesOfInv
<1>1. CASE UNCHANGED <<queue, abandoned, drained>>
  BY <1>0, <1>1, MessagesMoved DEF InFlight, MessagesOK
<1>2. ASSUME NEW keys, keys \subseteq Keys, queue' = Sent(keys), UNCHANGED <<abandoned, drained>>
      PROVE  MessagesOK'
  BY <1>0, <1>2, SentMessages
<1>3. ASSUME NEW k \in Keys, WriteObject(k) PROVE MessagesOK'
  <2>1. UNCHANGED <<abandoned, drained>> /\ (queue' = queue \/ queue' = Sent({k}))
    BY <1>3 DEF WriteObject, invocation
  <2> QED
    BY <1>1, <1>2, <2>1
<1>4. CASE EnqueuePage
  <2>1. PICK page \in SUBSET pages : queue' = Sent(page)
    BY <1>4 DEF EnqueuePage
  <2>2. page \subseteq Keys /\ UNCHANGED <<abandoned, drained>>
    BY <1>4, <2>1 DEF EnqueuePage, invocation, RollupInv, TypeOK
  <2> QED
    BY <1>2, <2>1, <2>2
<1>5. CASE Drain
  <2>1. PICK batch \in SUBSET Receivable :
           /\ queue' = queue \ batch /\ drained' = drained \cup Receives(batch)
           /\ abandoned' = abandoned
    BY <1>5, DrainFacts
  <2> QED
    BY <1>0, <2>1, ReceivedMessages
<1>6. ASSUME NEW m, Reappear(m) \/ Redrive(m) PROVE MessagesOK'
  BY <1>0, <1>6, MessagesMoved DEF Reappear, Redrive, invocation, InFlight, MessagesOK
<1>7. CASE FailMerge \/ Crash \/ Check
  BY <1>0, <1>7, MessagesMoved DEF FailMerge, Crash, Check, Idle, messages, InFlight, MessagesOK
<1>8. CASE DeleteMessages
  BY <1>0, <1>8, MessagesMoved DEF DeleteMessages, InFlight, MessagesOK
<1>9. ASSUME \/ TakeInventory \/ StartScheduled \/ StartChained \/ EndDrain \/ StartMerge
             \/ NothingFetched \/ CommitMerge \/ StartReconcile \/ ResumeReconcile
             \/ FailReconcile \/ UNCHANGED vars
             \/ \E k \in Keys : Fetch(k) \/ DeleteObject(k)
             \/ \E q \in orphans : EndOrphan(q)
      PROVE  UNCHANGED <<queue, abandoned, drained>>
  BY <1>9 DEF TakeInventory, StartScheduled, StartChained, Start, EndDrain, StartMerge,
     NothingFetched, CommitMerge, StartReconcile, ResumeReconcile, FailReconcile, Fetch,
     DeleteObject, EndOrphan, vars, messages, invocation
<1> QED
  BY <1>1, <1>3, <1>4, <1>5, <1>6, <1>7, <1>8, <1>9
     DEF Next, Writes, SQS, Rollup, Reconcile, Faults

-----------------------------------------------------------------------------
(* What is behind is on its way *)

\* MERGE is started with one row of each natural key, and only then.
LEMMA DedupedStep ==
    ASSUME RollupInv, [Next]_vars
    PROVE  MergeIsDeduped'
<1>1. CASE StartMerge
  <2>1. rows' \in Deduped(rows)
    BY <1>1 DEF StartMerge
  <2>2. \A n \in NaturalKeys : \A r, s \in RowsOf(n, rows') : r = s
    BY <2>1 DEF Deduped, RowsOf
  <2> QED
    BY <2>2 DEF MergeIsDeduped
<1>2. CASE pc' # "merge"
  BY <1>2 DEF MergeIsDeduped
<1>3. CASE pc' = pc /\ rows' = rows
  BY <1>3 DEF MergeIsDeduped, RollupInv
<1>4. ASSUME \/ StartScheduled \/ StartChained \/ Drain \/ EndDrain \/ NothingFetched \/ CommitMerge
             \/ DeleteMessages \/ Check \/ FailMerge \/ Crash \/ \E k \in Keys : Fetch(k)
      PROVE  pc' # "merge"
  BY <1>4 DEF StartScheduled, StartChained, Start, Drain, EndDrain, NothingFetched, CommitMerge,
     DeleteMessages, Check, FailMerge, Crash, Idle, Fetch
<1>5. ASSUME \/ Writes \/ SQS \/ Reconcile \/ TakeInventory \/ FailReconcile \/ UNCHANGED vars
             \/ \E k \in Keys : DeleteObject(k)
             \/ \E q \in orphans : EndOrphan(q)
      PROVE  pc' = pc /\ rows' = rows
  BY <1>5 DEF Writes, WriteObject, SQS, Reappear, Redrive, Reconcile, StartReconcile, EnqueuePage,
     ResumeReconcile, FailReconcile, TakeInventory, DeleteObject, EndOrphan, vars, invocation
<1> QED
  BY <1>1, <1>2, <1>3, <1>4, <1>5 DEF Next, Rollup, Faults

\* An object changes by being written, which queues its key or loses it, or by
\* being deleted.
LEMMA ObjectChanges ==
    ASSUME RollupInv, [Next]_vars, NEW k \in Keys
    PROVE  \/ WriteObject(k) /\ OnTheWay(k)'
           \/ /\ object'[k].version = object[k].version
              /\ object'[k].there => object[k].there
<1>0. MessagesOK /\ object \in [Keys -> [version : Nat, modified : Nat, there : BOOLEAN]]
  BY MessagesOfInv DEF RollupInv, ShapeOK
<1>1. CASE WriteObject(k)
  <2>1. CASE queue' = Sent({k})
    <3>1. UNCHANGED <<abandoned, drained>>
      BY <1>1 DEF WriteObject, invocation
    <3>2. \E m \in queue' : m.key = k
      BY <1>0, <2>1, <3>1, SentMessages
    <3> QED
      BY <1>1, <3>2 DEF OnTheWay
  <2>2. CASE lost' = lost \cup {<<k, object'[k].version>>}
    BY <1>1, <2>2 DEF OnTheWay, Unnotified
  <2> QED
    BY <1>1, <2>1, <2>2 DEF WriteObject
<1>2. ASSUME NEW j \in Keys, j # k, WriteObject(j) PROVE object'[k] = object[k]
  BY <1>0, <1>2 DEF WriteObject
<1>3. ASSUME NEW j \in Keys, DeleteObject(j)
      PROVE  object'[k].version = object[k].version /\ (object'[k].there => object[k].there)
  BY <1>0, <1>3 DEF DeleteObject
<1>4. ASSUME \/ SQS \/ Rollup \/ Reconcile \/ TakeInventory \/ FailMerge \/ Crash \/ FailReconcile
             \/ UNCHANGED vars \/ \E q \in orphans : EndOrphan(q)
      PROVE  object' = object
  BY <1>4 DEF SQS, Reappear, Redrive, Rollup, StartScheduled, StartChained, Start, Drain, EndDrain,
     Fetch, StartMerge, NothingFetched, CommitMerge, DeleteMessages, Check, Reconcile,
     StartReconcile, EnqueuePage, ResumeReconcile, TakeInventory, FailMerge, Crash,
     FailReconcile, EndOrphan, vars, storage
<1> QED
  BY <1>1, <1>2, <1>3, <1>4 DEF Next, Writes, Faults

\* The message of a key stays in a queue until it is drained or dead-lettered.
LEMMA OnTheWayStep ==
    ASSUME RollupInv, [Next]_vars, NEW k \in Keys, OnTheWay(k),
           object'[k].version = object[k].version
    PROVE  OnTheWay(k)' \/ InHand(k)'
<1>1. CASE /\ lost \subseteq lost' /\ dlq \subseteq dlq'
           /\ queue \cup abandoned \subseteq queue' \cup abandoned'
  BY <1>1 DEF OnTheWay, Unnotified
<1>2. CASE Drain
  <2>1. PICK batch \in SUBSET Receivable :
           /\ fetching' = fetching \cup {m.key : m \in batch}
           /\ queue' = queue \ batch
           /\ drained' = drained \cup Receives(batch)
           /\ abandoned' = abandoned
    BY <1>2, DrainFacts
  <2>2. UNCHANGED <<abandoned, dlq, lost>> /\ pc' = "drain"
    BY <1>2, <2>1 DEF Drain
  <2>3. DrainedKeys' = DrainedKeys \cup {m.key : m \in batch}
    BY <2>1, <2>2, MessagesOfInv, ReceivedMessages
  <2>4. CASE k \in {m.key : m \in batch}
    BY <2>1, <2>2, <2>3, <2>4 DEF InHand
  <2>5. CASE k \notin {m.key : m \in batch}
    BY <2>1, <2>2, <2>5 DEF OnTheWay, Unnotified
  <2> QED
    BY <2>4, <2>5
<1>3. ASSUME NEW m, Redrive(m) PROVE OnTheWay(k)'
  BY <1>3 DEF Redrive, OnTheWay, Unnotified
<1>4. ASSUME \/ Writes \/ Reconcile \/ TakeInventory \/ FailReconcile \/ UNCHANGED vars
             \/ StartScheduled \/ StartChained \/ EndDrain \/ StartMerge \/ NothingFetched
             \/ CommitMerge \/ DeleteMessages \/ Check \/ FailMerge \/ Crash
             \/ \E m \in queue \cup abandoned : Reappear(m)
             \/ \E j \in Keys : DeleteObject(j) \/ Fetch(j)
             \/ \E q \in orphans : EndOrphan(q)
      PROVE  /\ lost \subseteq lost' /\ dlq \subseteq dlq'
             /\ queue \cup abandoned \subseteq queue' \cup abandoned'
  BY <1>4 DEF Writes, WriteObject, Reconcile, StartReconcile, EnqueuePage, ResumeReconcile,
     FailReconcile, TakeInventory, StartScheduled, StartChained, Start, EndDrain, StartMerge,
     NothingFetched, CommitMerge, DeleteMessages, Check, FailMerge, Crash, Reappear, DeleteObject,
     Fetch, EndOrphan, vars, messages, Sent
<1> QED
  BY <1>1, <1>2, <1>3, <1>4 DEF Next, SQS, Rollup, Faults

\* What was drained is read, then staged, then merged; if the invocation dies
\* before that, its message comes back.
LEMMA InHandStep ==
    ASSUME RollupInv, [Next]_vars, NEW k \in Keys, InHand(k), Behind(k), Behind(k)',
           object'[k].version = object[k].version
    PROVE  OnTheWay(k)' \/ InHand(k)'
<1>0. /\ k \in DrainedKeys /\ LastEvent(k)' = LastEvent(k)
      /\ \/ pc \in {"drain", "fetch"} /\ k \in fetching
         \/ pc \in {"fetch", "merge"} /\ Carried(k)
  BY DEF InHand, LastEvent
<1>1. ASSUME drained \subseteq drained' PROVE k \in DrainedKeys'
  BY <1>0, <1>1 DEF DrainedKeys
<1>2. ASSUME rows \subseteq rows', Carried(k) PROVE Carried(k)'
  BY <1>0, <1>2 DEF Carried
<1>3. CASE UNCHANGED <<pc, drained, fetching, rows>>
  BY <1>0, <1>1, <1>2, <1>3 DEF InHand
<1>4. CASE Drain
  <2>1. /\ pc = "drain" /\ pc' = "drain" /\ fetching \subseteq fetching'
        /\ drained \subseteq drained'
    BY <1>4 DEF Drain, KeysWith
  <2> QED
    BY <1>0, <1>1, <2>1 DEF InHand
<1>5. CASE EndDrain
  BY <1>0, <1>1, <1>5 DEF EndDrain, InHand
<1>6. ASSUME NEW j \in Keys, Fetch(j) PROVE InHand(k)'
  <2>1. /\ pc = "fetch" /\ pc' = "fetch" /\ drained' = drained /\ fetching' = fetching \ {j}
        /\ rows \subseteq rows'
    BY <1>6 DEF Fetch
  <2>2. CASE k \in fetching /\ j = k
    <3>1. PICK r : r = [source_key |-> k, version |-> object[k].version,
                        time |-> EventTimes[k][object[k].version]]
      OBVIOUS
    <3>2. r \in rows'
      BY <1>6, <2>2, <3>1 DEF Fetch, Behind, Readable
    <3>3. natural_key[r.source_key] = natural_key[k] /\ r.time = LastEvent(k)
      BY <3>1 DEF LastEvent
    <3>4. LastEvent(k) \in Nat
      <4>1. object[k].version \in 1..Len(EventTimes[k]) /\ EventTimes[k] \in Seq(Nat \ {0})
        BY RollupAssumption DEF Behind, Readable, RollupInv, ShapeOK, TypeOK
      <4> QED
        BY <4>1 DEF LastEvent
    <3>5. Carried(k)'
      BY <1>0, <3>2, <3>3, <3>4 DEF Carried
    <3> QED
      BY <1>1, <2>1, <3>5 DEF InHand
  <2>3. CASE k \in fetching /\ j # k
    BY <1>1, <2>1, <2>3 DEF InHand
  <2>4. CASE Carried(k)
    BY <1>1, <1>2, <2>1, <2>4 DEF InHand
  <2> QED
    BY <1>0, <2>2, <2>3, <2>4
<1>7. CASE StartMerge
  <2>1. /\ pc = "fetch" /\ pc' = "merge" /\ fetching = {} /\ rows' \in Deduped(rows)
        /\ drained' = drained
    BY <1>7 DEF StartMerge
  <2>2. PICK r \in rows : natural_key[r.source_key] = natural_key[k] /\ r.time >= LastEvent(k)
    BY <1>0, <2>1 DEF Carried
  <2>3. PICK n \in NaturalKeys : n = natural_key[k]
    BY DEF NaturalKeys
  <2>4. r \in RowsOf(n, rows)
    BY <2>2, <2>3 DEF RowsOf
  <2>5. PICK s \in RowsOf(n, rows) : s \in RowsOf(n, rows') /\ r.time <= s.time
    BY <2>1, <2>4 DEF Deduped
  <2>6. r.time \in Nat /\ s.time \in Nat /\ LastEvent(k) \in Nat
    <3>1. RowRead(r) /\ RowRead(s)
      BY <2>2, <2>5 DEF RowsOf, RollupInv, ShapeOK
    <3>2. object[k].version \in 1..Len(EventTimes[k]) /\ EventTimes[k] \in Seq(Nat \ {0})
      BY RollupAssumption DEF Behind, Readable, RollupInv, ShapeOK, TypeOK
    <3> QED
      BY <3>1, <3>2 DEF RowRead, LastEvent
  <2>7. Carried(k)'
    BY <1>0, <2>2, <2>3, <2>5, <2>6 DEF Carried, RowsOf
  <2> QED
    BY <1>1, <2>1, <2>7 DEF InHand
<1>8. CASE NothingFetched
  BY <1>0, <1>8 DEF NothingFetched, Carried
<1>9. CASE CommitMerge
  <2>1. pc = "merge" /\ table' = Merged(rows, started)
    BY <1>9 DEF CommitMerge
  <2>2. PICK r \in rows : natural_key[r.source_key] = natural_key[k] /\ r.time >= LastEvent(k)
    BY <1>0, <2>1 DEF Carried
  <2>3. PICK n \in NaturalKeys : n = natural_key[k]
    BY DEF NaturalKeys
  <2>4. r \in RowsOf(n, rows) /\ \A s \in RowsOf(n, rows) : r = s
    BY <2>1, <2>2, <2>3 DEF RowsOf, RollupInv, MergeIsDeduped
  <2>5. table'[n].time >= r.time /\ table'[n].time \in Nat
    BY <2>1, <2>4, MergeRaises DEF RollupInv, ShapeOK
  <2>6. r.time \in Nat /\ LastEvent(k) \in Nat
    <3>1. RowRead(r)
      BY <2>2 DEF RollupInv, ShapeOK
    <3>2. object[k].version \in 1..Len(EventTimes[k]) /\ EventTimes[k] \in Seq(Nat \ {0})
      BY RollupAssumption DEF Behind, Readable, RollupInv, ShapeOK, TypeOK
    <3> QED
      BY <3>1, <3>2 DEF RowRead, LastEvent
  <2>7. table'[n].time < LastEvent(k)
    BY <1>0, <2>3 DEF Behind, Row
  <2> QED
    BY <2>2, <2>5, <2>6, <2>7
<1>10. CASE FailMerge \/ Crash
  <2>1. abandoned' = abandoned \cup drained
    BY <1>10 DEF FailMerge, Crash
  <2> QED
    BY <1>0, <2>1 DEF DrainedKeys, OnTheWay
<1>11. ASSUME StartScheduled \/ StartChained \/ DeleteMessages \/ Check
       PROVE  pc \in {"idle", "delete", "check"}
  BY <1>11 DEF StartScheduled, StartChained, Start, DeleteMessages, Check
<1>12. ASSUME \/ Writes \/ SQS \/ Reconcile \/ TakeInventory \/ FailReconcile \/ UNCHANGED vars
              \/ \E j \in Keys : DeleteObject(j)
              \/ \E q \in orphans : EndOrphan(q)
       PROVE  UNCHANGED <<pc, drained, fetching, rows>>
  BY <1>12 DEF Writes, WriteObject, SQS, Reappear, Redrive, Reconcile, StartReconcile, EnqueuePage,
     ResumeReconcile, FailReconcile, TakeInventory, DeleteObject, EndOrphan, vars, invocation
<1> QED
  BY <1>0, <1>3, <1>4, <1>5, <1>6, <1>7, <1>8, <1>9, <1>10, <1>11, <1>12 DEF Next, Rollup, Faults

\* A row falls behind only when its object is written, and then its key is queued
\* or lost; what is behind already stays on its way or in hand.
LEMMA BehindStep ==
    ASSUME RollupInv, [Next]_vars
    PROVE  BehindIsInHand'
<1> SUFFICES ASSUME NEW k \in Keys, Behind(k)'
             PROVE  OnTheWay(k)' \/ InHand(k)'
  BY DEF BehindIsInHand
<1>1. CASE OnTheWay(k)'
  BY <1>1
<1>2. CASE /\ object'[k].version = object[k].version
           /\ object'[k].there => object[k].there
  <2>1. PICK n \in NaturalKeys : n = natural_key[k]
    BY DEF NaturalKeys
  <2>2. table'[n].time \in Nat /\ table[n].time \in Nat /\ table'[n].time >= table[n].time
    BY TableStep DEF RollupInv, ShapeOK
  <2>3. LastEvent(k)' = LastEvent(k)
    BY <1>2 DEF LastEvent
  <2>4. object[k].there /\ Readable(k)
    BY <1>2 DEF Behind, Readable
  <2>5. LastEvent(k) \in Nat
    <3>1. object[k].version \in 1..Len(EventTimes[k]) /\ EventTimes[k] \in Seq(Nat \ {0})
      BY <2>4, RollupAssumption DEF RollupInv, ShapeOK, TypeOK
    <3> QED
      BY <3>1 DEF LastEvent
  <2>6. Behind(k)
    BY <2>1, <2>2, <2>3, <2>4, <2>5 DEF Behind, Row
  <2>7. OnTheWay(k) \/ InHand(k)
    BY <2>6 DEF RollupInv, BehindIsInHand
  <2> QED
    BY <1>2, <2>6, <2>7, OnTheWayStep, InHandStep
<1> QED
  BY <1>1, <1>2, ObjectChanges

-----------------------------------------------------------------------------
(* The promises *)

LEMMA RollupInitInv == Init => RollupInv
<1> SUFFICES ASSUME Init PROVE RollupInv
  OBVIOUS
<1>1. \A k \in Keys : /\ object[k].version \in {0, 1} /\ object[k].modified \in {0, 1}
                      /\ object[k].there \in BOOLEAN
                      /\ object[k].there => object[k].version = 1 /\ k \in Preexisting
                      /\ object[k].version = 1 => k \in Preexisting
  BY DEF Init
<1>2. object \in [Keys -> [version : Nat, modified : Nat, there : BOOLEAN]]
  BY DEF Init
<1>3. \A k \in Keys : object[k].version \in 0..Len(EventTimes[k]) /\ object[k].modified <= clock
  <2>1. \A k \in Keys : Len(EventTimes[k]) \in Nat
    BY RollupAssumption
  <2>2. \A k \in Preexisting : Len(EventTimes[k]) >= 1
    BY RollupAssumption
  <2> QED
    BY <1>1, <2>1, <2>2 DEF Init
<1>4. InFlight = {} /\ IsFiniteSet(InFlight)
  BY FS_EmptySet DEF Init, InFlight
<1>5. \A n \in NaturalKeys : table[n] = NoRow
  BY DEF Init
<1>6. NoRow.time = 0
  BY DEF NoRow
<1>7. TypeOK
  BY <1>3, <1>5, RollupAssumption DEF Init, TypeOK
<1>8. ShapeOK
  BY <1>1, <1>2, <1>4, <1>5, <1>6, RollupAssumption DEF Init, ShapeOK
<1>9. BehindIsInHand
  BY <1>1 DEF Init, BehindIsInHand, Behind, Readable, OnTheWay, Unnotified
<1>10. MergeIsDeduped /\ NoneAbandoned
  BY DEF Init, MergeIsDeduped, NoneAbandoned
<1> QED
  BY <1>7, <1>8, <1>9, <1>10 DEF RollupInv

LEMMA RollupInvStep ==
    ASSUME RollupInv, [Next]_vars
    PROVE  RollupInv'
<1>1. MessagesOK'
  BY MessagesStep
<1>2. TypeOK'
  BY <1>1, ObjectsStep, TableStep, BoundsStep DEF TypeOK, MessagesOK, InFlight
<1>3. ShapeOK'
  BY <1>1, ObjectsStep, TableStep, FaultsStep, FetchingStep, RowsStep DEF ShapeOK, MessagesOK
<1> QED
  BY <1>2, <1>3, DedupedStep, BehindStep, FaultsStep DEF RollupInv

\* Whatever is lost, fails or goes on in Athena, the rollup keeps its invariant.
THEOREM RollupInvariantHolds == Spec => []RollupInv
<1>1. RollupInv /\ [Next]_vars => RollupInv'
  BY RollupInvStep
<1> QED
  BY <1>1, RollupInitInv, PTL DEF Spec

\* Messages are in one place, rows are of versions written, chains are bounded.
THEOREM RollupTypeCorrect == Spec => []TypeOK
<1>1. RollupInv => TypeOK
  BY DEF RollupInv
<1> QED
  BY <1>1, RollupInvariantHolds, PTL

\* A row that is behind its object has a message on its way, or one that was lost
\* or dead-lettered: deleting what was drained never forgets a rewrite.
THEOREM BehindQueued == Spec => []BehindIsQueued
<1>1. RollupInv => BehindIsQueued
  BY DEF RollupInv, BehindIsInHand, BehindIsQueued, OnTheWay, InHand, DrainedKeys
<1> QED
  BY <1>1, RollupInvariantHolds, PTL

\* Without a fault no message is received and set aside: as many are asked for as
\* keys are still needed, and so the loop over them captures every receipt handle.
THEOREM NoneSetAside == Spec => []NoneAbandoned
<1>1. RollupInv => NoneAbandoned
  BY DEF RollupInv
<1> QED
  BY <1>1, RollupInvariantHolds, PTL

\* No MERGE, not even one whose invocation died long ago, replaces a row by one
\* of an earlier event.
THEOREM RowsNeverOlder == Spec => RowNeverOlder
<1>1. RollupInv /\ [Next]_vars => [\A n \in NaturalKeys : table'[n].time >= table[n].time]_vars
  BY TableStep
<1> QED
  BY <1>1, RollupInvariantHolds, PTL DEF Spec, RowNeverOlder
===============================================================================
