------------------------ MODULE RecordsRollupInvariant ------------------------
(***************************************************************************)
(* The inductive invariant from which RecordsRollup's promises follow.     *)
(***************************************************************************)
EXTENDS RecordsRollup

InFlight == queue \cup abandoned \cup drained
DrainedKeys == {m.key : m \in drained}

\* A row was read from a version of its object.
RowRead(r) ==
    /\ r.source_key \in Keys /\ r.version \in 1..object[r.source_key].version
    /\ r.time \in Nat \ {0}

\* What the proofs need of the shape of the values.
ShapeOK ==
    /\ clock \in Nat /\ faults \in 0..MaxFaults /\ fetching \subseteq Keys
    /\ object \in [Keys -> [version : Nat, modified : Nat, there : BOOLEAN]]
    /\ \A k \in Keys : object[k].there => object[k].version >= 1
    /\ IsFiniteSet(InFlight)
    /\ \A m \in InFlight : m = [key |-> m.key, id |-> m.id, receives |-> m.receives]
    /\ queue \cap abandoned = {} /\ queue \cap drained = {} /\ abandoned \cap drained = {}
    /\ DOMAIN table = NaturalKeys
    /\ \A n \in NaturalKeys :
          table[n].time \in Nat /\ (table[n] # NoRow => table[n].source_key \in Keys)
    /\ \A r \in rows : RowRead(r)
    /\ \A q \in orphans : \A r \in q.rows : RowRead(r)

\* MERGE is given one row of each natural key.
MergeIsDeduped ==
    pc = "merge" => \A n \in NaturalKeys : \A r, s \in RowsOf(n, rows) : r = s

\* The key of an object is in a queue, or was lost on its way to one.
OnTheWay(k) == Unnotified(k) \/ k \in dlq \/ \E m \in queue \cup abandoned : m.key = k

\* The rollup has drained key k, and has yet to read its object, or to merge a
\* row that is as late.
Carried(k) ==
    \E r \in rows : natural_key[r.source_key] = natural_key[k] /\ r.time >= LastEvent(k)
InHand(k) ==
    /\ k \in DrainedKeys
    /\ \/ pc \in {"drain", "fetch"} /\ k \in fetching
       \/ pc \in {"fetch", "merge"} /\ Carried(k)

\* A message drained is not enough: it is deleted after the MERGE, so what it
\* stands for must be in the rows that are merged.
BehindIsInHand == \A k \in Keys : Behind(k) => OnTheWay(k) \/ InHand(k)

RollupInv == TypeOK /\ ShapeOK /\ MergeIsDeduped /\ BehindIsInHand /\ NoneAbandoned
===============================================================================
