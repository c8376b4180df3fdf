---------------------------- MODULE EntityTracking ----------------------------
(***************************************************************************)
(* What the job monitor promises, without pointers, calls or invocations.  *)
(*                                                                         *)
(* An entity attains levels, and a level once attained stays attained.  An *)
(* event is acknowledged only when all its entities have attained its      *)
(* level, and a failure owed to a queue only when it was notified there or *)
(* a later attempt has superseded it.  A notification is only sent for a   *)
(* failure that is owed one, after its entities have attained its level.   *)
(***************************************************************************)
EXTENDS Naturals, Sequences

CONSTANTS
    Entities, Events,
    Levels,             \* the levels an entity can attain
    LevelOf(_),         \* the level an event reports
    SupersededLevel(_), \* the level at which a later attempt has begun
    Owed(_)             \* whether an event is a failure owed to a queue

VARIABLES
    attained,    \* the levels each entity has attained
    notified,    \* failures sent to a queue
    acknowledged \* events the monitor has accepted

vars == <<attained, notified, acknowledged>>

Init ==
    /\ attained = [e \in Entities |-> {}]
    /\ notified = {}
    /\ acknowledged = {}

Attained(ev, l) == \A k \in DOMAIN ev.group : l \in attained[ev.group[k]]
Superseded(ev) ==
    \A k \in DOMAIN ev.group : \E l \in attained[ev.group[k]] : l >= SupersededLevel(ev)

Advance(e) ==
    /\ \E L \in SUBSET Levels :
          attained[e] \subseteq L /\ attained' = [attained EXCEPT ![e] = L]
    /\ UNCHANGED <<notified, acknowledged>>

Notify(ev) ==
    /\ Owed(ev)
    /\ Attained(ev, LevelOf(ev))
    /\ notified' = notified \cup {ev}
    /\ UNCHANGED <<attained, acknowledged>>

Acknowledge(ev) ==
    /\ Attained(ev, LevelOf(ev))
    /\ Owed(ev) => ev \in notified \/ Superseded(ev)
    /\ acknowledged' = acknowledged \cup {ev}
    /\ UNCHANGED <<attained, notified>>

Next ==
    \/ \E e \in Entities : Advance(e)
    \/ \E ev \in Events : Notify(ev) \/ Acknowledge(ev)

Spec == Init /\ [][Next]_vars
===============================================================================
