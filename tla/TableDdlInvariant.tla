-------------------------- MODULE TableDdlInvariant --------------------------
(***************************************************************************)
(* The inductive invariant from which TableDdl's promises follow.          *)
(***************************************************************************)
EXTENDS TableDdl

\* The columns of the request's table.
Live == tables[req.table]

\* What the phase of the operation says of the handler's request.
RequestFits ==
    /\ pc = "idle" <=> phase \in {"idle", "stuck", "delete_failed"}
    /\ phase = "create" =>
          stack = NoVersion /\ target \in Versions /\ req = target
          /\ pc \in {"create", "returned", "raised"}
    /\ phase = "update" =>
          stack \in Versions /\ target \in Versions /\ req = target
          /\ pc \in {"read", "create", "alter", "returned", "raised"}
    /\ phase = "rollback" =>
          stack \in Versions /\ target \in Versions /\ req = stack
          /\ pc \in {"read", "create", "alter", "returned", "raised"}
    /\ phase = "stuck" => stack \in Versions /\ target \in Versions
    /\ phase = "cleanup" => req.table # stack.table /\ pc \in {"drop", "returned", "raised"}
    /\ phase = "delete" =>
          stack \in Versions /\ req = stack /\ pc \in {"drop", "returned", "raised"}
    /\ phase = "delete_failed" => stack \in Versions

\* The request is to bring the table to a version's columns: not a clean-up, nor
\* the Create of a stack that found a table there.
ToDeclared == phase \in {"update", "rollback"} \/ (phase = "create" /\ ~adopted)

\* A table that is about to be created is not there, unless the stack's Create
\* found it: an ALTER left over cannot bring a table back.
CreatesAfresh == pc = "create" /\ ToDeclared => Live = {}

\* Between two ALTERs the table has what GetTable returned and each column whose
\* statement has run.
AddsInOrder ==
    /\ pc = "read" => next = 1
    /\ pc = "alter" =>
        /\ old # {} /\ old \subseteq Declared(req) /\ old \subseteq Live
        /\ \A i \in DOMAIN req.columns :
              i < next /\ req.columns[i].name \notin Names(old) => req.columns[i] \in Live

\* When the handler returns, the table has every column that was asked for.
ReturnsLive ==
    pc = "returned" /\ ToDeclared => Declared(req) \subseteq Live

\* The deployed version's columns are there, whatever is going on.
StackIsLive ==
    stack \in Versions /\ ~adopted /\ phase \notin {"delete", "delete_failed"}
        => Declared(stack) \subseteq tables[stack.table]

\* Until a call has failed, no ALTER is left over, and a table has no column
\* besides those of the version it is at or on its way to.
Faultless ==
    faults = 0 =>
        /\ orphans = {}
        /\ pc = "alter" =>
              Live = old \cup {req.columns[i] : i \in {j \in DOMAIN req.columns :
                                  j < next /\ req.columns[j].name \notin Names(old)}}
        /\ pc = "returned" /\ ToDeclared => Live \subseteq Declared(req)
        /\ /\ stack \in Versions /\ ~adopted /\ phase \notin {"delete", "delete_failed"}
           /\ ~(phase = "update" /\ pc \in {"create", "alter", "returned"})
           => tables[stack.table] \subseteq Declared(stack)
        /\ phase = "rollback" /\ pc = "raised" => adopted
        /\ phase = "stuck" => adopted

DdlInv ==
    /\ DdlTypeOK /\ RequestFits /\ CreatesAfresh /\ AddsInOrder
    /\ ReturnsLive /\ StackIsLive /\ Faultless
===============================================================================
