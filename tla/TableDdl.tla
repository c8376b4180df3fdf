------------------------------- MODULE TableDdl -------------------------------
(***************************************************************************)
(* records_table_ddl_handler.py: the custom resource that creates, alters  *)
(* and drops the Iceberg records table, one action per Glue or Athena call,*)
(* under a CloudFormation stack that is created, updated, rolled back and  *)
(* deleted.  A call can fail, with its effect or without it, and an ALTER  *)
(* can go on after the invocation that started it has given up.            *)
(*                                                                         *)
(* A version of the stack stands for the resource's properties and the     *)
(* code that is deployed with them: the table's name, the columns that     *)
(* records_columns declares, in order, and the removal policy.             *)
(***************************************************************************)
EXTENDS Naturals, Sequences, FiniteSets

CONSTANTS
    Versions,   \* what may be deployed
    MaxDeploys, \* bound: operations started on the stack
    MaxFaults   \* bound: calls and other resources that fail

Declared(v) == {v.columns[i] : i \in DOMAIN v.columns}
Tables == {v.table : v \in Versions}
Columns == UNION {Declared(v) : v \in Versions}
Names(cols) == {c.name : c \in cols}

\* Column names are declared once, and a table has columns.
ASSUME VersionsAssumption ==
    \A v \in Versions :
        /\ v.columns \in Seq(Declared(v)) /\ Declared(v) # {}
        /\ \A i, j \in DOMAIN v.columns : v.columns[i].name = v.columns[j].name => i = j
        /\ v.destroy \in BOOLEAN

ASSUME BoundsAssumption == MaxDeploys \in Nat /\ MaxFaults \in Nat

NoVersion == [table |-> "none", columns |-> <<>>, destroy |-> FALSE]
ASSUME NoVersionAssumption == NoVersion \notin Versions /\ "none" \notin Tables

VARIABLES
    tables,   \* the columns each table has in the Glue catalog, {} for no table
    stack,    \* the version that is deployed
    phase,    \* what CloudFormation is doing
    target,   \* the version the current operation moves to
    answered, \* whether the handler returned before the rollback began
    adopted,  \* whether the deployed version's Create found a table there
    pc,       \* the handler's next call, or how it ended
    req,      \* the version whose properties the request carries
    old,      \* the columns GetTable returned
    next,     \* index of the column to look at next
    orphans,  \* ALTERs that outlived their invocation
    deploys, faults

request == <<pc, req, old, next>>
operation == <<stack, phase, target, answered, adopted, deploys>>
ddl_vars == <<tables, operation, request, orphans, faults>>

Fault == faults < MaxFaults /\ faults' = faults + 1

-----------------------------------------------------------------------------
(* The handler *)

\* The first call for a request: the handler's branches on RequestType.
Request(type, v) ==
    /\ req' = v
    /\ pc' = CASE type = "Create" -> "create"
               [] type = "Update" -> "read"
               [] type = "Delete" -> IF v.destroy THEN "drop" ELSE "returned"
    /\ old' = {} /\ next' = 1

\* Mutant: a column that kept its name is not compared.
IncompatibleByName(live, v) == \E c \in live : c.name \notin Names(Declared(v))

\* A deployed column that the new schema lacks, or has under another type.
Incompatible(live, v) == ~(live \subseteq Declared(v))

\* Mutant: a table that is not in the catalog has no columns to compare.
ReadColumnsOfNone ==
    /\ pc = "read"
    /\ old' = tables[req.table]
    /\ pc' = IF Incompatible(tables[req.table], req) THEN "raised" ELSE "alter"
    /\ UNCHANGED <<tables, operation, req, next, orphans, faults>>

\* _deployed_columns, and the check at the head of added_column_sql.
ReadColumns ==
    /\ pc = "read"
    /\ old' = tables[req.table]
    /\ pc' = IF tables[req.table] = {} THEN "create"
             ELSE IF Incompatible(tables[req.table], req) THEN "raised" ELSE "alter"
    /\ UNCHANGED <<tables, operation, req, next, orphans, faults>>

\* CREATE TABLE IF NOT EXISTS.
Created == IF tables[req.table] = {} THEN Declared(req) ELSE tables[req.table]
CreateTable ==
    /\ pc = "create"
    /\ tables' = [tables EXCEPT ![req.table] = Created]
    /\ pc' = "returned"
    /\ UNCHANGED <<operation, req, old, next, orphans, faults>>

\* Mutant: a statement for every declared column.
AddedAll == {i \in DOMAIN req.columns : i >= next}

\* The statements of added_column_sql that have not run yet.
Added == {i \in DOMAIN req.columns : i >= next /\ req.columns[i].name \notin Names(old)}
NextAdded(i) == i \in Added /\ \A j \in Added : i <= j

\* One ALTER TABLE ADD COLUMNS; Athena rejects a column that is there, and a
\* table that is not.
AlterTable ==
    /\ pc = "alter"
    /\ \E i \in DOMAIN req.columns :
        /\ NextAdded(i)
        /\ IF tables[req.table] = {} \/ req.columns[i].name \in Names(tables[req.table])
           THEN pc' = "raised" /\ UNCHANGED <<tables, next>>
           ELSE /\ tables' = [tables EXCEPT ![req.table] = @ \cup {req.columns[i]}]
                /\ next' = i + 1
                /\ UNCHANGED pc
    /\ UNCHANGED <<operation, req, old, orphans, faults>>

EndAlter ==
    /\ pc = "alter" /\ Added = {}
    /\ pc' = "returned"
    /\ UNCHANGED <<tables, operation, req, old, next, orphans, faults>>

DropTable ==
    /\ pc = "drop"
    /\ tables' = [tables EXCEPT ![req.table] = {}]
    /\ pc' = "returned"
    /\ UNCHANGED <<operation, req, old, next, orphans, faults>>

\* A call raises, or the function times out while run_query polls: a CREATE or
\* DROP may have taken effect, an ALTER may still do so later.
FailCall ==
    /\ pc \in {"read", "create", "alter", "drop"}
    /\ Fault
    /\ pc' = "raised"
    /\ \/ UNCHANGED <<tables, orphans>>
       \/ /\ pc = "create" /\ tables' = [tables EXCEPT ![req.table] = Created]
          /\ UNCHANGED orphans
       \/ /\ pc = "drop" /\ tables' = [tables EXCEPT ![req.table] = {}]
          /\ UNCHANGED orphans
       \/ /\ pc = "alter"
          /\ \E i \in DOMAIN req.columns :
                /\ NextAdded(i)
                /\ orphans' = orphans \cup {[table |-> req.table, column |-> req.columns[i]]}
          /\ UNCHANGED tables
    /\ UNCHANGED <<operation, req, old, next>>

\* The ALTER ends: with its effect where it still can have one.
EndOrphan(o) ==
    /\ orphans' = orphans \ {o}
    /\ \/ UNCHANGED tables
       \/ /\ tables[o.table] # {} /\ o.column.name \notin Names(tables[o.table])
          /\ tables' = [tables EXCEPT ![o.table] = @ \cup {o.column}]
    /\ UNCHANGED <<operation, request, faults>>

Handler ==
    ReadColumns \/ CreateTable \/ AlterTable \/ EndAlter \/ DropTable \/ FailCall

-----------------------------------------------------------------------------
(* CloudFormation *)

\* Mutant: the physical id is not stable across updates.
ReplacesAlways(v, w) == v # w

\* A new physical resource id makes an update a replacement, after which the
\* resource with the old id is deleted.
Replaces(v, w) == v.table # w.table

Answer == pc' = "idle" /\ UNCHANGED <<req, old, next>>

\* cdk deploy.
Deploy(v) ==
    /\ phase = "idle" /\ v # stack /\ deploys < MaxDeploys
    /\ deploys' = deploys + 1
    /\ target' = v /\ answered' = FALSE
    /\ IF stack = NoVersion
       THEN /\ phase' = "create" /\ Request("Create", v)
            /\ adopted' = (tables[v.table] # {})
       ELSE phase' = "update" /\ Request("Update", v) /\ UNCHANGED adopted
    /\ UNCHANGED <<tables, stack, orphans, faults>>

DeleteStack ==
    /\ phase \in {"idle", "delete_failed"} /\ stack # NoVersion /\ deploys < MaxDeploys
    /\ deploys' = deploys + 1
    /\ phase' = "delete" /\ Request("Delete", stack)
    /\ UNCHANGED <<tables, stack, target, answered, adopted, orphans, faults>>

\* The resource is done, and so is the rest of the stack.
Complete ==
    /\ phase \in {"create", "update"} /\ pc = "returned"
    /\ stack' = target
    /\ adopted' = (phase = "create" /\ adopted)
    /\ IF phase = "update" /\ Replaces(stack, target)
       THEN phase' = "cleanup" /\ Request("Delete", stack)
       ELSE phase' = "idle" /\ Answer
    /\ UNCHANGED <<tables, target, answered, deploys, orphans, faults>>

\* The handler raised, or it returned and another resource failed.  The CDK's
\* provider framework ignores the Delete of a resource whose Create failed.
RollBack ==
    /\ phase \in {"create", "update"}
    /\ \/ pc = "raised" /\ UNCHANGED faults
       \/ pc = "returned" /\ Fault
    /\ IF phase = "update"
       THEN /\ phase' = "rollback" /\ Request("Update", stack)
            /\ answered' = (pc = "returned")
       ELSE /\ IF pc = "raised" THEN phase' = "idle" /\ Answer
               ELSE phase' = "cleanup" /\ Request("Delete", target)
            /\ UNCHANGED answered
    /\ UNCHANGED <<tables, stack, target, adopted, deploys, orphans>>

\* The old version is back, or UPDATE_ROLLBACK_FAILED.
EndRollBack ==
    /\ phase = "rollback" /\ pc \in {"returned", "raised"}
    /\ adopted' = (adopted /\ pc = "raised")
    /\ IF pc = "raised" THEN phase' = "stuck" /\ Answer
       ELSE IF answered /\ Replaces(stack, target)
       THEN phase' = "cleanup" /\ Request("Delete", target)
       ELSE phase' = "idle" /\ Answer
    /\ UNCHANGED <<tables, stack, target, answered, deploys, orphans, faults>>

\* An operator continues the rollback, or has it skip the resource.
Unstick ==
    /\ phase = "stuck"
    /\ \/ /\ deploys < MaxDeploys /\ deploys' = deploys + 1
          /\ phase' = "rollback" /\ Request("Update", stack)
       \/ phase' = "idle" /\ UNCHANGED <<deploys, request>>
    /\ UNCHANGED <<tables, stack, target, answered, adopted, orphans, faults>>

EndCleanup ==
    /\ phase = "cleanup" /\ pc \in {"returned", "raised"}
    /\ phase' = "idle" /\ Answer
    /\ UNCHANGED <<tables, stack, target, answered, adopted, deploys, orphans, faults>>

EndDelete ==
    /\ phase = "delete" /\ pc \in {"returned", "raised"}
    /\ IF pc = "returned"
       THEN stack' = NoVersion /\ phase' = "idle" /\ adopted' = FALSE
       ELSE phase' = "delete_failed" /\ UNCHANGED <<stack, adopted>>
    /\ Answer
    /\ UNCHANGED <<tables, target, answered, deploys, orphans, faults>>

CloudFormation ==
    \/ (\E v \in Versions : Deploy(v)) \/ DeleteStack \/ Complete \/ RollBack
    \/ EndRollBack \/ Unstick \/ EndCleanup \/ EndDelete

-----------------------------------------------------------------------------
DdlInit ==
    /\ tables = [t \in Tables |-> {}]
    /\ stack = NoVersion /\ phase = "idle" /\ target = NoVersion
    /\ answered = FALSE /\ adopted = FALSE
    /\ pc = "idle" /\ req = NoVersion /\ old = {} /\ next = 1
    /\ orphans = {} /\ deploys = 0 /\ faults = 0

\* Nobody has an operation left to start.
Settled == phase \in {"idle", "delete_failed"} /\ deploys = MaxDeploys

DdlNext ==
    \/ Handler \/ CloudFormation
    \/ \E o \in orphans : EndOrphan(o)
    \/ Settled /\ UNCHANGED ddl_vars

DdlSpec == DdlInit /\ [][DdlNext]_ddl_vars

-----------------------------------------------------------------------------
(* Properties *)

Phases == {"idle", "create", "update", "rollback", "stuck", "cleanup", "delete",
           "delete_failed"}
Calls == {"read", "create", "alter", "drop"}

\* Every variable holds a value of its type; a table never has two columns of
\* one name, and statements run only against columns that GetTable returned.
DdlTypeOK ==
    /\ tables \in [Tables -> SUBSET Columns]
    /\ \A t \in Tables : \A c, d \in tables[t] : c.name = d.name => c = d
    /\ stack \in Versions \cup {NoVersion} /\ target \in Versions \cup {NoVersion}
    /\ phase \in Phases
    /\ answered \in BOOLEAN /\ adopted \in BOOLEAN
    /\ pc \in Calls \cup {"idle", "returned", "raised"}
    /\ req \in Versions \cup {NoVersion} /\ (pc # "idle" => req \in Versions)
    /\ old \subseteq Columns /\ (pc = "alter" => old # {})
    /\ next \in Nat
    /\ orphans \subseteq [table : Tables, column : Columns]
    /\ deploys \in 0..MaxDeploys /\ faults \in 0..MaxFaults

\* Between operations the table of the deployed version has every column that
\* version declares, with its type: the rollup's MERGE names them all.  Not so
\* for a table that CREATE TABLE IF NOT EXISTS found there, which keeps the
\* columns it had until the next update compares them.
DeclaredIsLive ==
    phase = "idle" /\ stack # NoVersion /\ ~adopted
        => Declared(stack) \subseteq tables[stack.table]

\* The deployed version's table is dropped by the deletion of the stack alone,
\* never by the clean-up after an update or a rollback ("The physical resource
\* id, stable across updates").
TableOfStackIsKept ==
    [][\A v \in Versions :
        v = stack /\ tables[v.table] # {} /\ tables'[v.table] = {} => phase = "delete"]_ddl_vars

\* An update the handler rejects leaves the table as its rollback needs it: the
\* rollback gets stuck only after a failed call or another resource's failure,
\* or over an adopted table that fits neither version.
RejectedUpdateRollsBack == phase = "stuck" /\ faults = 0 => adopted
===============================================================================
