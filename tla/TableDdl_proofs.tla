--------------------------- MODULE TableDdl_proofs ---------------------------
(***************************************************************************)
(* Proofs about TableDdl, for all versions that satisfy its assumptions    *)
(* and any number of deployments and faults.                               *)
(***************************************************************************)
EXTENDS TableDdlInvariant, TLAPS

-----------------------------------------------------------------------------
(* Constants *)

\* A version's columns are a set without two of one name, and not empty.
LEMMA VersionFacts ==
    ASSUME NEW v \in Versions
    PROVE  /\ v.table \in Tables /\ v # NoVersion /\ v.table # "none"
           /\ DOMAIN v.columns \subseteq Nat \ {0}
           /\ \A i \in DOMAIN v.columns : v.columns[i] \in Declared(v)
           /\ Declared(v) \subseteq Columns /\ Declared(v) # {}
           /\ \A c, d \in Declared(v) : c.name = d.name => c = d
           /\ \A i, j \in DOMAIN v.columns : v.columns[i].name = v.columns[j].name => i = j
           /\ \A c \in Declared(v) : \E i \in DOMAIN v.columns : v.columns[i] = c
           /\ v.destroy \in BOOLEAN
<1>1. v.table \in Tables /\ v # NoVersion /\ v.table # "none"
  BY NoVersionAssumption DEF Tables
<1>2. v.columns \in Seq(Declared(v)) /\ Declared(v) # {} /\ v.destroy \in BOOLEAN
  BY VersionsAssumption
<1>3. DOMAIN v.columns = 1..Len(v.columns) /\ Len(v.columns) \in Nat
  BY <1>2
<1>4. \A i, j \in DOMAIN v.columns : v.columns[i].name = v.columns[j].name => i = j
  BY VersionsAssumption
<1>5. Declared(v) \subseteq Columns
  BY DEF Columns
<1>6. /\ \A i \in DOMAIN v.columns : v.columns[i] \in Declared(v)
      /\ \A c \in Declared(v) : \E i \in DOMAIN v.columns : v.columns[i] = c
  BY DEF Declared
<1>7. \A c, d \in Declared(v) : c.name = d.name => c = d
  BY <1>4, <1>6
<1> QED
  BY <1>1, <1>2, <1>3, <1>4, <1>5, <1>6, <1>7

\* The value of no version has a table that no version has.
LEMMA NoVersionFacts == NoVersion \notin Versions /\ NoVersion.table \notin Tables
BY NoVersionAssumption DEF NoVersion

-----------------------------------------------------------------------------
(* Types *)

\* The initial states are well typed, and no operation is under way.
LEMMA DdlTypeInit == DdlInit => DdlTypeOK /\ RequestFits
<1> SUFFICES ASSUME DdlInit PROVE DdlTypeOK /\ RequestFits
  OBVIOUS
<1>1. /\ tables \in [Tables -> SUBSET Columns]
      /\ \A t \in Tables : \A c, d \in tables[t] : c.name = d.name => c = d
  BY DEF DdlInit
<1>2. deploys \in 0..MaxDeploys /\ faults \in 0..MaxFaults
  BY BoundsAssumption DEF DdlInit
<1>3. DdlTypeOK
  BY <1>1, <1>2 DEF DdlInit, DdlTypeOK, Phases, Calls
<1>4. RequestFits
  BY DEF DdlInit, RequestFits
<1> QED
  BY <1>3, <1>4

\* So are the tables after a step: a column is only added under a new name.
LEMMA TablesTypeStep ==
    ASSUME DdlTypeOK, RequestFits, Handler \/ (\E o \in orphans : EndOrphan(o))
    PROVE  /\ tables' \in [Tables -> SUBSET Columns]
           /\ \A t \in Tables : \A c, d \in tables'[t] : c.name = d.name => c = d
           /\ orphans' \subseteq [table : Tables, column : Columns]
<1>0. /\ tables \in [Tables -> SUBSET Columns]
      /\ \A t \in Tables : \A c, d \in tables[t] : c.name = d.name => c = d
      /\ orphans \subseteq [table : Tables, column : Columns]
  BY DEF DdlTypeOK
<1>1. ASSUME NEW t \in Tables, NEW S \in SUBSET Columns,
             \A c, d \in S : c.name = d.name => c = d, tables' = [tables EXCEPT ![t] = S]
      PROVE  /\ tables' \in [Tables -> SUBSET Columns]
             /\ \A u \in Tables : \A c, d \in tables'[u] : c.name = d.name => c = d
  BY <1>0, <1>1
<1>2. ASSUME NEW t \in Tables, NEW c \in Columns, c.name \notin Names(tables[t]),
             tables' = [tables EXCEPT ![t] = @ \cup {c}]
      PROVE  /\ tables' \in [Tables -> SUBSET Columns]
             /\ \A u \in Tables : \A d, e \in tables'[u] : d.name = e.name => d = e
  <2> DEFINE S == tables[t] \cup {c}
  <2>1. S \in SUBSET Columns /\ \A d, e \in S : d.name = e.name => d = e
    BY <1>0, <1>2 DEF Names
  <2>2. tables' = [tables EXCEPT ![t] = S]
    BY <1>2
  <2> HIDE DEF S
  <2> QED
    BY <1>1, <2>1, <2>2
<1>3. ASSUME pc # "idle"
      PROVE  /\ req \in Versions /\ req.table \in Tables
             /\ Created \in SUBSET Columns
             /\ \A c, d \in Created : c.name = d.name => c = d
             /\ \A i \in DOMAIN req.columns : req.columns[i] \in Columns
  <2>1. req \in Versions
    BY <1>3 DEF DdlTypeOK
  <2> QED
    BY <1>0, <2>1, VersionFacts DEF Created
<1>4. CASE UNCHANGED <<tables, orphans>>
  BY <1>0, <1>4
<1>5. CASE CreateTable
  BY <1>0, <1>1, <1>3, <1>5 DEF CreateTable
<1>6. CASE AlterTable
  <2>1. pc = "alter" /\ orphans' = orphans
    BY <1>6 DEF AlterTable
  <2>2. CASE UNCHANGED tables
    BY <1>4, <2>1, <2>2
  <2>3. CASE ~UNCHANGED tables
    <3>1. PICK i \in DOMAIN req.columns :
             /\ req.columns[i].name \notin Names(tables[req.table])
             /\ tables' = [tables EXCEPT ![req.table] = @ \cup {req.columns[i]}]
      BY <1>6, <2>3 DEF AlterTable
    <3> QED
      BY <1>0, <1>2, <1>3, <2>1, <3>1
  <2> QED
    BY <2>2, <2>3
<1>7. CASE DropTable
  BY <1>0, <1>1, <1>3, <1>7 DEF DropTable
<1>8. CASE FailCall
  <2>1. pc # "idle"
    BY <1>8 DEF FailCall
  <2>2. CASE UNCHANGED <<tables, orphans>>
    BY <1>4, <2>2
  <2>3. CASE tables' = [tables EXCEPT ![req.table] = Created] /\ UNCHANGED orphans
    BY <1>0, <1>1, <1>3, <2>1, <2>3
  <2>4. CASE tables' = [tables EXCEPT ![req.table] = {}] /\ UNCHANGED orphans
    BY <1>0, <1>1, <1>3, <2>1, <2>4
  <2>5. CASE /\ \E i \in DOMAIN req.columns :
                   orphans' = orphans \cup {[table |-> req.table, column |-> req.columns[i]]}
             /\ UNCHANGED tables
    BY <1>0, <1>3, <2>1, <2>5
  <2> QED
    BY <1>8, <2>2, <2>3, <2>4, <2>5 DEF FailCall
<1>9. ASSUME NEW o \in orphans, EndOrphan(o)
      PROVE  /\ tables' \in [Tables -> SUBSET Columns]
             /\ \A t \in Tables : \A c, d \in tables'[t] : c.name = d.name => c = d
             /\ orphans' \subseteq [table : Tables, column : Columns]
  <2>1. o.table \in Tables /\ o.column \in Columns /\ orphans' \subseteq orphans
    BY <1>0, <1>9 DEF EndOrphan
  <2>2. CASE UNCHANGED tables
    BY <1>0, <2>1, <2>2
  <2>3. CASE ~UNCHANGED tables
    BY <1>0, <1>2, <1>9, <2>1, <2>3 DEF EndOrphan
  <2> QED
    BY <2>2, <2>3
<1>10. ReadColumns \/ EndAlter => UNCHANGED <<tables, orphans>>
  BY DEF ReadColumns, EndAlter
<1> QED
  BY <1>4, <1>5, <1>6, <1>7, <1>8, <1>9, <1>10 DEF Handler

\* The rest is well typed after a step of the handler, whose request stays.
LEMMA HandlerTypeStep ==
    ASSUME DdlTypeOK, RequestFits, Handler
    PROVE  DdlTypeOK' /\ RequestFits'
<1>1. /\ tables' \in [Tables -> SUBSET Columns]
      /\ \A t \in Tables : \A c, d \in tables'[t] : c.name = d.name => c = d
      /\ orphans' \subseteq [table : Tables, column : Columns]
  BY TablesTypeStep
<1>2. /\ UNCHANGED <<operation, req>> /\ pc \in Calls
      /\ pc' \in {"read", "create", "alter", "returned", "raised"}
      /\ pc = "create" => pc' \in {"returned", "raised"}
      /\ pc = "drop" => pc' \in {"returned", "raised"}
      /\ pc = "alter" => pc' \in {"alter", "returned", "raised"}
      /\ faults' \in 0..MaxFaults
  <2>1. faults \in 0..MaxFaults /\ MaxFaults \in Nat
    BY BoundsAssumption DEF DdlTypeOK
  <2>2. CASE FailCall
    BY <2>1, <2>2 DEF FailCall, Fault, Calls
  <2>3. CASE ReadColumns \/ CreateTable \/ AlterTable \/ EndAlter \/ DropTable
    BY <2>1, <2>3 DEF ReadColumns, CreateTable, AlterTable, EndAlter, DropTable, Calls
  <2> QED
    BY <2>2, <2>3 DEF Handler
<1>3. old' \subseteq Columns /\ (pc' = "alter" => old' # {})
  <2>1. CASE ReadColumns
    <3>1. req.table \in Tables
      BY <2>1, VersionFacts DEF ReadColumns, DdlTypeOK
    <3> QED
      BY <2>1, <3>1 DEF ReadColumns, DdlTypeOK
  <2>2. CASE UNCHANGED old /\ (pc' = "alter" => pc = "alter")
    BY <2>2 DEF DdlTypeOK
  <2>3. CASE CreateTable \/ AlterTable \/ EndAlter \/ DropTable \/ FailCall
    BY <2>2, <2>3 DEF CreateTable, AlterTable, EndAlter, DropTable, FailCall
  <2> QED
    BY <2>1, <2>3 DEF Handler
<1>4. next' \in Nat
  <2>1. CASE AlterTable
    <3>1. req \in Versions
      BY <2>1 DEF AlterTable, DdlTypeOK
    <3> QED
      BY <2>1, <3>1, VersionFacts DEF AlterTable, DdlTypeOK
  <2>2. CASE ReadColumns \/ CreateTable \/ EndAlter \/ DropTable \/ FailCall
    BY <2>2 DEF ReadColumns, CreateTable, EndAlter, DropTable, FailCall, DdlTypeOK
  <2> QED
    BY <2>1, <2>2 DEF Handler
<1>5. DdlTypeOK'
  BY <1>1, <1>2, <1>3, <1>4 DEF DdlTypeOK, operation, Calls
<1> QED
  BY <1>2, <1>5 DEF RequestFits, operation, Calls

\* So it is after a step of CloudFormation, and the next request fits its phase.
LEMMA CloudFormationTypeStep ==
    ASSUME DdlTypeOK, RequestFits, CloudFormation
    PROVE  DdlTypeOK' /\ RequestFits'
<1>1. tables' = tables /\ orphans' = orphans
  BY DEF CloudFormation, Deploy, DeleteStack, Complete, RollBack, EndRollBack, Unstick,
         EndCleanup, EndDelete
<1>2. deploys' \in 0..MaxDeploys /\ faults' \in 0..MaxFaults
  <2>1. /\ deploys \in 0..MaxDeploys /\ MaxDeploys \in Nat
        /\ faults \in 0..MaxFaults /\ MaxFaults \in Nat
    BY BoundsAssumption DEF DdlTypeOK
  <2>2. ASSUME NEW v \in Versions, Deploy(v)
        PROVE  faults' = faults /\ deploys < MaxDeploys /\ deploys' = deploys + 1
    BY <2>2 DEF Deploy
  <2>3. DeleteStack => faults' = faults /\ deploys < MaxDeploys /\ deploys' = deploys + 1
    BY DEF DeleteStack
  <2>4. Unstick => /\ faults' = faults
                   /\ deploys' = deploys \/ (deploys < MaxDeploys /\ deploys' = deploys + 1)
    BY DEF Unstick
  <2>5. RollBack => /\ deploys' = deploys
                    /\ faults' = faults \/ (faults < MaxFaults /\ faults' = faults + 1)
    BY DEF RollBack, Fault
  <2>6. Complete \/ EndRollBack \/ EndCleanup \/ EndDelete => UNCHANGED <<deploys, faults>>
    BY DEF Complete, EndRollBack, EndCleanup, EndDelete
  <2> QED
    BY <2>1, <2>2, <2>3, <2>4, <2>5, <2>6 DEF CloudFormation
<1>3. ASSUME NEW type \in {"Create", "Update", "Delete"}, NEW w \in Versions,
             Request(type, w)
      PROVE  /\ req' = w /\ old' = {} /\ next' = 1
             /\ pc' = IF type = "Create" THEN "create" ELSE IF type = "Update" THEN "read"
                      ELSE IF w.destroy THEN "drop" ELSE "returned"
  BY <1>3 DEF Request
<1>4. DdlTypeOK' /\ RequestFits'
  <2>0. /\ stack \in Versions \cup {NoVersion} /\ target \in Versions \cup {NoVersion}
        /\ old \subseteq Columns /\ next \in Nat /\ req \in Versions \cup {NoVersion}
        /\ answered \in BOOLEAN /\ adopted \in BOOLEAN
        /\ \A w \in Versions : w.destroy \in BOOLEAN /\ w.table \in Tables /\ w # NoVersion
        /\ NoVersion.table \notin Tables
    BY VersionFacts, NoVersionFacts DEF DdlTypeOK
  <2>1. ASSUME stack' \in Versions \cup {NoVersion}, target' \in Versions \cup {NoVersion},
               phase' \in Phases, answered' \in BOOLEAN, adopted' \in BOOLEAN,
               \/ Answer
               \/ \E type \in {"Create", "Update", "Delete"}, w \in Versions : Request(type, w)
        PROVE  DdlTypeOK'
    <3>1. CASE Answer
      BY <1>1, <1>2, <2>0, <2>1, <3>1 DEF Answer, DdlTypeOK
    <3>2. ASSUME NEW type \in {"Create", "Update", "Delete"}, NEW w \in Versions,
                 Request(type, w)
          PROVE  DdlTypeOK'
      BY <1>1, <1>2, <1>3, <2>0, <2>1, <3>2 DEF DdlTypeOK, Calls
    <3> QED
      BY <2>1, <3>1, <3>2
  <2>2. ASSUME NEW v \in Versions, Deploy(v) PROVE DdlTypeOK' /\ RequestFits'
    <3>1. CASE stack = NoVersion
      <4>1. /\ Request("Create", v) /\ phase' = "create" /\ target' = v /\ stack' = stack
            /\ answered' = FALSE /\ adopted' = (tables[v.table] # {})
        BY <2>2, <3>1 DEF Deploy
      <4>2. DdlTypeOK'
        BY <2>0, <2>1, <4>1 DEF Phases
      <4> QED
        BY <1>3, <3>1, <4>1, <4>2 DEF RequestFits
    <3>2. CASE stack # NoVersion
      <4>1. /\ Request("Update", v) /\ phase' = "update" /\ target' = v /\ stack' = stack
            /\ answered' = FALSE /\ adopted' = adopted
        BY <2>2, <3>2 DEF Deploy
      <4>2. DdlTypeOK'
        BY <2>0, <2>1, <4>1 DEF Phases
      <4> QED
        BY <1>3, <2>0, <3>2, <4>1, <4>2 DEF RequestFits
    <3> QED
      BY <3>1, <3>2
  <2>3. CASE DeleteStack
    <3>1. /\ Request("Delete", stack) /\ phase' = "delete" /\ stack \in Versions
          /\ UNCHANGED <<stack, target, answered, adopted>>
      BY <2>0, <2>3 DEF DeleteStack
    <3>2. DdlTypeOK'
      BY <2>0, <2>1, <3>1 DEF Phases
    <3> QED
      BY <1>3, <2>0, <3>1, <3>2 DEF RequestFits
  <2>4. CASE Complete
    <3>0. /\ stack' = target /\ target' = target /\ answered' = answered
          /\ adopted' \in BOOLEAN /\ target \in Versions
      BY <2>0, <2>4 DEF Complete, RequestFits
    <3>1. CASE phase = "update" /\ Replaces(stack, target)
      <4>1. /\ Request("Delete", stack) /\ phase' = "cleanup" /\ stack \in Versions
            /\ stack.table # target.table
        BY <2>4, <3>1 DEF Complete, RequestFits, Replaces
      <4>2. DdlTypeOK'
        BY <2>0, <2>1, <3>0, <4>1 DEF Phases
      <4> QED
        BY <1>3, <2>0, <3>0, <4>1, <4>2 DEF RequestFits
    <3>2. CASE ~(phase = "update" /\ Replaces(stack, target))
      <4>1. Answer /\ phase' = "idle"
        BY <2>4, <3>2 DEF Complete
      <4>2. DdlTypeOK'
        BY <2>0, <2>1, <3>0, <4>1 DEF Phases
      <4> QED
        BY <4>1, <4>2 DEF RequestFits, Answer
    <3> QED
      BY <3>1, <3>2
  <2>5. CASE RollBack
    <3>0. stack' = stack /\ target' = target /\ adopted' = adopted /\ target \in Versions
      BY <2>5 DEF RollBack, RequestFits
    <3>1. CASE phase = "update"
      <4>1. /\ Request("Update", stack) /\ phase' = "rollback" /\ stack \in Versions
            /\ answered' \in BOOLEAN
        BY <2>5, <3>1 DEF RollBack, RequestFits
      <4>2. DdlTypeOK'
        BY <2>0, <2>1, <3>0, <4>1 DEF Phases
      <4> QED
        BY <1>3, <2>0, <3>0, <4>1, <4>2 DEF RequestFits
    <3>2. CASE phase = "create" /\ pc = "raised"
      <4>1. Answer /\ phase' = "idle" /\ answered' = answered
        BY <2>5, <3>2 DEF RollBack
      <4>2. DdlTypeOK'
        BY <2>0, <2>1, <3>0, <4>1 DEF Phases
      <4> QED
        BY <4>1, <4>2 DEF RequestFits, Answer
    <3>3. CASE phase = "create" /\ pc = "returned"
      <4>1. /\ Request("Delete", target) /\ phase' = "cleanup" /\ answered' = answered
            /\ stack = NoVersion
        BY <2>5, <3>3 DEF RollBack, RequestFits
      <4>2. DdlTypeOK'
        BY <2>0, <2>1, <3>0, <4>1 DEF Phases
      <4> QED
        BY <1>3, <2>0, <3>0, <4>1, <4>2 DEF RequestFits
    <3> QED
      BY <2>5, <3>1, <3>2, <3>3 DEF RollBack
  <2>6. CASE EndRollBack
    <3>0. /\ stack' = stack /\ target' = target /\ answered' = answered
          /\ adopted' \in BOOLEAN /\ target \in Versions /\ stack \in Versions
      BY <2>0, <2>6 DEF EndRollBack, RequestFits
    <3>1. CASE pc # "raised" /\ answered /\ Replaces(stack, target)
      <4>1. /\ Request("Delete", target) /\ phase' = "cleanup"
            /\ stack.table # target.table
        BY <2>6, <3>1 DEF EndRollBack, Replaces
      <4>2. DdlTypeOK'
        BY <2>0, <2>1, <3>0, <4>1 DEF Phases
      <4> QED
        BY <1>3, <2>0, <3>0, <4>1, <4>2 DEF RequestFits
    <3>2. CASE ~(pc # "raised" /\ answered /\ Replaces(stack, target))
      <4>1. Answer /\ phase' \in {"idle", "stuck"}
        BY <2>6, <3>2 DEF EndRollBack
      <4>2. DdlTypeOK'
        BY <2>0, <2>1, <3>0, <4>1 DEF Phases
      <4> QED
        BY <3>0, <4>1, <4>2 DEF RequestFits, Answer
    <3> QED
      BY <3>1, <3>2
  <2>7. CASE Unstick
    <3>0. /\ UNCHANGED <<stack, target, answered, adopted>>
          /\ stack \in Versions /\ target \in Versions /\ pc = "idle"
      BY <2>7 DEF Unstick, RequestFits
    <3>1. CASE phase' = "rollback" /\ Request("Update", stack)
      <4>1. DdlTypeOK'
        BY <2>0, <2>1, <3>0, <3>1 DEF Phases
      <4> QED
        BY <1>3, <2>0, <3>0, <3>1, <4>1 DEF RequestFits
    <3>2. CASE phase' = "idle" /\ UNCHANGED request
      <4>1. Answer
        BY <3>0, <3>2 DEF request, Answer
      <4>2. DdlTypeOK'
        BY <2>0, <2>1, <3>0, <3>2, <4>1 DEF Phases
      <4> QED
        BY <3>2, <4>1, <4>2 DEF RequestFits, Answer
    <3> QED
      BY <2>7, <3>1, <3>2 DEF Unstick
  <2>8. CASE EndCleanup
    <3>1. /\ Answer /\ phase' = "idle" /\ UNCHANGED <<stack, target, answered, adopted>>
      BY <2>8 DEF EndCleanup
    <3>2. DdlTypeOK'
      BY <2>0, <2>1, <3>1 DEF Phases
    <3> QED
      BY <3>1, <3>2 DEF RequestFits, Answer
  <2>9. CASE EndDelete
    <3>1. /\ Answer /\ UNCHANGED <<target, answered>> /\ stack \in Versions
          /\ \/ phase' = "idle" /\ stack' = NoVersion /\ adopted' = FALSE
             \/ phase' = "delete_failed" /\ stack' = stack /\ adopted' = adopted
      BY <2>9 DEF EndDelete, RequestFits
    <3>2. DdlTypeOK'
      BY <2>0, <2>1, <3>1 DEF Phases
    <3> QED
      BY <3>1, <3>2 DEF RequestFits, Answer
  <2> QED
    BY <2>2, <2>3, <2>4, <2>5, <2>6, <2>7, <2>8, <2>9 DEF CloudFormation
<1> QED
  BY <1>4

-----------------------------------------------------------------------------
(* The tables *)

\* What DdlInv says besides types.
TablesInv == CreatesAfresh /\ AddsInOrder /\ ReturnsLive /\ StackIsLive /\ Faultless

\* The request of a busy handler is a version's, and its table is in the catalog.
LEMMA BusyFacts ==
    ASSUME DdlTypeOK, pc # "idle"
    PROVE  /\ req \in Versions /\ req.table \in Tables
           /\ tables \in [Tables -> SUBSET Columns]
           /\ Declared(req) # {} /\ Declared(req) \subseteq Columns
BY VersionFacts DEF DdlTypeOK

\* GetTable decides: nothing there, columns that do not fit, or columns that do.
LEMMA ReadColumnsKeeps ==
    ASSUME DdlInv, ReadColumns
    PROVE  TablesInv'
<1>0. /\ UNCHANGED <<tables, stack, phase, adopted, req, next, orphans, faults>>
      /\ pc = "read" /\ old' = Live /\ Live' = Live /\ next = 1
      /\ phase \in {"update", "rollback"} /\ (phase = "rollback" => req = stack)
      /\ stack \in Versions /\ req \in Versions
      /\ \A i \in DOMAIN req.columns : ~(i < 1)
  <2>1. /\ UNCHANGED <<tables, stack, phase, adopted, req, next, orphans, faults>>
        /\ pc = "read" /\ old' = Live /\ Live' = Live
    BY DEF ReadColumns, operation, Live
  <2>2. /\ phase \in {"update", "rollback"} /\ (phase = "rollback" => req = stack)
        /\ stack \in Versions
    BY <2>1 DEF DdlInv, DdlTypeOK, RequestFits, Phases
  <2>3. req \in Versions /\ next = 1
    BY <2>1, BusyFacts DEF DdlInv, AddsInOrder
  <2>4. \A i \in DOMAIN req.columns : ~(i < 1)
    BY <2>3, VersionFacts
  <2> QED
    BY <2>1, <2>2, <2>3, <2>4
<1>1. CASE Live = {}
  <2>1. pc' = "create"
    BY <1>0, <1>1 DEF ReadColumns, Live
  <2> QED
    BY <1>0, <1>1, <2>1 DEF DdlInv, TablesInv, CreatesAfresh, AddsInOrder, ReturnsLive,
       StackIsLive, Faultless, ToDeclared, Declared
<1>2. CASE Live # {} /\ ~(Live \subseteq Declared(req))
  <2>1. pc' = "raised"
    BY <1>0, <1>2 DEF ReadColumns, Incompatible, Live
  <2>2. faults = 0 /\ phase = "rollback" => adopted
    BY <1>0, <1>2 DEF DdlInv, Faultless, Live
  <2> QED
    BY <1>0, <2>1, <2>2 DEF DdlInv, TablesInv, CreatesAfresh, AddsInOrder, ReturnsLive,
       StackIsLive, Faultless, ToDeclared, Declared
<1>3. CASE Live # {} /\ Live \subseteq Declared(req)
  <2>1. pc' = "alter"
    BY <1>0, <1>3 DEF ReadColumns, Incompatible, Live
  <2> QED
    BY <1>0, <1>3, <2>1 DEF DdlInv, TablesInv, CreatesAfresh, AddsInOrder, ReturnsLive,
       StackIsLive, Faultless, ToDeclared, Declared
<1> QED
  BY <1>1, <1>2, <1>3

\* Columns that are there stay there while tables only grow.
LEMMA GrownStackIsLive ==
    ASSUME DdlTypeOK, StackIsLive, UNCHANGED <<stack, phase, adopted>>,
           \A t \in Tables : tables[t] \subseteq tables'[t]
    PROVE  StackIsLive'
<1>1. stack \in Versions => stack.table \in Tables
  BY VersionFacts
<1> QED
  BY <1>1 DEF StackIsLive, Declared

\* CREATE TABLE makes all the declared columns, where no table was found before.
LEMMA CreateTableKeeps ==
    ASSUME DdlInv, CreateTable
    PROVE  TablesInv'
<1>0. /\ UNCHANGED <<stack, phase, adopted, req, orphans, faults>>
      /\ pc = "create" /\ pc' = "returned" /\ DdlTypeOK
      /\ tables' = [tables EXCEPT ![req.table] = Created]
      /\ ToDeclared' = ToDeclared /\ Declared(req)' = Declared(req)
  BY DEF DdlInv, CreateTable, operation, ToDeclared, Declared
<1>1. /\ req \in Versions /\ req.table \in Tables
      /\ tables \in [Tables -> SUBSET Columns] /\ Declared(req) # {}
  BY <1>0, BusyFacts
<1>2. Live' = Created /\ \A t \in Tables : tables[t] \subseteq tables'[t]
  BY <1>0, <1>1 DEF Live, Created
<1>3. ToDeclared => Live' = Declared(req)
  BY <1>0, <1>2 DEF DdlInv, CreatesAfresh, Live, Created
<1>4. StackIsLive'
  BY <1>0, <1>2, GrownStackIsLive DEF DdlInv
<1>5. Faultless'
  <2>1. phase = "rollback" => adopted
    BY <1>0, <1>1 DEF DdlInv, RequestFits, StackIsLive, CreatesAfresh, ToDeclared, Live
  <2>2. phase \in {"create", "update", "rollback"} /\ (phase = "create" => stack \notin Versions)
    BY <1>0, NoVersionFacts DEF DdlInv, DdlTypeOK, RequestFits, Phases
  <2> QED
    BY <1>0, <1>3, <2>1, <2>2 DEF DdlInv, Faultless
<1> QED
  BY <1>0, <1>3, <1>4, <1>5 DEF TablesInv, CreatesAfresh, AddsInOrder, ReturnsLive

\* DROP TABLE empties the table of a request that is not the stack's any more.
LEMMA DroppedStackIsLive ==
    ASSUME DdlTypeOK, RequestFits, StackIsLive, pc = "drop",
           UNCHANGED <<stack, phase, adopted>>, tables' = [tables EXCEPT ![req.table] = {}]
    PROVE  /\ StackIsLive' /\ phase \in {"cleanup", "delete"}
           /\ stack \in Versions /\ phase # "delete" => tables'[stack.table] = tables[stack.table]
<1>1. stack \in Versions => stack.table \in Tables
  BY VersionFacts
<1>2. phase \in {"cleanup", "delete"} /\ (phase = "cleanup" => req.table # stack.table)
  BY DEF DdlTypeOK, RequestFits, Phases
<1>3. stack \in Versions /\ phase # "delete" => tables'[stack.table] = tables[stack.table]
  BY <1>1, <1>2 DEF DdlTypeOK
<1> QED
  BY <1>2, <1>3 DEF StackIsLive, Declared

LEMMA DropTableKeeps ==
    ASSUME DdlInv, DropTable
    PROVE  TablesInv'
<1>0. /\ UNCHANGED <<stack, phase, adopted, req, orphans, faults>>
      /\ pc = "drop" /\ pc' = "returned"
      /\ tables' = [tables EXCEPT ![req.table] = {}]
  BY DEF DropTable, operation
<1>1. /\ StackIsLive' /\ phase \in {"cleanup", "delete"}
      /\ stack \in Versions /\ phase # "delete" => tables'[stack.table] = tables[stack.table]
  BY <1>0, DroppedStackIsLive DEF DdlInv
<1>2. Faultless'
  BY <1>0, <1>1 DEF DdlInv, Faultless, ToDeclared, Declared
<1> QED
  BY <1>0, <1>1, <1>2 DEF TablesInv, CreatesAfresh, AddsInOrder, ReturnsLive, ToDeclared

\* A call that fails loses nothing the stack needs, and ends the request.
LEMMA FailCallKeeps ==
    ASSUME DdlInv, FailCall
    PROVE  TablesInv'
<1>0. /\ UNCHANGED <<stack, phase, adopted, req>> /\ pc # "idle" /\ pc' = "raised"
      /\ DdlTypeOK /\ RequestFits /\ StackIsLive
  BY DEF DdlInv, FailCall, operation
<1>1. faults' # 0
  BY DEF FailCall, Fault, DdlInv, DdlTypeOK
<1>2. req.table \in Tables /\ tables \in [Tables -> SUBSET Columns]
  BY <1>0, BusyFacts
<1>3. StackIsLive'
  <2>1. CASE UNCHANGED tables
    BY <1>0, <2>1, GrownStackIsLive
  <2>2. CASE tables' = [tables EXCEPT ![req.table] = Created]
    <3>1. \A t \in Tables : tables[t] \subseteq tables'[t]
      BY <1>2, <2>2 DEF Created
    <3> QED
      BY <1>0, <3>1, GrownStackIsLive
  <2>3. CASE pc = "drop" /\ tables' = [tables EXCEPT ![req.table] = {}]
    BY <1>0, <2>3, DroppedStackIsLive
  <2> QED
    BY <2>1, <2>2, <2>3 DEF FailCall
<1> QED
  BY <1>0, <1>1, <1>3 DEF TablesInv, CreatesAfresh, AddsInOrder, ReturnsLive, Faultless

\* The columns whose statement has run, of those that GetTable did not return.
AddedBefore(n) ==
    {req.columns[i] : i \in {j \in DOMAIN req.columns :
                                j < n /\ req.columns[j].name \notin Names(old)}}

\* The column at the next statement's index joins those that were added.
LEMMA AddedGrows ==
    ASSUME NEW n \in Nat, req \in Versions, n = next, NEW i, NextAdded(i)
    PROVE  /\ i \in DOMAIN req.columns /\ i \in Nat
           /\ AddedBefore(i + 1) = AddedBefore(n) \cup {req.columns[i]}
           /\ req.columns[i].name \notin Names(old \cup AddedBefore(n))
<1>1. /\ i \in DOMAIN req.columns /\ DOMAIN req.columns \subseteq Nat
      /\ i >= n /\ req.columns[i].name \notin Names(old)
      /\ \A j \in DOMAIN req.columns : j >= n /\ req.columns[j].name \notin Names(old) => i <= j
  BY VersionFacts DEF NextAdded, Added
<1>2. \A j \in DOMAIN req.columns :
         j < i + 1 /\ req.columns[j].name \notin Names(old)
             <=> (j < n /\ req.columns[j].name \notin Names(old)) \/ j = i
  <2>1. \A j \in DOMAIN req.columns : j \in Nat
    BY <1>1
  <2> QED
    BY <1>1, <2>1
<1>3. AddedBefore(i + 1) = AddedBefore(n) \cup {req.columns[i]}
  BY <1>1, <1>2 DEF AddedBefore
<1>4. \A j \in DOMAIN req.columns : j < n => req.columns[j].name # req.columns[i].name
  BY <1>1, VersionFacts
<1>5. req.columns[i].name \notin Names(AddedBefore(n))
  BY <1>4 DEF Names, AddedBefore
<1> QED
  BY <1>1, <1>3, <1>5 DEF Names

\* An ALTER adds its column or, when an ALTER left over was faster, is rejected.
LEMMA AlterTableKeeps ==
    ASSUME DdlInv, AlterTable
    PROVE  TablesInv'
<1>0. /\ UNCHANGED <<stack, phase, adopted, req, old, orphans, faults>> /\ pc = "alter"
      /\ DdlTypeOK /\ RequestFits /\ StackIsLive /\ Faultless
      /\ old # {} /\ old \subseteq Declared(req) /\ old \subseteq Live
      /\ AddedBefore(next) \subseteq Live
      /\ faults = 0 => Live = old \cup AddedBefore(next)
  BY DEF DdlInv, AlterTable, operation, AddsInOrder, AddedBefore, Faultless
<1>1. /\ req \in Versions /\ req.table \in Tables /\ next \in Nat
      /\ tables \in [Tables -> SUBSET Columns]
  BY <1>0, BusyFacts DEF DdlTypeOK
<1>2. PICK i \in DOMAIN req.columns :
         /\ NextAdded(i)
         /\ IF Live = {} \/ req.columns[i].name \in Names(Live)
            THEN pc' = "raised" /\ UNCHANGED <<tables, next>>
            ELSE /\ tables' = [tables EXCEPT ![req.table] = @ \cup {req.columns[i]}]
                 /\ next' = i + 1
                 /\ UNCHANGED pc
  BY DEF AlterTable, Live
<1>3. /\ i \in Nat /\ AddedBefore(i + 1) = AddedBefore(next) \cup {req.columns[i]}
      /\ req.columns[i].name \notin Names(old \cup AddedBefore(next))
  BY <1>1, <1>2, AddedGrows
<1>4. CASE Live = {} \/ req.columns[i].name \in Names(Live)
  <2>1. faults # 0
    BY <1>0, <1>3, <1>4 DEF Names
  <2>2. pc' = "raised" /\ UNCHANGED <<tables, next>>
    BY <1>2, <1>4
  <2>3. StackIsLive'
    BY <1>0, <2>2, GrownStackIsLive
  <2> QED
    BY <1>0, <2>1, <2>2, <2>3
       DEF TablesInv, CreatesAfresh, AddsInOrder, ReturnsLive, Faultless
<1>5. CASE ~(Live = {} \/ req.columns[i].name \in Names(Live))
  <2>1. /\ tables' = [tables EXCEPT ![req.table] = @ \cup {req.columns[i]}]
        /\ next' = i + 1 /\ pc' = "alter"
    BY <1>0, <1>2, <1>5
  <2>2. Live' = Live \cup {req.columns[i]} /\ \A t \in Tables : tables[t] \subseteq tables'[t]
    BY <1>0, <1>1, <2>1 DEF Live
  <2>3. AddedBefore(next)' = AddedBefore(i + 1)
    BY <1>0, <2>1 DEF AddedBefore
  <2>4. StackIsLive'
    BY <1>0, <2>2, GrownStackIsLive
  <2>5. AddedBefore(next)' \subseteq Live'
    BY <1>0, <1>3, <2>2, <2>3
  <2>6. AddsInOrder'
    BY <1>0, <2>1, <2>2, <2>5 DEF AddsInOrder, AddedBefore, Declared
  <2>7. Faultless'
    <3>1. faults = 0 => Live' = old \cup AddedBefore(next)'
      BY <1>0, <1>3, <2>2, <2>3
    <3>2. /\ phase \in {"update", "rollback"}
          /\ phase = "rollback" => req = stack /\ stack \in Versions
      BY <1>0 DEF DdlTypeOK, RequestFits, Phases
    <3>3. phase = "rollback" /\ faults = 0 /\ ~adopted => old = Declared(req)
      <4> SUFFICES ASSUME phase = "rollback", faults = 0, ~adopted PROVE old = Declared(req)
        OBVIOUS
      <4>1. Declared(req) = Live
        BY <1>0, <3>2 DEF StackIsLive, Faultless, Live
      <4>2. req.columns[i] \in Live
        BY <1>1, <1>2, <4>1, VersionFacts
      <4> QED
        BY <1>5, <4>2 DEF Names
    <3>4. phase = "rollback" /\ faults = 0 => adopted
      <4> SUFFICES ASSUME phase = "rollback", faults = 0, ~adopted PROVE FALSE
        OBVIOUS
      <4>1. req.columns[i] \in old
        BY <1>1, <1>2, <3>3, VersionFacts
      <4> QED
        BY <1>3, <4>1 DEF Names
    <3> QED
      BY <1>0, <2>1, <3>1, <3>2, <3>4 DEF Faultless, AddedBefore
  <2> QED
    BY <2>1, <2>4, <2>6, <2>7 DEF TablesInv, CreatesAfresh, ReturnsLive
<1> QED
  BY <1>4, <1>5

\* With no statement left, every declared column is there.
LEMMA EndAlterKeeps ==
    ASSUME DdlInv, EndAlter
    PROVE  TablesInv'
<1>0. /\ UNCHANGED <<tables, stack, phase, adopted, req, old, next, orphans, faults>>
      /\ pc = "alter" /\ pc' = "returned" /\ Added = {} /\ DdlTypeOK /\ RequestFits
      /\ old \subseteq Declared(req) /\ old \subseteq Live
      /\ faults = 0 => Live = old \cup AddedBefore(next)
      /\ AddedBefore(next) \subseteq Live
  BY DEF DdlInv, EndAlter, operation, AddsInOrder, AddedBefore, Faultless
<1>1. req \in Versions /\ next \in Nat
  BY <1>0, BusyFacts DEF DdlTypeOK
<1>2. \A i \in DOMAIN req.columns : req.columns[i] \in old \cup AddedBefore(next)
  <2> SUFFICES ASSUME NEW i \in DOMAIN req.columns PROVE req.columns[i] \in old \cup AddedBefore(next)
    OBVIOUS
  <2>1. CASE req.columns[i].name \in Names(old)
    <3>1. PICK c \in old : c.name = req.columns[i].name
      BY <2>1 DEF Names
    <3> QED
      BY <1>0, <1>1, <3>1, VersionFacts
  <2>2. CASE req.columns[i].name \notin Names(old)
    <3>1. i \in Nat /\ i < next
      BY <1>0, <1>1, <2>2, VersionFacts DEF Added
    <3> QED
      BY <2>2, <3>1 DEF AddedBefore
  <2> QED
    BY <2>1, <2>2
<1>3. Declared(req) \subseteq Live
  BY <1>0, <1>2 DEF Declared
<1>4. faults = 0 => Live \subseteq Declared(req)
  BY <1>0 DEF AddedBefore, Declared
<1>5. UNCHANGED <<Live, Declared(req), ToDeclared>>
  BY <1>0 DEF Live, Declared, ToDeclared
<1>6. StackIsLive'
  BY <1>0, GrownStackIsLive DEF DdlInv
<1>7. Faultless'
  BY <1>0, <1>4, <1>5 DEF DdlInv, Faultless, Declared
<1> QED
  BY <1>0, <1>3, <1>5, <1>6, <1>7 DEF TablesInv, CreatesAfresh, AddsInOrder, ReturnsLive

\* An ALTER left over only adds, and only where there is a table.
LEMMA EndOrphanKeeps ==
    ASSUME DdlInv, NEW o \in orphans, EndOrphan(o)
    PROVE  TablesInv'
<1>0. /\ UNCHANGED <<stack, phase, adopted, pc, req, old, next, faults>>
      /\ faults # 0 /\ o.table \in Tables /\ tables \in [Tables -> SUBSET Columns]
      /\ DdlTypeOK
  BY DEF DdlInv, DdlTypeOK, Faultless, EndOrphan, operation, request
<1>1. \A t \in Tables : tables[t] \subseteq tables'[t] /\ (tables[t] = {} => tables'[t] = {})
  BY <1>0 DEF EndOrphan
<1>2. pc # "idle" => req.table \in Tables
  BY <1>0, BusyFacts
<1>3. pc # "idle" => Live \subseteq Live' /\ (Live = {} => Live' = {})
  BY <1>0, <1>1, <1>2 DEF Live
<1>4. StackIsLive'
  BY <1>0, <1>1, GrownStackIsLive DEF DdlInv
<1>5. CreatesAfresh' /\ ReturnsLive'
  BY <1>0, <1>3 DEF DdlInv, CreatesAfresh, ReturnsLive, ToDeclared, Declared
<1>6. AddsInOrder'
  BY <1>0, <1>3 DEF DdlInv, AddsInOrder, Declared
<1> QED
  BY <1>0, <1>4, <1>5, <1>6 DEF TablesInv, Faultless

\* What CloudFormation does with the handler: nothing, or a request from the start.
Started ==
    \/ Answer
    \/ \E w \in Versions :
          \/ Request("Update", w)
          \/ Request("Delete", w) /\ phase' \in {"cleanup", "delete"}
          \/ /\ Request("Create", w)
             /\ phase' = "create" /\ adopted' = (tables[w.table] # {})

\* Neither is half way; a Create that found no table finds none when it gets to it.
LEMMA StartsAfresh ==
    ASSUME DdlTypeOK, UNCHANGED tables, Started
    PROVE  /\ CreatesAfresh' /\ AddsInOrder' /\ ReturnsLive'
           /\ pc' # "raised" /\ pc' # "alter"
           /\ pc' = "returned" => ~ToDeclared'
<1>1. CASE Answer
  BY <1>1 DEF Answer, CreatesAfresh, AddsInOrder, ReturnsLive
<1>2. ASSUME NEW w \in Versions, Request("Update", w)
      PROVE  pc' = "read" /\ next' = 1
  BY <1>2 DEF Request
<1>3. ASSUME NEW w \in Versions, Request("Delete", w), phase' \in {"cleanup", "delete"}
      PROVE  pc' \in {"drop", "returned"} /\ ~ToDeclared'
  BY <1>3, VersionFacts DEF Request, ToDeclared
<1>4. ASSUME NEW w \in Versions, Request("Create", w), phase' = "create",
             adopted' = (tables[w.table] # {})
      PROVE  pc' = "create" /\ (ToDeclared' => Live' = {})
  BY <1>4 DEF Request, ToDeclared, Live
<1> QED
  BY <1>1, <1>2, <1>3, <1>4 DEF Started, Answer, CreatesAfresh, AddsInOrder, ReturnsLive

\* The table of the deployed version has no column besides that version's.
StackIsExact ==
    stack \in Versions /\ ~adopted /\ phase \notin {"delete", "delete_failed"}
        => tables[stack.table] \subseteq Declared(stack)

\* CloudFormation touches no table; what it takes for deployed has its columns.
LEMMA CloudFormationKeeps ==
    ASSUME DdlInv, CloudFormation
    PROVE  TablesInv'
<1>0. /\ DdlTypeOK /\ RequestFits /\ StackIsLive /\ ReturnsLive /\ Faultless
      /\ tables' = tables /\ orphans' = orphans
      /\ faults' = 0 => faults = 0
      /\ NoVersion \notin Versions
  <2>1. tables' = tables /\ orphans' = orphans
    BY DEF CloudFormation, Deploy, DeleteStack, Complete, RollBack, EndRollBack, Unstick,
           EndCleanup, EndDelete
  <2>2. faults' = faults \/ RollBack
    BY DEF CloudFormation, Deploy, DeleteStack, Complete, EndRollBack, Unstick,
           EndCleanup, EndDelete
  <2>3. RollBack /\ faults' = 0 => faults = 0
    BY DEF RollBack, Fault, DdlInv, DdlTypeOK
  <2> QED
    BY <2>1, <2>2, <2>3, NoVersionFacts DEF DdlInv
<1>1. ASSUME Started, StackIsLive', faults' = 0 => StackIsExact',
             faults' = 0 /\ phase' = "stuck" => adopted'
      PROVE  TablesInv'
  <2>1. /\ CreatesAfresh' /\ AddsInOrder' /\ ReturnsLive'
        /\ pc' # "raised" /\ pc' # "alter" /\ (pc' = "returned" => ~ToDeclared')
    BY <1>0, <1>1, StartsAfresh
  <2>2. Faultless'
    BY <1>0, <1>1, <2>1 DEF Faultless, StackIsExact
  <2> QED
    BY <1>1, <2>1, <2>2 DEF TablesInv
<1>2. ASSUME NEW v \in Versions, Deploy(v) PROVE TablesInv'
  <2>1. phase = "idle" /\ stack' = stack /\ faults' = faults /\ phase' \in {"create", "update"}
    BY <1>2 DEF Deploy
  <2>2. CASE stack = NoVersion
    <3>1. Started
      BY <1>2, <2>2 DEF Deploy, Started
    <3> QED
      BY <1>0, <1>1, <2>1, <2>2, <3>1 DEF StackIsLive, StackIsExact
  <2>3. CASE stack # NoVersion
    <3>1. Started /\ adopted' = adopted
      BY <1>2, <2>3 DEF Deploy, Started
    <3>2. StackIsLive'
      BY <1>0, <2>1, <3>1 DEF StackIsLive, Declared
    <3>3. faults' = 0 => StackIsExact'
      BY <1>0, <2>1, <3>1 DEF Faultless, StackIsExact, Declared
    <3> QED
      BY <1>1, <2>1, <3>1, <3>2, <3>3
  <2> QED
    BY <2>2, <2>3
<1>3. CASE DeleteStack
  <2>1. Started /\ phase' = "delete"
    BY <1>0, <1>3 DEF DeleteStack, DdlTypeOK, Started
  <2> QED
    BY <1>1, <2>1 DEF StackIsLive, StackIsExact
<1>4. CASE Complete
  <2>0. /\ stack' = target /\ faults' = faults /\ pc = "returned" /\ req = target
        /\ target \in Versions /\ adopted' = (phase = "create" /\ adopted)
        /\ phase \in {"create", "update"} /\ phase' \in {"cleanup", "idle"}
    BY <1>0, <1>4 DEF Complete, RequestFits
  <2>1. Started
    BY <1>0, <1>4 DEF Complete, RequestFits, Started
  <2>2. ~adopted' => ToDeclared
    BY <1>0, <2>0 DEF ToDeclared, DdlTypeOK
  <2>3. StackIsLive'
    <3>1. ~adopted' => Declared(target) \subseteq tables[target.table]
      BY <1>0, <2>0, <2>2 DEF ReturnsLive, Live
    <3> QED
      BY <1>0, <2>0, <3>1 DEF StackIsLive, Declared
  <2>4. faults' = 0 => StackIsExact'
    <3>1. ~adopted' /\ faults = 0 => tables[target.table] \subseteq Declared(target)
      BY <1>0, <2>0, <2>2 DEF Faultless, Live
    <3> QED
      BY <1>0, <2>0, <3>1 DEF StackIsExact, Declared
  <2> QED
    BY <1>1, <2>0, <2>1, <2>3, <2>4
<1>5. CASE RollBack
  <2>0. stack' = stack /\ adopted' = adopted /\ phase \in {"create", "update"}
    BY <1>5 DEF RollBack
  <2>1. CASE phase = "create"
    <3>1. stack \notin Versions /\ phase' \in {"idle", "cleanup"} /\ Started
      BY <1>0, <1>5, <2>1 DEF RollBack, RequestFits, Started
    <3> QED
      BY <1>1, <2>0, <3>1 DEF StackIsLive, StackIsExact
  <2>2. CASE phase = "update"
    <3>1. stack \in Versions /\ phase' = "rollback" /\ Started
      BY <1>0, <1>5, <2>2 DEF RollBack, RequestFits, Started
    <3>2. faults' = 0 => pc = "raised"
      BY <1>5 DEF RollBack, Fault, DdlInv, DdlTypeOK
    <3>3. StackIsLive'
      BY <1>0, <2>0, <2>2, <3>1 DEF StackIsLive, Declared
    <3>4. faults' = 0 => StackIsExact'
      BY <1>0, <2>0, <2>2, <3>1, <3>2 DEF Faultless, StackIsExact, Declared
    <3> QED
      BY <1>1, <3>1, <3>3, <3>4
  <2> QED
    BY <2>0, <2>1, <2>2
<1>6. CASE EndRollBack
  <2>0. /\ stack' = stack /\ faults' = faults /\ phase = "rollback" /\ req = stack
        /\ stack \in Versions /\ adopted' = (adopted /\ pc = "raised")
        /\ pc \in {"returned", "raised"} /\ phase' \in {"stuck", "cleanup", "idle"}
        /\ phase' = "stuck" => pc = "raised"
    BY <1>0, <1>6 DEF EndRollBack, RequestFits
  <2>1. Started
    BY <1>0, <1>6 DEF EndRollBack, RequestFits, Started
  <2>2. CASE pc = "returned"
    <3>1. StackIsLive'
      <4>1. Declared(stack) \subseteq tables[stack.table]
        BY <1>0, <2>0, <2>2 DEF ReturnsLive, ToDeclared, Live
      <4> QED
        BY <1>0, <2>0, <4>1 DEF StackIsLive, Declared
    <3>2. faults' = 0 => StackIsExact'
      <4>1. faults = 0 => tables[stack.table] \subseteq Declared(stack)
        BY <1>0, <2>0, <2>2 DEF Faultless, ToDeclared, Live
      <4> QED
        BY <1>0, <2>0, <4>1 DEF StackIsExact, Declared
    <3> QED
      BY <1>1, <2>0, <2>1, <2>2, <3>1, <3>2
  <2>3. CASE pc = "raised"
    <3>1. adopted' = adopted
      BY <1>0, <2>0, <2>3 DEF DdlTypeOK
    <3>2. faults = 0 => adopted
      BY <1>0, <2>0, <2>3 DEF Faultless
    <3>3. StackIsLive'
      BY <1>0, <2>0, <3>1 DEF StackIsLive, Declared
    <3> QED
      BY <1>1, <2>0, <2>1, <3>1, <3>2, <3>3 DEF StackIsExact
  <2> QED
    BY <2>0, <2>2, <2>3
<1>7. CASE Unstick
  <2>0. /\ stack' = stack /\ adopted' = adopted /\ faults' = faults /\ phase = "stuck"
        /\ stack \in Versions /\ phase' \in {"rollback", "idle"}
    BY <1>0, <1>7 DEF Unstick, RequestFits
  <2>1. Started
    BY <1>0, <1>7 DEF Unstick, RequestFits, Started, Answer, request
  <2>2. faults = 0 => adopted
    BY <1>0, <2>0 DEF Faultless
  <2>3. StackIsLive'
    BY <1>0, <2>0 DEF StackIsLive, Declared
  <2> QED
    BY <1>1, <2>0, <2>1, <2>2, <2>3 DEF StackIsExact
<1>8. CASE EndCleanup
  <2>0. /\ stack' = stack /\ adopted' = adopted /\ faults' = faults /\ phase = "cleanup"
        /\ phase' = "idle" /\ Started
    BY <1>8 DEF EndCleanup, Started
  <2>1. StackIsLive'
    BY <1>0, <2>0 DEF StackIsLive, Declared
  <2>2. faults' = 0 => StackIsExact'
    BY <1>0, <2>0 DEF Faultless, StackIsExact, Declared
  <2> QED
    BY <1>1, <2>0, <2>1, <2>2
<1>9. CASE EndDelete
  <2>1. Started /\ (stack' = NoVersion \/ phase' = "delete_failed") /\ phase' # "stuck"
    BY <1>9 DEF EndDelete, Started
  <2> QED
    BY <1>0, <1>1, <2>1 DEF StackIsLive, StackIsExact
<1> QED
  BY <1>2, <1>3, <1>4, <1>5, <1>6, <1>7, <1>8, <1>9 DEF CloudFormation

-----------------------------------------------------------------------------
(* The inductive invariant and what follows from it *)

\* The initial states satisfy it.
LEMMA DdlInvInit == DdlInit => DdlInv
<1> SUFFICES ASSUME DdlInit PROVE DdlInv
  OBVIOUS
<1>1. stack \notin Versions
  BY NoVersionFacts DEF DdlInit
<1> QED
  BY <1>1, DdlTypeInit DEF DdlInit, DdlInv, CreatesAfresh, AddsInOrder, ReturnsLive,
     StackIsLive, Faultless

\* Every step preserves it.
LEMMA DdlInvStep == DdlInv /\ [DdlNext]_ddl_vars => DdlInv'
<1> SUFFICES ASSUME DdlInv, [DdlNext]_ddl_vars PROVE DdlInv'
  OBVIOUS
<1>0. DdlTypeOK /\ RequestFits
  BY DEF DdlInv
<1>1. CASE Handler
  <2>1. DdlTypeOK' /\ RequestFits'
    BY <1>0, <1>1, HandlerTypeStep
  <2>2. TablesInv'
    BY <1>1, ReadColumnsKeeps, CreateTableKeeps, AlterTableKeeps, EndAlterKeeps,
       DropTableKeeps, FailCallKeeps DEF Handler
  <2> QED
    BY <2>1, <2>2 DEF DdlInv, TablesInv
<1>2. CASE CloudFormation
  BY <1>0, <1>2, CloudFormationTypeStep, CloudFormationKeeps DEF DdlInv, TablesInv
<1>3. ASSUME NEW o \in orphans, EndOrphan(o) PROVE DdlInv'
  <2>1. /\ tables' \in [Tables -> SUBSET Columns]
        /\ \A t \in Tables : \A c, d \in tables'[t] : c.name = d.name => c = d
        /\ orphans' \subseteq [table : Tables, column : Columns]
    BY <1>0, <1>3, TablesTypeStep
  <2>2. UNCHANGED <<operation, request, faults>>
    BY <1>3 DEF EndOrphan
  <2>3. DdlTypeOK' /\ RequestFits'
    BY <1>0, <2>1, <2>2 DEF DdlTypeOK, RequestFits, operation, request
  <2> QED
    BY <1>3, <2>3, EndOrphanKeeps DEF DdlInv, TablesInv
<1>4. CASE UNCHANGED ddl_vars
  BY <1>4 DEF ddl_vars, operation, request, DdlInv, DdlTypeOK, RequestFits, CreatesAfresh,
     AddsInOrder, ReturnsLive, StackIsLive, Faultless, ToDeclared, Live, Declared
<1> QED
  BY <1>1, <1>2, <1>3, <1>4 DEF DdlNext

\* The inductive invariant holds in every reachable state.
THEOREM DdlInvariantHolds == DdlSpec => []DdlInv
BY DdlInvInit, DdlInvStep, PTL DEF DdlSpec

\* Every reachable state is well typed.
THEOREM DdlTypeCorrect == DdlSpec => []DdlTypeOK
<1>1. DdlInv => DdlTypeOK
  BY DEF DdlInv
<1> QED
  BY <1>1, DdlInvariantHolds, PTL

\* Between operations the deployed version's columns are in its table, whatever
\* failed on the way there, unless its Create found the table.
THEOREM DeclaredColumnsLive == DdlSpec => []DeclaredIsLive
<1>1. DdlInv => DeclaredIsLive
  BY DEF DdlInv, DdlTypeOK, StackIsLive, DeclaredIsLive
<1> QED
  BY <1>1, DdlInvariantHolds, PTL

\* An update that the handler rejects can be rolled back.
THEOREM RejectedRollsBack == DdlSpec => []RejectedUpdateRollsBack
<1>1. DdlInv => RejectedUpdateRollsBack
  BY DEF DdlInv, Faultless, RejectedUpdateRollsBack
<1> QED
  BY <1>1, DdlInvariantHolds, PTL

\* Only the deletion of the stack drops its table.
THEOREM StackTableKept == DdlSpec => TableOfStackIsKept
<1>1. DdlInv /\ [DdlNext]_ddl_vars =>
         [\A v \in Versions :
            v = stack /\ tables[v.table] # {} /\ tables'[v.table] = {} => phase = "delete"]_ddl_vars
  <2> SUFFICES ASSUME DdlInv, DdlNext, stack \in Versions,
                      tables[stack.table] # {}, tables'[stack.table] = {}
               PROVE  phase = "delete"
    OBVIOUS
  <2>0. /\ DdlTypeOK /\ RequestFits /\ StackIsLive /\ stack.table \in Tables
        /\ tables \in [Tables -> SUBSET Columns]
    BY VersionFacts DEF DdlInv, DdlTypeOK
  <2>1. ASSUME pc = "drop", tables' = [tables EXCEPT ![req.table] = {}] PROVE phase = "delete"
    BY <2>0, <2>1 DEF DdlTypeOK, RequestFits, Phases
  <2>2. ASSUME \A t \in Tables : tables[t] \subseteq tables'[t] PROVE phase = "delete"
    BY <2>0, <2>2
  <2>3. CASE CreateTable
    BY <2>0, <2>2, <2>3, BusyFacts DEF CreateTable, Created
  <2>4. CASE AlterTable
    BY <2>0, <2>2, <2>4, BusyFacts DEF AlterTable
  <2>5. CASE DropTable
    BY <2>1, <2>5 DEF DropTable
  <2>6. CASE FailCall
    <3>1. pc # "idle"
      BY <2>6 DEF FailCall
    <3>2. CASE tables' = [tables EXCEPT ![req.table] = Created]
      BY <2>0, <2>2, <3>1, <3>2, BusyFacts DEF Created
    <3>3. CASE UNCHANGED tables
      BY <2>2, <3>3
    <3> QED
      BY <2>1, <2>6, <3>2, <3>3 DEF FailCall
  <2>7. ASSUME NEW o \in orphans, EndOrphan(o) PROVE phase = "delete"
    BY <2>0, <2>2, <2>7 DEF EndOrphan, DdlTypeOK
  <2>8. CASE ReadColumns \/ EndAlter \/ CloudFormation \/ UNCHANGED ddl_vars
    BY <2>2, <2>8 DEF ReadColumns, EndAlter, CloudFormation, Deploy, DeleteStack, Complete,
       RollBack, EndRollBack, Unstick, EndCleanup, EndDelete, ddl_vars
  <2> QED
    BY <2>3, <2>4, <2>5, <2>6, <2>7, <2>8 DEF DdlNext, Handler
<1> QED
  BY <1>1, DdlInvariantHolds, PTL DEF DdlSpec, TableOfStackIsKept
===============================================================================
