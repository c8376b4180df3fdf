---------------------------- MODULE MCSurroundings ----------------------------
(***************************************************************************)
(* Small instances of what surrounds the monitor: EventRouting, TableDdl   *)
(* and Submission.  They share nothing, so a behaviour is one of any of    *)
(* them: TLC explores their union, not the product.                        *)
(***************************************************************************)
EXTENDS EventRouting, TableDdl, Submission, TLC

\* Job type A requires the parameters, on either queue, or does not, or forgets
\* a terminal status; B shares A's queue, with A's job definition or its own.
Config(job_type_, queue_, definition_, requires_, statuses_) ==
    [job_type |-> job_type_, queue |-> queue_, definition |-> definition_,
     requires_bejm_parameters |-> requires_, tracked_statuses |-> statuses_,
     route_failures |-> job_type_ = "A",
     submitter_states |-> {"CLAIMED"}, state_names |-> {"AWAITING", "SUCCESS"}]
ConfigsOfA ==
    {Config("A", "q1", "d1", TRUE, Statuses), Config("A", "q2", "d1", TRUE, Statuses),
     Config("A", "q1", "d1", FALSE, Statuses),
     Config("A", "q1", "d1", TRUE, {"RUNNING", "SUCCEEDED"})}
ConfigsOfB ==
    {Config("B", "q1", "d1", TRUE, TERMINAL_STATUSES),
     Config("B", "q1", "d2", FALSE, TERMINAL_STATUSES)}
App(configs_) == [configs |-> configs_, custom |-> TRUE]
Alone == {a \in ConfigsOfA : a.queue = "q1" /\ a.requires_bejm_parameters}
SmallApps ==
    {App(<<b, a>>) : a \in ConfigsOfA, b \in ConfigsOfB} \cup {App(<<a>>) : a \in Alone}
        \cup {[App(<<a>>) EXCEPT !.custom = FALSE] : a \in {c \in ConfigsOfA : c.queue = "q1"}}

\* A table that gains columns, whose column is retyped, and that is renamed.
Col(name_, type_) == [name |-> name_, type |-> type_]
Version(table_, columns_, destroy_) ==
    [table |-> table_, columns |-> columns_, destroy |-> destroy_]
Schemas ==
    {Version("t", <<Col("a", "string")>>, FALSE),
     Version("t", <<Col("a", "string"), Col("b", "int"), Col("c", "int")>>, TRUE),
     Version("t", <<Col("a", "string"), Col("b", "string")>>, TRUE),
     Version("u", <<Col("a", "string"), Col("b", "int")>>, TRUE)}

\* Twins, one of which waits for ancillary data.
CONSTANTS s1, s2
Twins == <<"g1", "g2">>
LookedUp == <<AWAITING, FAILURE_RETRYABLE>>
TwoSubmitters == {s1, s2}
SubmitterSymmetry == Permutations(TwoSubmitters)

OneApp == CHOOSE app \in Apps : Valid(app)
RoutingAtStart == past = <<OneApp>> /\ functions = 1 /\ job = NoJob
DdlAtStart == deploys = 0
SubmissionAtStart == claim_declared /\ submitted = {} /\ runs + lookups = 0 /\ bucket = {}

\* A lookup reads none of the pointers that triggers and claims are about: it is
\* combined with one firing of the trigger, and a second firing goes without it.
OneOrTheOther == lookups = 0 \/ \A e \in Awaited : fired[e] <= 1

MCInit ==
    /\ RoutingInit /\ DdlInit /\ SubmissionInit
    /\ RoutingAtStart \/ SubmissionAtStart
MCNext ==
    \/ DdlAtStart /\ SubmissionAtStart /\ RoutingNext
       /\ UNCHANGED <<ddl_vars, submission_vars>>
    \/ RoutingAtStart /\ SubmissionAtStart /\ DdlNext
       /\ UNCHANGED <<routing_vars, submission_vars>>
    \/ RoutingAtStart /\ DdlAtStart /\ SubmissionNext /\ OneOrTheOther'
       /\ UNCHANGED <<routing_vars, ddl_vars>>
MCSpec == MCInit /\ [][MCNext]_<<routing_vars, ddl_vars, submission_vars>>
===============================================================================
