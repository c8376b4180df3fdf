----------------------------- MODULE EventRouting -----------------------------
(***************************************************************************)
(* Which path a Batch job's events take: the EventBridge rules that        *)
(* JobMonitorFunction builds from the job types' configuration, what it    *)
(* rejects at synth time, and what the bundled handler makes of an event   *)
(* that a rule hands it, while the configuration is deployed anew.         *)
(*                                                                         *)
(* Jobs do not interact here, so there is one, and the jobs it is retried  *)
(* as.  CloudFormation updates a rule after the function that is its       *)
(* target; the two functions, monitor and resubmit, are updated in one     *)
(* step.  Failed and repeated deliveries are RetryLoop's and JobMonitor's. *)
(***************************************************************************)
EXTENDS Naturals, Sequences, FiniteSets

CONSTANTS
    Apps,        \* what may be synthesized, see AppType
    JobTypes,    \* job types a job may name in bejm_job_type
    Queues,      \* Batch job queues
    Definitions, \* job definition families
    MaxApps,     \* bound: deployments; one roll-back may follow the last
    MaxJobs      \* bound: the job and its resubmissions

NONTERMINAL_STATUSES == {"PENDING", "RUNNABLE", "STARTING", "RUNNING"}
TERMINAL_STATUSES == {"SUCCEEDED", "FAILED"}
Statuses == NONTERMINAL_STATUSES \cup TERMINAL_STATUSES

\* No bejm_job_type; and one whose other bejm_* parameters do not decode.
Absent == "absent"
Malformed == "malformed"
Tags == JobTypes \cup {Absent, Malformed}

\* job_type_configs, in the order of the dict, and whether entry/index override
\* the bundled handler.
AppType(app) ==
    /\ app.custom \in BOOLEAN /\ DOMAIN app.configs \subseteq Nat
    /\ \A i \in DOMAIN app.configs :
          LET config == app.configs[i]
          IN  /\ config.job_type \in JobTypes
              /\ config.queue \in Queues /\ config.definition \in Definitions
              /\ config.requires_bejm_parameters \in BOOLEAN
              /\ config.route_failures \in BOOLEAN
    /\ \A i, j \in DOMAIN app.configs :
          app.configs[i].job_type = app.configs[j].job_type => i = j

ASSUME AppsAssumption == \A app \in Apps : AppType(app)
ASSUME NoTagAssumption == JobTypes \cap {Absent, Malformed, "UNTRACKED", "raised"} = {}
ASSUME RoutingBounds == MaxApps \in Nat /\ MaxJobs \in Nat \ {0}

VARIABLES
    past,        \* the apps deployed so far, the one that is deployed last
    functions,   \* index in past of the app whose functions are live
    rules,       \* index in past of the app whose rules are live
    job,         \* the Batch job that was submitted last
    ended,       \* the jobs that have ended, under which rules
    invocations, \* events the rules have handed to the monitor function
    handled,     \* events its handler is done with, and how
    untracked_queue \* messages in it, counted by job

deployment == <<past, functions, rules>>
routing_vars == <<deployment, job, ended, invocations, handled, untracked_queue>>

Live == past[functions]
Configs(app) == {app.configs[i] : i \in DOMAIN app.configs}
Named(app, T) == {config \in Configs(app) : config.job_type = T}

-----------------------------------------------------------------------------
(* Synth-time validation *)

\* _validate_tracked_statuses: statuses Batch emits, the terminal ones among them.
TrackedStatusesValid(config) ==
    TERMINAL_STATUSES \subseteq config.tracked_statuses /\ config.tracked_statuses \subseteq Statuses

\* _validate_submitter_states, of names that make one key segment.
SubmitterStatesValid(config) == config.submitter_states \cap config.state_names = {}

\* _validate_handler: who resolves jobs without parameters, and no queue shared
\* by job types that do and do not require them.
Resolvable(app) ==
    (\E config \in Configs(app) : ~config.requires_bejm_parameters) => app.custom
Unmixed(configs) ==
    \A c, d \in configs :
        c.queue = d.queue => c.requires_bejm_parameters = d.requires_bejm_parameters

\* Mutant: mixed queues pass.
HandlerResolvable(app) == Resolvable(app)

HandlerValid(app) == Resolvable(app) /\ Unmixed(Configs(app))

Valid(app) ==
    /\ \A config \in Configs(app) : TrackedStatusesValid(config) /\ SubmitterStatesValid(config)
    /\ HandlerValid(app)

-----------------------------------------------------------------------------
(* EventBridge rules *)

\* self.rules: the scope of a job type, and bejm_job_type where it is required.
InScope(config, j) == j.queue = config.queue /\ j.definition = config.definition
TrackedRules(app, j, status) ==
    {config \in Configs(app) :
        /\ InScope(config, j) /\ status \in config.tracked_statuses
        /\ config.requires_bejm_parameters => j.tag # Absent}

\* The configurations that require the parameters, by their position.
Requiring(configs) == {k \in DOMAIN configs : configs[k].requires_bejm_parameters}

\* Mutant: a catch-all rule for every job type that requires the parameters.
one_per_job_type(configs) == {configs[k] : k \in Requiring(configs)}

\* _first_job_type_per_queue, of those that require the parameters.
first_job_type_per_queue(configs) ==
    {configs[k] : k \in {i \in Requiring(configs) :
        \A j \in Requiring(configs) : j < i => configs[j].queue # configs[i].queue}}

\* self.untracked_rules: the catch-all of each queue.
UntrackedRules(app, j, status) ==
    {config \in first_job_type_per_queue(app.configs) :
        j.queue = config.queue /\ status \in TERMINAL_STATUSES /\ j.tag = Absent}

\* An event goes to the target or targets of every rule that matches it.
Emit(j, status) ==
    LET tracked == TrackedRules(past[rules], j, status)
        untracked == UntrackedRules(past[rules], j, status)
        To(path, config) == [job |-> j, status |-> status, path |-> path,
                             rule |-> config.job_type, rules |-> rules]
    IN  /\ invocations' = invocations \cup {To("tracked", config) : config \in tracked}
                                      \cup {To("untracked", config) : config \in untracked}
        /\ untracked_queue' =
              [untracked_queue EXCEPT ![j.id] = @ + Cardinality(untracked)]

-----------------------------------------------------------------------------
(* Batch *)

NoJob == [id |-> 0, queue |-> "none", definition |-> "none", tag |-> Absent]

\* Any caller of SubmitJob, with or without JobGroup.to_batch_parameters.
SubmitJob(queue, definition, tag) ==
    /\ job = NoJob
    /\ job' = [id |-> 1, queue |-> queue, definition |-> definition, tag |-> tag]
    /\ UNCHANGED <<deployment, ended, invocations, handled, untracked_queue>>

HasEnded(j) == \E e \in ended : e.job = j

\* RUNNING stands for the statuses before the last.
RunJob ==
    /\ job # NoJob /\ ~HasEnded(job)
    /\ \A x \in invocations \cup handled : ~(x.job = job /\ x.status = "RUNNING")
    /\ Emit(job, "RUNNING")
    /\ UNCHANGED <<deployment, job, ended, handled>>

EndJob(status) ==
    /\ job # NoJob /\ ~HasEnded(job)
    /\ ended' = ended \cup {[job |-> job, status |-> status, rules |-> rules]}
    /\ Emit(job, status)
    /\ UNCHANGED <<deployment, job, handled>>

\* Mutant: the retried job does not carry the parameters.
ResubmitWithoutParameters(h, config) ==
    /\ h.job = job /\ job.id < MaxJobs
    /\ h.status = "FAILED" /\ h.outcome = config.job_type /\ h.routed
    /\ job' = [id |-> job.id + 1, queue |-> config.queue, definition |-> config.definition,
               tag |-> Absent]
    /\ UNCHANGED <<deployment, ended, invocations, handled, untracked_queue>>

\* resubmit_job, with the queue, definition and parameters of the job type that
\* recorded the failure; the retry queue and its failures are RetryLoop's.
Resubmit(h, config) ==
    /\ h.job = job /\ job.id < MaxJobs
    /\ h.status = "FAILED" /\ h.outcome = config.job_type /\ h.routed
    /\ job' = [id |-> job.id + 1, queue |-> config.queue, definition |-> config.definition,
               tag |-> config.job_type]
    /\ UNCHANGED <<deployment, ended, invocations, handled, untracked_queue>>

-----------------------------------------------------------------------------
(* The handler *)

\* The consumer's resolver is its own code: it may name any job type, configured
\* or not and wherever the job ran, none at all, or raise.
Resolutions == Tags

\* What decoding or resolving the job's group comes to: a job type, Absent for an
\* untracked job, Malformed for an exception.
Identified(j) ==
    IF j.tag # Absent THEN {j.tag}
    ELSE IF Live.custom THEN Resolutions ELSE {Absent}

\* How the handler ends for a job type: under its config, or with a ValueError.
Outcome(j, T) ==
    IF T = Absent THEN "UNTRACKED"
    ELSE IF \E config \in Named(Live, T) : j.tag # Absent \/ ~config.requires_bejm_parameters
    THEN T ELSE "raised"

Handle(i) ==
    /\ \E T \in Identified(i.job) :
          handled' = handled \cup
              {[job |-> i.job, status |-> i.status, path |-> i.path, rule |-> i.rule,
                rules |-> i.rules, functions |-> functions, outcome |-> Outcome(i.job, T),
                routed |-> \E config \in Named(Live, T) : config.route_failures]}
    /\ invocations' = invocations \ {i}
    /\ UNCHANGED <<deployment, job, ended, untracked_queue>>

-----------------------------------------------------------------------------
(* Deployment *)

Deployed == functions = Len(past) /\ rules = Len(past)

DeployApp(app) ==
    /\ Deployed /\ Len(past) < MaxApps
    /\ Valid(app)
    /\ past' = Append(past, app)
    /\ UNCHANGED <<functions, rules, job, ended, invocations, handled, untracked_queue>>

\* The stack's update fails: back to the app whose rules are live.
RollBackApp ==
    /\ ~Deployed /\ Len(past) <= MaxApps
    /\ past[Len(past)] # past[rules]
    /\ past' = Append(past, past[rules])
    /\ UNCHANGED <<functions, rules, job, ended, invocations, handled, untracked_queue>>

UpdateFunctions ==
    /\ functions < Len(past)
    /\ functions' = Len(past)
    /\ UNCHANGED <<past, rules, job, ended, invocations, handled, untracked_queue>>

\* Mutant: rules do not wait for the function.
UpdateRulesAtOnce ==
    /\ rules < Len(past)
    /\ rules' = Len(past)
    /\ UNCHANGED <<past, functions, job, ended, invocations, handled, untracked_queue>>

\* The rules refer to the function, by which CloudFormation updates it first.
UpdateRules ==
    /\ rules < Len(past) /\ functions = Len(past)
    /\ rules' = Len(past)
    /\ UNCHANGED <<past, functions, job, ended, invocations, handled, untracked_queue>>

RoutingInit ==
    /\ \E app \in Apps : Valid(app) /\ past = <<app>>
    /\ functions = 1 /\ rules = 1
    /\ job = NoJob
    /\ ended = {} /\ invocations = {} /\ handled = {}
    /\ untracked_queue = [id \in 1..MaxJobs |-> 0]

\* The last job has ended, its events are handled, and nothing is deployed.
AtRest ==
    /\ Deployed /\ Len(past) >= MaxApps
    /\ invocations = {} /\ HasEnded(job)

RoutingNext ==
    \/ \E queue \in Queues, definition \in Definitions, tag \in Tags :
          SubmitJob(queue, definition, tag)
    \/ RunJob \/ \E status \in TERMINAL_STATUSES : EndJob(status)
    \/ \E h \in handled, config \in Configs(Live) : Resubmit(h, config)
    \/ \E i \in invocations : Handle(i)
    \/ \E app \in Apps : DeployApp(app)
    \/ RollBackApp \/ UpdateFunctions \/ UpdateRules
    \/ AtRest /\ UNCHANGED routing_vars

RoutingSpec == RoutingInit /\ [][RoutingNext]_routing_vars

-----------------------------------------------------------------------------
(* Properties *)

Deliveries == invocations \cup handled

\* No event takes two paths ("complements, so exactly one path handles each
\* job"): when rules hand one event to the function twice, they are the tracked
\* rules of two job types that share their queue and their job definition.
OnePath ==
    \A x, y \in Deliveries :
        /\ x.job = y.job /\ x.status = y.status /\ x.rules = y.rules
        /\ <<x.path, x.rule>> # <<y.path, y.rule>>
        => /\ x.path = "tracked" /\ y.path = "tracked"
           /\ \A c \in Named(past[x.rules], x.rule), d \in Named(past[x.rules], y.rule) :
                 c.queue = d.queue /\ c.definition = d.definition

\* What ended is recorded: a job that carries its job type and runs where the
\* rules in force look for it has its terminal event recorded under that type's
\* configuration, unless a later deployment takes the job type away before the
\* handler sees the event ("without terminal statuses no job is ever recorded
\* as finished").
TerminalIsRecorded ==
    \A e \in ended : \A config \in Named(past[e.rules], e.job.tag) :
        InScope(config, e.job) =>
            \/ \E i \in invocations : i.job = e.job /\ i.status = e.status
            \/ \E h \in handled : /\ h.job = e.job /\ h.status = e.status
                                  /\ h.outcome = config.job_type
            \/ \E k \in e.rules + 1 .. Len(past) : Named(past[k], config.job_type) = {}

\* A job without parameters is kept or identified, whatever is deployed around it:
\* its end is in the untracked queue once if a job type of its queue required
\* them, and not at all otherwise; and no event of it raises, or enters a record,
\* but by the resolver of an app deployed no earlier than the rules that handed
\* the event over, and under a job type that this app does not require them of.
UntrackedIsKept ==
    \A e \in ended : e.job.tag = Absent =>
        /\ untracked_queue[e.job.id] =
              IF \E c \in Configs(past[e.rules]) : c.queue = e.job.queue /\ c.requires_bejm_parameters
              THEN 1 ELSE 0
        /\ \A h \in handled : h.job = e.job /\ h.outcome # "UNTRACKED" =>
              \E k \in h.rules .. Len(past) :
                 /\ past[k].custom
                 /\ h.outcome # "raised" =>
                       \E c \in Named(past[k], h.outcome) : ~c.requires_bejm_parameters

\* A retried job is followed: it carries the job type of a failure of the job
\* before it, and its end matches that job type's rule, unless the deployments
\* have moved the job type or taken it away.
Scopes(T) == {[queue |-> c.queue, definition |-> c.definition] :
                c \in UNION {Named(past[k], T) : k \in DOMAIN past}}
Moved(T) == \E s, t \in Scopes(T) : s # t
RetriedIsFollowed ==
    \A e \in ended : e.job.id > 1 =>
        \E h \in handled :
            /\ e.job.id = h.job.id + 1 /\ h.status = "FAILED" /\ h.routed
            /\ h.outcome = e.job.tag /\ h.outcome \in JobTypes
            /\ \/ \E x \in Deliveries : /\ x.job = e.job /\ x.status = e.status
                                        /\ x.path = "tracked" /\ x.rule = h.outcome
               \/ Moved(h.outcome)
               \/ \E k \in DOMAIN past : Named(past[k], h.outcome) = {}
===============================================================================
