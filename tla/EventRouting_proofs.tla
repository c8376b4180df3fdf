-------------------------- MODULE EventRouting_proofs --------------------------
(***************************************************************************)
(* Proofs about EventRouting, for any apps that pass synth-time validation *)
(* and any sequence of deployments and roll-backs.                         *)
(***************************************************************************)
EXTENDS EventRouting, FiniteSetTheorems, WellFoundedInduction, TLAPS

-----------------------------------------------------------------------------
(* The inductive invariant *)

\* Deployed apps passed validation; the functions are never behind the rules.
DeploymentOK ==
    /\ past \in Seq(Apps)
    /\ \A k \in 1..Len(past) : Valid(past[k])
    /\ rules \in 1..Len(past) /\ functions \in rules..Len(past)

\* An event was handed over by a rule of the app whose rules were live.
Emitted(x) ==
    /\ x.rules \in 1..rules
    /\ \/ /\ x.path = "tracked"
          /\ \E c \in TrackedRules(past[x.rules], x.job, x.status) : c.job_type = x.rule
       \/ /\ x.path = "untracked"
          /\ \E c \in UntrackedRules(past[x.rules], x.job, x.status) : c.job_type = x.rule

RoutingInv ==
    /\ DeploymentOK
    /\ \A x \in Deliveries : Emitted(x)
    /\ \A e \in ended : e.rules \in 1..rules
    /\ TerminalIsRecorded

\* Job j was submitted to retry a failure that the handler recorded.
Provenance(j) ==
    \E h \in handled :
        /\ j.id = h.job.id + 1 /\ h.status = "FAILED" /\ h.routed
        /\ h.outcome = j.tag /\ j.tag \in JobTypes
        /\ \E k \in 1..Len(past) : \E c \in Named(past[k], j.tag) : InScope(c, j)

\* Jobs are numbered as they are submitted.
JobsOK ==
    /\ job.id \in 0..MaxJobs
    /\ job.id = 0 => job = NoJob
    /\ \A e \in ended :
          /\ e.job.id \in 1..job.id
          /\ e.status \in TERMINAL_STATUSES
          /\ e.job.id = job.id => e.job = job
    /\ job.id > 1 => Provenance(job)
    /\ \A e \in ended : e.job.id > 1 => Provenance(e.job)

\* What the rules made of every end: the catch-alls counted once, each tracked
\* rule with a delivery of its own.
EndsOK ==
    /\ untracked_queue \in [1..MaxJobs -> Nat]
    /\ \A id \in 1..MaxJobs : (\A e \in ended : e.job.id # id) => untracked_queue[id] = 0
    /\ \A e \in ended :
          /\ untracked_queue[e.job.id] = Cardinality(UntrackedRules(past[e.rules], e.job, e.status))
          /\ \A c \in TrackedRules(past[e.rules], e.job, e.status) :
                \E x \in Deliveries : /\ x.job = e.job /\ x.status = e.status
                                      /\ x.path = "tracked" /\ x.rule = c.job_type

\* What a resolver made of an event handed over under rules: an exception, or a
\* job type that the resolver's app does not require the parameters of.
ResolvedBy(app, outcome) ==
    /\ app.custom
    /\ outcome # "raised" => \E c \in Named(app, outcome) : ~c.requires_bejm_parameters
ResolvedOK ==
    \A h \in handled : h.job.tag = Absent /\ h.outcome # "UNTRACKED" =>
        \E k \in h.rules .. Len(past) : ResolvedBy(past[k], h.outcome)

EndInv == RoutingInv /\ JobsOK /\ EndsOK /\ ResolvedOK

-----------------------------------------------------------------------------
(* Rules *)

\* A deployed app has one configuration for a job type, and its queues are not mixed.
LEMMA AppFacts ==
    ASSUME DeploymentOK, NEW k \in 1..Len(past)
    PROVE  /\ past[k] \in Apps /\ Unmixed(Configs(past[k]))
           /\ \A c \in Configs(past[k]) :
                 /\ TERMINAL_STATUSES \subseteq c.tracked_statuses
                 /\ c.requires_bejm_parameters \in BOOLEAN
                 /\ c.job_type \in JobTypes /\ c.job_type # Absent
           /\ \A c, d \in Configs(past[k]) : c.job_type = d.job_type => c = d
           /\ DOMAIN past[k].configs \subseteq Nat
<1>1. past[k] \in Apps /\ Valid(past[k])
  BY DEF DeploymentOK
<1>2. AppType(past[k])
  BY <1>1, AppsAssumption
<1> QED
  BY <1>1, <1>2, NoTagAssumption
     DEF AppType, Valid, HandlerValid, Configs, TrackedStatusesValid

\* The first job type of a queue is one job type.
LEMMA FirstIsUnique ==
    ASSUME NEW configs, DOMAIN configs \subseteq Nat,
           NEW c \in first_job_type_per_queue(configs),
           NEW d \in first_job_type_per_queue(configs), c.queue = d.queue
    PROVE  c = d
<1>1. PICK i \in Requiring(configs) :
         c = configs[i] /\ \A j \in Requiring(configs) : j < i => configs[j].queue # configs[i].queue
  BY DEF first_job_type_per_queue
<1>2. PICK k \in Requiring(configs) :
         d = configs[k] /\ \A j \in Requiring(configs) : j < k => configs[j].queue # configs[k].queue
  BY DEF first_job_type_per_queue
<1>3. i \in Nat /\ k \in Nat
  BY DEF Requiring
<1>4. ~(i < k) /\ ~(k < i)
  BY <1>1, <1>2
<1> QED
  BY <1>1, <1>2, <1>3, <1>4

\* Two rules that hand over one event are tracked rules of one scope.
LEMMA RulesApart ==
    ASSUME DeploymentOK, NEW x, NEW y, Emitted(x), Emitted(y), x.job = y.job,
           x.status = y.status, x.rules = y.rules, <<x.path, x.rule>> # <<y.path, y.rule>>
    PROVE  /\ x.path = "tracked" /\ y.path = "tracked"
           /\ \A c \in Named(past[x.rules], x.rule), d \in Named(past[x.rules], y.rule) :
                 c.queue = d.queue /\ c.definition = d.definition
<1> DEFINE app == past[x.rules]
<1>0. x.rules \in 1..Len(past)
  BY DEF DeploymentOK, Emitted
<1>1. /\ Unmixed(Configs(app))
      /\ \A c, d \in Configs(app) : c.job_type = d.job_type => c = d
      /\ DOMAIN app.configs \subseteq Nat
  BY <1>0, AppFacts
<1>2. ASSUME NEW j, NEW s, NEW c \in TrackedRules(app, j, s)
      PROVE  /\ c \in Configs(app) /\ c.queue = j.queue /\ c.definition = j.definition
             /\ c.requires_bejm_parameters => j.tag # Absent
  BY DEF TrackedRules, InScope
<1>3. ASSUME NEW j, NEW s, NEW c \in UntrackedRules(app, j, s)
      PROVE  /\ c \in Configs(app) /\ c.queue = j.queue /\ j.tag = Absent
             /\ c.requires_bejm_parameters /\ c \in first_job_type_per_queue(app.configs)
  BY DEF UntrackedRules, first_job_type_per_queue, Requiring, Configs
<1>4. ASSUME NEW c \in TrackedRules(app, x.job, x.status),
             NEW d \in UntrackedRules(app, x.job, x.status)
      PROVE  FALSE
  BY <1>1, <1>2, <1>3, <1>4 DEF Unmixed
<1>5. ~(x.path = "untracked" /\ y.path = "untracked")
  <2> SUFFICES ASSUME x.path = "untracked", y.path = "untracked" PROVE FALSE
    OBVIOUS
  <2>1. PICK c \in UntrackedRules(app, x.job, x.status) : c.job_type = x.rule
    BY DEF Emitted
  <2>2. PICK d \in UntrackedRules(app, x.job, x.status) : d.job_type = y.rule
    BY DEF Emitted
  <2>3. c = d
    BY <1>1, <1>3, FirstIsUnique
  <2> QED
    BY <2>1, <2>2, <2>3
<1>6. x.path = "tracked" /\ y.path = "tracked"
  BY <1>4, <1>5 DEF Emitted
<1>7. PICK c \in TrackedRules(app, x.job, x.status) : c.job_type = x.rule
  BY <1>6 DEF Emitted
<1>8. PICK d \in TrackedRules(app, x.job, x.status) : d.job_type = y.rule
  BY <1>6 DEF Emitted
<1> QED
  BY <1>1, <1>2, <1>6, <1>7, <1>8 DEF Named

\* A step appends to past at most, and rules never go back.
LEMMA DeploymentStep ==
    ASSUME RoutingInv, [RoutingNext]_routing_vars
    PROVE  /\ DeploymentOK' /\ rules' \in Nat /\ rules' >= rules
           /\ Len(past') >= Len(past) /\ \A k \in 1..Len(past) : past'[k] = past[k]
<1>0. /\ past \in Seq(Apps) /\ Len(past) \in Nat /\ rules \in 1..Len(past)
      /\ functions \in rules..Len(past) /\ \A k \in 1..Len(past) : Valid(past[k]) /\ past[k] \in Apps
  BY DEF RoutingInv, DeploymentOK
<1>1. CASE UNCHANGED deployment
  BY <1>0, <1>1 DEF deployment, DeploymentOK
<1>2. ASSUME NEW app \in Apps, Valid(app), past' = Append(past, app),
             UNCHANGED <<functions, rules>>
      PROVE  /\ DeploymentOK' /\ rules' \in Nat /\ rules' >= rules
             /\ Len(past') >= Len(past) /\ \A k \in 1..Len(past) : past'[k] = past[k]
  <2>1. /\ past' \in Seq(Apps) /\ Len(past') = Len(past) + 1
        /\ past'[Len(past) + 1] = app /\ \A k \in 1..Len(past) : past'[k] = past[k]
    BY <1>0, <1>2
  <2> QED
    BY <1>0, <1>2, <2>1 DEF DeploymentOK
<1>3. ASSUME NEW app \in Apps, DeployApp(app)
      PROVE  Valid(app) /\ past' = Append(past, app) /\ UNCHANGED <<functions, rules>>
  BY <1>3 DEF DeployApp
<1>4. CASE RollBackApp
  <2>1. past[rules] \in Apps /\ Valid(past[rules])
    BY <1>0
  <2> QED
    BY <1>2, <1>4, <2>1 DEF RollBackApp
<1>5. CASE UpdateFunctions
  BY <1>0, <1>5 DEF UpdateFunctions, DeploymentOK
<1>6. CASE UpdateRules
  BY <1>0, <1>6 DEF UpdateRules, DeploymentOK
<1>7. ASSUME \/ \E queue \in Queues, definition \in Definitions, tag \in Tags :
                   SubmitJob(queue, definition, tag)
             \/ RunJob \/ \E status \in TERMINAL_STATUSES : EndJob(status)
             \/ \E h \in handled, config \in Configs(Live) : Resubmit(h, config)
             \/ \E i \in invocations : Handle(i)
             \/ UNCHANGED routing_vars
      PROVE  UNCHANGED deployment
  BY <1>7 DEF SubmitJob, RunJob, EndJob, Resubmit, Handle, routing_vars
<1> QED
  BY <1>1, <1>2, <1>3, <1>4, <1>5, <1>6, <1>7 DEF RoutingNext

\* What a rule handed over stays so under later deployments.
LEMMA EmittedStays ==
    ASSUME RoutingInv, [RoutingNext]_routing_vars, NEW x, Emitted(x)
    PROVE  Emitted(x)'
<1>1. x.rules \in 1..rules /\ rules \in 1..Len(past) /\ Len(past) \in Nat
  BY DEF Emitted, RoutingInv, DeploymentOK
<1>2. past'[x.rules] = past[x.rules] /\ x.rules \in 1..rules'
  BY <1>1, DeploymentStep
<1>3. ASSUME NEW app, NEW a PROVE app = a => \A j, s : /\ TrackedRules(app, j, s) = TrackedRules(a, j, s)
                                                      /\ UntrackedRules(app, j, s) = UntrackedRules(a, j, s)
  OBVIOUS
<1> QED
  BY <1>2, <1>3 DEF Emitted

\* The events that Emit hands over.
LEMMA EmitFacts ==
    ASSUME RoutingInv, NEW j, NEW s, Emit(j, s), UNCHANGED <<deployment, handled>>
    PROVE  /\ invocations \subseteq invocations'
           /\ \A x \in invocations' : x \in invocations \/ Emitted(x)'
           /\ \A c \in TrackedRules(past[rules], j, s) :
                 \E x \in invocations' : /\ x.job = j /\ x.status = s
                                         /\ x.path = "tracked" /\ x.rule = c.job_type
<1> DEFINE To(path, config) == [job |-> j, status |-> s, path |-> path,
                                rule |-> config.job_type, rules |-> rules]
<1>1. invocations' = invocations \cup {To("tracked", c) : c \in TrackedRules(past[rules], j, s)}
                          \cup {To("untracked", c) : c \in UntrackedRules(past[rules], j, s)}
  BY DEF Emit
<1>2. rules \in 1..rules' /\ past' = past /\ rules' = rules
  BY DEF deployment, RoutingInv, DeploymentOK
<1>3. \A path, c : /\ To(path, c).job = j /\ To(path, c).status = s /\ To(path, c).path = path
                   /\ To(path, c).rule = c.job_type /\ To(path, c).rules = rules
  OBVIOUS
<1> HIDE DEF To
<1>4. ASSUME NEW c \in TrackedRules(past[rules], j, s), NEW x, x = To("tracked", c)
      PROVE  Emitted(x)'
  BY <1>2, <1>3, <1>4 DEF Emitted
<1>5. ASSUME NEW c \in UntrackedRules(past[rules], j, s), NEW x, x = To("untracked", c)
      PROVE  Emitted(x)'
  BY <1>2, <1>3, <1>5 DEF Emitted
<1> QED
  BY <1>1, <1>3, <1>4, <1>5

-----------------------------------------------------------------------------
(* The step *)

\* Handling an event is recorded of it, with what its job's type comes to.
LEMMA HandleFacts ==
    ASSUME NEW i, Handle(i)
    PROVE  \E T \in Identified(i.job) : \E h :
              /\ handled' = handled \cup {h} /\ invocations' = invocations \ {i}
              /\ h.job = i.job /\ h.status = i.status /\ h.path = i.path /\ h.rule = i.rule
              /\ h.rules = i.rules /\ h.outcome = Outcome(i.job, T)
<1>1. PICK T \in Identified(i.job) : handled' = handled \cup
         {[job |-> i.job, status |-> i.status, path |-> i.path, rule |-> i.rule,
           rules |-> i.rules, functions |-> functions, outcome |-> Outcome(i.job, T),
           routed |-> \E config \in Named(Live, T) : config.route_failures]}
  BY DEF Handle
<1> DEFINE h == [job |-> i.job, status |-> i.status, path |-> i.path, rule |-> i.rule,
                 rules |-> i.rules, functions |-> functions, outcome |-> Outcome(i.job, T),
                 routed |-> \E config \in Named(Live, T) : config.route_failures]
<1>2. /\ h.job = i.job /\ h.status = i.status /\ h.path = i.path /\ h.rule = i.rule
      /\ h.rules = i.rules /\ h.outcome = Outcome(i.job, T)
  OBVIOUS
<1>3. handled' = handled \cup {h} /\ invocations' = invocations \ {i}
  BY <1>1 DEF Handle
<1> HIDE DEF h
<1> QED
  BY <1>2, <1>3

\* Every event handed over and handled came of a rule.
LEMMA DeliveriesStep ==
    ASSUME RoutingInv, [RoutingNext]_routing_vars
    PROVE  \A x \in Deliveries' : Emitted(x)'
<1>0. \A x \in Deliveries : Emitted(x)'
  BY EmittedStays DEF RoutingInv
<1>1. CASE Deliveries' \subseteq Deliveries
  BY <1>0, <1>1
<1>2. ASSUME NEW s, Emit(job, s), UNCHANGED <<deployment, handled>>
      PROVE  \A x \in Deliveries' : Emitted(x)'
  BY <1>0, <1>2, EmitFacts DEF Deliveries
<1>3. ASSUME NEW i \in invocations, Handle(i) PROVE \A x \in Deliveries' : Emitted(x)'
  <2>1. PICK h : /\ handled' = handled \cup {h} /\ invocations' = invocations \ {i}
                 /\ h.job = i.job /\ h.status = i.status /\ h.path = i.path /\ h.rule = i.rule
                 /\ h.rules = i.rules
    BY <1>3, HandleFacts
  <2>2. Emitted(i)'
    BY <1>0 DEF Deliveries
  <2>3. Emitted(h)'
    BY <2>1, <2>2 DEF Emitted
  <2> QED
    BY <1>0, <2>1, <2>3 DEF Deliveries
<1>4. CASE RunJob
  BY <1>2, <1>4 DEF RunJob
<1>5. ASSUME NEW s, EndJob(s) PROVE \A x \in Deliveries' : Emitted(x)'
  BY <1>2, <1>5 DEF EndJob
<1>6. ASSUME \/ \E queue \in Queues, definition \in Definitions, tag \in Tags :
                   SubmitJob(queue, definition, tag)
             \/ \E h \in handled, config \in Configs(Live) : Resubmit(h, config)
             \/ \E app \in Apps : DeployApp(app)
             \/ RollBackApp \/ UpdateFunctions \/ UpdateRules \/ UNCHANGED routing_vars
      PROVE  Deliveries' \subseteq Deliveries
  BY <1>6 DEF SubmitJob, Resubmit, DeployApp, RollBackApp, UpdateFunctions, UpdateRules,
     routing_vars, Deliveries
<1> QED
  BY <1>1, <1>3, <1>4, <1>5, <1>6 DEF RoutingNext

\* What is owed to the terminal event of e under config.
Recorded(e, config) ==
    \/ \E i \in invocations : i.job = e.job /\ i.status = e.status
    \/ \E h \in handled : /\ h.job = e.job /\ h.status = e.status
                          /\ h.outcome = config.job_type
    \/ \E k \in e.rules + 1 .. Len(past) : Named(past[k], config.job_type) = {}

\* The handler records the event of a job that carries its job type, or raises
\* because the functions that are live no longer have it.
LEMMA HandleRecords ==
    ASSUME RoutingInv, NEW e \in ended, NEW config \in Named(past[e.rules], e.job.tag),
           NEW i \in invocations, Handle(i), i.job = e.job, i.status = e.status
    PROVE  Recorded(e, config)'
<1>0. /\ e.rules \in 1..rules /\ rules \in 1..Len(past) /\ Len(past) \in Nat
      /\ functions \in rules..Len(past) /\ UNCHANGED deployment
  BY DEF RoutingInv, DeploymentOK, Handle
<1>1. config.job_type = e.job.tag /\ e.job.tag \in JobTypes /\ e.job.tag # Absent
  <2>1. config \in Configs(past[e.rules]) /\ config.job_type = e.job.tag
    BY DEF Named
  <2>2. e.rules \in 1..Len(past) /\ DeploymentOK
    BY <1>0 DEF RoutingInv
  <2> QED
    BY <2>1, <2>2, AppFacts
<1>2. Identified(i.job) = {e.job.tag}
  BY <1>1 DEF Identified
<1>3. PICK h \in handled' : h.job = i.job /\ h.status = i.status /\ h.outcome = Outcome(i.job, e.job.tag)
  BY <1>2, HandleFacts
<1>4. CASE Named(Live, e.job.tag) = {}
  <2>1. functions # e.rules
    BY <1>4 DEF Live
  <2>2. functions \in e.rules + 1 .. Len(past)
    BY <1>0, <2>1
  <2> QED
    BY <1>0, <1>1, <1>4, <2>2 DEF Recorded, Live, deployment
<1>5. CASE Named(Live, e.job.tag) # {}
  <2>1. Outcome(i.job, e.job.tag) = e.job.tag
    BY <1>1, <1>5 DEF Outcome
  <2> QED
    BY <1>1, <1>3, <2>1 DEF Recorded
<1> QED
  BY <1>4, <1>5

LEMMA RecordedStep ==
    ASSUME RoutingInv, [RoutingNext]_routing_vars
    PROVE  (\A e \in ended' : e.rules \in 1..rules') /\ TerminalIsRecorded'
<1>0. /\ \A e \in ended : e.rules \in 1..rules
      /\ rules \in 1..Len(past) /\ Len(past) \in Nat /\ Len(past') \in Nat
      /\ rules' \in Nat /\ rules' >= rules /\ Len(past') >= Len(past)
      /\ \A k \in 1..Len(past) : past'[k] = past[k]
  BY DeploymentStep DEF RoutingInv, DeploymentOK
<1>1. ASSUME NEW e \in ended, NEW config \in Named(past'[e.rules], e.job.tag), InScope(config, e.job)
      PROVE  Recorded(e, config)'
  <2>1. past'[e.rules] = past[e.rules]
    BY <1>0
  <2>2. config \in Named(past[e.rules], e.job.tag)
    BY <1>1, <2>1 DEF Named
  <2>3. Recorded(e, config)
    BY <1>1, <2>2 DEF RoutingInv, TerminalIsRecorded, Recorded
  <2>4. CASE handled \subseteq handled' /\ invocations \subseteq invocations'
    <3>1. \A k \in e.rules + 1 .. Len(past) :
             k \in e.rules + 1 .. Len(past') /\ Named(past'[k], config.job_type) = Named(past[k], config.job_type)
      BY <1>0
    <3> QED
      BY <2>3, <2>4, <3>1 DEF Recorded
  <2>5. ASSUME NEW i \in invocations, Handle(i) PROVE Recorded(e, config)'
    <3>1. CASE i.job = e.job /\ i.status = e.status
      BY <2>2, <2>5, <3>1, HandleRecords
    <3>2. CASE ~(i.job = e.job /\ i.status = e.status)
      BY <2>3, <2>5, <3>2 DEF Handle, Recorded, deployment
    <3> QED
      BY <3>1, <3>2
  <2>6. ASSUME \/ \E queue \in Queues, definition \in Definitions, tag \in Tags :
                     SubmitJob(queue, definition, tag)
               \/ RunJob \/ \E status \in TERMINAL_STATUSES : EndJob(status)
               \/ \E h \in handled, c \in Configs(Live) : Resubmit(h, c)
               \/ \E app \in Apps : DeployApp(app)
               \/ RollBackApp \/ UpdateFunctions \/ UpdateRules \/ UNCHANGED routing_vars
        PROVE  handled \subseteq handled' /\ invocations \subseteq invocations'
    BY <2>6 DEF SubmitJob, RunJob, EndJob, Emit, Resubmit, DeployApp, RollBackApp, UpdateFunctions,
       UpdateRules, routing_vars
  <2> QED
    BY <2>4, <2>5, <2>6 DEF RoutingNext
<1>2. ASSUME NEW s \in TERMINAL_STATUSES, EndJob(s)
      PROVE  \A e \in ended' : e.rules \in 1..rules' /\
                \A config \in Named(past'[e.rules], e.job.tag) :
                    InScope(config, e.job) => Recorded(e, config)'
  <2>1. PICK n : n = [job |-> job, status |-> s, rules |-> rules]
    OBVIOUS
  <2>2. /\ ended' = ended \cup {n} /\ UNCHANGED deployment /\ n.job = job /\ n.status = s
        /\ n.rules = rules
    BY <1>2, <2>1 DEF EndJob
  <2>3. ASSUME NEW config \in Named(past[rules], job.tag), InScope(config, job)
        PROVE  Recorded(n, config)'
    <3>1. /\ config \in Configs(past[rules]) /\ s \in config.tracked_statuses
          /\ config.job_type = job.tag /\ job.tag # Absent
      BY <1>0, AppFacts DEF Named, RoutingInv
    <3>2. config \in TrackedRules(past[rules], job, s)
      BY <2>3, <3>1 DEF TrackedRules
    <3>3. \E x \in invocations' : x.job = job /\ x.status = s
      BY <1>2, <3>2, EmitFacts DEF EndJob
    <3> QED
      BY <2>2, <3>3 DEF Recorded
  <2> QED
    BY <1>0, <1>1, <2>2, <2>3 DEF deployment
<1>3. CASE ended' = ended
  <2>1. \A e \in ended' : e.rules \in 1..rules'
    BY <1>0, <1>3
  <2>2. TerminalIsRecorded'
    BY <1>1, <1>3 DEF TerminalIsRecorded, Recorded
  <2> QED
    BY <2>1, <2>2
<1>4. ended' = ended \/ \E s \in TERMINAL_STATUSES : EndJob(s)
  BY DEF RoutingNext, SubmitJob, RunJob, Resubmit, Handle, DeployApp, RollBackApp,
     UpdateFunctions, UpdateRules, routing_vars
<1>5. ASSUME NEW s \in TERMINAL_STATUSES, EndJob(s) PROVE TerminalIsRecorded'
  BY <1>2, <1>5 DEF TerminalIsRecorded, Recorded
<1> QED
  BY <1>0, <1>2, <1>3, <1>4, <1>5

-----------------------------------------------------------------------------
(* The promises *)

LEMMA RoutingInitInv == RoutingInit => RoutingInv
<1> SUFFICES ASSUME RoutingInit PROVE RoutingInv
  OBVIOUS
<1>1. PICK app \in Apps : Valid(app) /\ past = <<app>>
  BY DEF RoutingInit
<1>2. past \in Seq(Apps) /\ Len(past) = 1 /\ past[1] = app
  BY <1>1
<1> QED
  BY <1>1, <1>2 DEF RoutingInit, RoutingInv, DeploymentOK, Deliveries, TerminalIsRecorded

LEMMA RoutingInvStep ==
    ASSUME RoutingInv, [RoutingNext]_routing_vars
    PROVE  RoutingInv'
BY DeploymentStep, DeliveriesStep, RecordedStep DEF RoutingInv

\* Whatever is deployed, the rules made every delivery and functions are never
\* behind rules.
THEOREM RoutingInvariantHolds == RoutingSpec => []RoutingInv
<1>1. RoutingInv /\ [RoutingNext]_routing_vars => RoutingInv'
  BY RoutingInvStep
<1> QED
  BY <1>1, RoutingInitInv, PTL DEF RoutingSpec

\* An event takes one path, whatever is deployed: the tracked and the catch-all
\* rules of one app never match the same event, nor do two catch-alls.
THEOREM OnePathTaken == RoutingSpec => []OnePath
<1>1. RoutingInv => OnePath
  BY RulesApart DEF RoutingInv, OnePath
<1> QED
  BY <1>1, RoutingInvariantHolds, PTL

\* A job that carries its job type, where the rules in force look for it, has its
\* end recorded, unless a later deployment takes the job type away.
THEOREM TerminalsRecorded == RoutingSpec => []TerminalIsRecorded
<1>1. RoutingInv => TerminalIsRecorded
  BY DEF RoutingInv
<1> QED
  BY <1>1, RoutingInvariantHolds, PTL

-----------------------------------------------------------------------------
(* The untracked queue counts every job once *)

\* Positions in job_type_configs have a first one.
LEMMA LeastPosition ==
    ASSUME NEW S \in SUBSET Nat, S # {}
    PROVE  \E i \in S : \A j \in S : ~(j < i)
<1> DEFINE Less == {ss \in Nat \X Nat : ss[1] < ss[2]}
<1>1. OpToRel(<, Nat) = Less
  BY Zenon DEF OpToRel
<1>2. IsWellFoundedOn(Less, Nat)
  BY <1>1, NatLessThanWellFounded, Zenon
<1>3. \A a, b \in Nat : a < b => <<a, b>> \in Less
  OBVIOUS
<1>4. S \subseteq Nat
  OBVIOUS
<1> HIDE DEF Less
<1>5. PICK i \in S : \A j \in S : ~(<<j, i>> \in Less)
  BY <1>2, <1>4, WFMin, Zenon
<1> QED
  BY <1>3, <1>4, <1>5, Zenon

\* A queue of job types that require the parameters has one catch-all.
LEMMA CatchAlls ==
    ASSUME DeploymentOK, NEW k \in 1..Len(past), NEW j, NEW s,
           NEW requiring,
           requiring = {c \in Configs(past[k]) : c.queue = j.queue /\ c.requires_bejm_parameters}
    PROVE  /\ Cardinality(UntrackedRules(past[k], j, s)) \in Nat
           /\ s \notin TERMINAL_STATUSES => Cardinality(UntrackedRules(past[k], j, s)) = 0
           /\ j.tag = Absent /\ s \in TERMINAL_STATUSES =>
                 Cardinality(UntrackedRules(past[k], j, s)) = IF requiring = {} THEN 0 ELSE 1
<1> DEFINE configs == past[k].configs
           rules_of == UntrackedRules(past[k], j, s)
           here == {i \in Requiring(configs) : configs[i].queue = j.queue}
<1>1. DOMAIN configs \subseteq Nat
  BY AppFacts
<1>2. rules_of \subseteq requiring
  BY DEF UntrackedRules, first_job_type_per_queue, Requiring, Configs
<1>3. \A c, d \in rules_of : c = d
  BY <1>1, FirstIsUnique DEF UntrackedRules
<1>4. rules_of = {} \/ \E c : rules_of = {c}
  BY <1>3
<1>5. ASSUME requiring # {}, j.tag = Absent, s \in TERMINAL_STATUSES
      PROVE  rules_of # {}
  <2>1. here # {} /\ here \in SUBSET Nat
    BY <1>1, <1>5 DEF Configs, Requiring
  <2>2. PICK i \in here : \A n \in here : ~(n < i)
    BY <2>1, LeastPosition
  <2>3. \A n \in Requiring(configs) : n < i => configs[n].queue # configs[i].queue
    BY <2>2
  <2>4. configs[i] \in first_job_type_per_queue(configs)
    BY <2>2, <2>3 DEF first_job_type_per_queue
  <2> QED
    BY <1>5, <2>2, <2>4 DEF UntrackedRules
<1>6. s \notin TERMINAL_STATUSES => rules_of = {}
  BY DEF UntrackedRules
<1>7. Cardinality({}) = 0 /\ \A c : Cardinality({c}) = 1
  BY FS_EmptySet, FS_Singleton
<1> HIDE DEF rules_of
<1>8. Cardinality(rules_of) \in Nat
  <2>1. Cardinality(rules_of) = 0 \/ Cardinality(rules_of) = 1
    BY <1>4, <1>7, Zenon
  <2> QED
    BY <2>1
<1>9. requiring = {} => Cardinality(rules_of) = 0
  BY <1>2, <1>7
<1>10. ASSUME requiring # {}, j.tag = Absent, s \in TERMINAL_STATUSES
       PROVE  Cardinality(rules_of) = 1
  BY <1>4, <1>5, <1>7, <1>10
<1>11. s \notin TERMINAL_STATUSES => Cardinality(rules_of) = 0
  BY <1>6, <1>7
<1> QED
  BY <1>8, <1>9, <1>10, <1>11 DEF rules_of

-----------------------------------------------------------------------------
(* The step of EndInv *)

\* What is handled stays so, and an event that was handed over stays delivered.
LEMMA DeliveryStays ==
    ASSUME RoutingInv, [RoutingNext]_routing_vars
    PROVE  /\ handled \subseteq handled'
           /\ \A x \in Deliveries : \E y \in Deliveries' :
                 y.job = x.job /\ y.status = x.status /\ y.path = x.path /\ y.rule = x.rule
<1>1. ASSUME NEW i \in invocations, Handle(i)
      PROVE  /\ handled \subseteq handled'
             /\ \A x \in Deliveries : \E y \in Deliveries' :
                   y.job = x.job /\ y.status = x.status /\ y.path = x.path /\ y.rule = x.rule
  <2>1. PICK h : /\ handled' = handled \cup {h} /\ invocations' = invocations \ {i}
                 /\ h.job = i.job /\ h.status = i.status /\ h.path = i.path /\ h.rule = i.rule
    BY <1>1, HandleFacts
  <2> QED
    BY <2>1 DEF Deliveries
<1>2. ASSUME \/ \E queue \in Queues, definition \in Definitions, tag \in Tags :
                   SubmitJob(queue, definition, tag)
             \/ RunJob \/ \E status \in TERMINAL_STATUSES : EndJob(status)
             \/ \E h \in handled, c \in Configs(Live) : Resubmit(h, c)
             \/ \E app \in Apps : DeployApp(app)
             \/ RollBackApp \/ UpdateFunctions \/ UpdateRules \/ UNCHANGED routing_vars
      PROVE  handled \subseteq handled' /\ invocations \subseteq invocations'
  BY <1>2 DEF SubmitJob, RunJob, EndJob, Emit, Resubmit, DeployApp, RollBackApp, UpdateFunctions,
     UpdateRules, routing_vars
<1> QED
  BY <1>1, <1>2 DEF RoutingNext, Deliveries

\* The configuration a job was retried with stays among those deployed.
LEMMA ProvenanceStays ==
    ASSUME RoutingInv, [RoutingNext]_routing_vars, NEW j, Provenance(j)
    PROVE  Provenance(j)'
<1>1. PICK h \in handled :
         /\ j.id = h.job.id + 1 /\ h.status = "FAILED" /\ h.routed
         /\ h.outcome = j.tag /\ j.tag \in JobTypes
         /\ \E k \in 1..Len(past) : \E c \in Named(past[k], j.tag) : InScope(c, j)
  BY DEF Provenance
<1>2. PICK k \in 1..Len(past) : \E c \in Named(past[k], j.tag) : InScope(c, j)
  BY <1>1
<1>3. h \in handled' /\ k \in 1..Len(past') /\ past'[k] = past[k]
  BY DeliveryStays, DeploymentStep DEF RoutingInv, DeploymentOK
<1>4. \E c \in Named(past'[k], j.tag) : InScope(c, j)
  BY <1>2, <1>3
<1> QED
  BY <1>1, <1>3, <1>4 DEF Provenance

\* Resubmit's job was retried.
LEMMA ResubmitProvenance ==
    ASSUME RoutingInv, JobsOK, NEW h \in handled, NEW config \in Configs(Live), Resubmit(h, config)
    PROVE  /\ job'.id = job.id + 1 /\ job'.id \in 0..MaxJobs /\ ended' = ended
           /\ Provenance(job)'
<1>1. PICK n : n = [id |-> job.id + 1, queue |-> config.queue, definition |-> config.definition,
                    tag |-> config.job_type]
  OBVIOUS
<1>2. /\ n.id = job.id + 1 /\ n.queue = config.queue /\ n.definition = config.definition
      /\ n.tag = config.job_type
  BY <1>1
<1>3. job' = n /\ h.job = job /\ job.id < MaxJobs /\ h.status = "FAILED"
      /\ h.outcome = config.job_type /\ h.routed /\ UNCHANGED <<past, functions, handled, ended>>
  BY <1>1 DEF Resubmit, deployment
<1>4. functions \in 1..Len(past) /\ DeploymentOK /\ Live = past[functions]
  BY DEF RoutingInv, DeploymentOK, Live
<1>5. config.job_type \in JobTypes /\ config \in Named(past[functions], config.job_type)
  BY <1>4, AppFacts DEF Named
<1>6. InScope(config, n)
  BY <1>2 DEF InScope
<1>7. job.id + 1 \in 0..MaxJobs
  BY <1>3, RoutingBounds DEF JobsOK
<1>8. h \in handled' /\ functions \in 1..Len(past')
      /\ config \in Named(past'[functions], n.tag)
  BY <1>2, <1>3, <1>4, <1>5
<1>9. Provenance(n)'
  BY <1>2, <1>3, <1>5, <1>6, <1>8 DEF Provenance
<1> QED
  BY <1>2, <1>3, <1>7, <1>9

LEMMA JobsStep ==
    ASSUME RoutingInv, JobsOK, [RoutingNext]_routing_vars
    PROVE  JobsOK'
<1>0. /\ \A j : Provenance(j) => Provenance(j)'
      /\ job.id \in Nat /\ MaxJobs \in Nat /\ 1 \in 0..MaxJobs
  BY ProvenanceStays, RoutingBounds DEF JobsOK
<1>1. CASE UNCHANGED <<job, ended>>
  BY <1>0, <1>1 DEF JobsOK
<1>2. ASSUME NEW queue, NEW definition, NEW tag, SubmitJob(queue, definition, tag)
      PROVE  JobsOK'
  <2>1. job.id = 0 /\ job'.id = 1 /\ ended' = ended
    BY <1>2 DEF SubmitJob, NoJob
  <2>2. ended = {}
    BY <2>1 DEF JobsOK
  <2> QED
    BY <1>0, <2>1, <2>2 DEF JobsOK
<1>3. ASSUME NEW s \in TERMINAL_STATUSES, EndJob(s) PROVE JobsOK'
  <2>1. PICK n : n = [job |-> job, status |-> s, rules |-> rules]
    OBVIOUS
  <2>2. ended' = ended \cup {n} /\ n.job = job /\ n.status = s /\ job' = job /\ job # NoJob
    BY <1>3, <2>1 DEF EndJob
  <2>3. job.id \in 1..job.id
    BY <1>0, <2>2 DEF JobsOK
  <2> QED
    BY <1>0, <2>2, <2>3 DEF JobsOK
<1>4. ASSUME NEW h \in handled, NEW config \in Configs(Live), Resubmit(h, config)
      PROVE  JobsOK'
  <2>1. /\ job'.id = job.id + 1 /\ job'.id \in 0..MaxJobs /\ ended' = ended
        /\ Provenance(job)'
    BY <1>4, ResubmitProvenance
  <2>2. \A e \in ended : e.job.id \in 1..job'.id /\ e.job.id # job'.id
    BY <1>0, <2>1 DEF JobsOK
  <2> QED
    BY <1>0, <2>1, <2>2 DEF JobsOK
<1>5. ASSUME \/ RunJob \/ \E i \in invocations : Handle(i)
             \/ \E app \in Apps : DeployApp(app)
             \/ RollBackApp \/ UpdateFunctions \/ UpdateRules \/ UNCHANGED routing_vars
      PROVE  UNCHANGED <<job, ended>>
  BY <1>5 DEF RunJob, Handle, DeployApp, RollBackApp, UpdateFunctions, UpdateRules, routing_vars
<1> QED
  BY <1>1, <1>2, <1>3, <1>4, <1>5 DEF RoutingNext

\* What the rules made of a job's end stays made.
LEMMA EndStays ==
    ASSUME RoutingInv, EndsOK, [RoutingNext]_routing_vars, NEW e \in ended
    PROVE  /\ UntrackedRules(past'[e.rules], e.job, e.status)
                 = UntrackedRules(past[e.rules], e.job, e.status)
           /\ \A c \in TrackedRules(past'[e.rules], e.job, e.status) :
                 \E x \in Deliveries' : /\ x.job = e.job /\ x.status = e.status
                                        /\ x.path = "tracked" /\ x.rule = c.job_type
<1>1. past'[e.rules] = past[e.rules]
  BY DeploymentStep DEF RoutingInv, DeploymentOK
<1>2. ASSUME NEW c \in TrackedRules(past'[e.rules], e.job, e.status)
      PROVE  \E x \in Deliveries' : /\ x.job = e.job /\ x.status = e.status
                                    /\ x.path = "tracked" /\ x.rule = c.job_type
  <2>1. c \in TrackedRules(past[e.rules], e.job, e.status)
    BY <1>1, <1>2
  <2>2. PICK x \in Deliveries : /\ x.job = e.job /\ x.status = e.status
                                /\ x.path = "tracked" /\ x.rule = c.job_type
    BY <2>1 DEF EndsOK
  <2>3. PICK y \in Deliveries' :
           y.job = x.job /\ y.status = x.status /\ y.path = x.path /\ y.rule = x.rule
    BY DeliveryStays
  <2> QED
    BY <2>2, <2>3
<1> QED
  BY <1>1, <1>2

\* The end of a job is the first of its number, and the catch-alls count it.
LEMMA EndJobStep ==
    ASSUME RoutingInv, JobsOK, EndsOK, [RoutingNext]_routing_vars,
           NEW s \in TERMINAL_STATUSES, EndJob(s)
    PROVE  EndsOK'
<1>1. PICK n : n = [job |-> job, status |-> s, rules |-> rules]
  OBVIOUS
<1>2. /\ ended' = ended \cup {n} /\ n.job = job /\ n.status = s /\ n.rules = rules
      /\ UNCHANGED <<deployment, job, handled>> /\ job # NoJob /\ Emit(job, s)
      /\ past' = past
  BY <1>1 DEF EndJob, deployment
<1> DEFINE count == Cardinality(UntrackedRules(past[rules], job, s))
<1>3. rules \in 1..Len(past) /\ DeploymentOK /\ count \in Nat
  <2>1. rules \in 1..Len(past) /\ DeploymentOK
    BY DEF RoutingInv, DeploymentOK
  <2> QED
    BY <2>1, CatchAlls
<1>4. job.id \in 1..MaxJobs /\ \A e \in ended : e.job.id # job.id
  <2>1. \A e \in ended : e.job # job
    BY DEF EndJob, HasEnded
  <2> QED
    BY <1>2, <2>1, RoutingBounds DEF JobsOK
<1>5. untracked_queue[job.id] = 0 /\ untracked_queue \in [1..MaxJobs -> Nat]
  BY <1>4 DEF EndsOK
<1>6. untracked_queue' = [untracked_queue EXCEPT ![job.id] = @ + count]
  BY <1>2 DEF Emit
<1> HIDE DEF count
<1>7. /\ untracked_queue' \in [1..MaxJobs -> Nat] /\ untracked_queue'[job.id] = count
      /\ \A id \in 1..MaxJobs : id # job.id => untracked_queue'[id] = untracked_queue[id]
  BY <1>3, <1>4, <1>5, <1>6
<1>8. \A c \in TrackedRules(past[rules], job, s) :
         \E x \in Deliveries' : /\ x.job = job /\ x.status = s
                                /\ x.path = "tracked" /\ x.rule = c.job_type
  BY <1>2, EmitFacts DEF Deliveries
<1>9. ASSUME NEW e \in ended
      PROVE  untracked_queue'[e.job.id] = Cardinality(UntrackedRules(past'[e.rules], e.job, e.status))
  <2>1. e.job.id \in 1..MaxJobs /\ e.job.id # job.id
    BY <1>4, RoutingBounds DEF JobsOK
  <2>2. untracked_queue[e.job.id] = Cardinality(UntrackedRules(past[e.rules], e.job, e.status))
    BY DEF EndsOK
  <2> QED
    BY <1>2, <1>7, <2>1, <2>2
<1>10. \A e \in ended : \A c \in TrackedRules(past'[e.rules], e.job, e.status) :
          \E x \in Deliveries' : /\ x.job = e.job /\ x.status = e.status
                                 /\ x.path = "tracked" /\ x.rule = c.job_type
  BY EndStays
<1>11. untracked_queue'[n.job.id] = Cardinality(UntrackedRules(past'[n.rules], n.job, n.status))
  BY <1>2, <1>7 DEF count
<1>12. \A c \in TrackedRules(past'[n.rules], n.job, n.status) :
          \E x \in Deliveries' : /\ x.job = n.job /\ x.status = n.status
                                 /\ x.path = "tracked" /\ x.rule = c.job_type
  BY <1>2, <1>8
<1>13. ASSUME NEW id \in 1..MaxJobs, \A e \in ended' : e.job.id # id
       PROVE  untracked_queue'[id] = 0
  BY <1>2, <1>7, <1>13 DEF EndsOK
<1> QED
  BY <1>2, <1>7, <1>9, <1>10, <1>11, <1>12, <1>13 DEF EndsOK

LEMMA EndsStep ==
    ASSUME RoutingInv, JobsOK, EndsOK, [RoutingNext]_routing_vars
    PROVE  EndsOK'
<1>1. CASE UNCHANGED <<ended, untracked_queue>>
  BY <1>1, EndStays DEF EndsOK
<1>2. CASE RunJob
  <2>1. Emit(job, "RUNNING") /\ ended' = ended /\ job # NoJob
    BY <1>2 DEF RunJob
  <2>2. rules \in 1..Len(past) /\ DeploymentOK /\ "RUNNING" \notin TERMINAL_STATUSES
    BY DEF RoutingInv, DeploymentOK, TERMINAL_STATUSES
  <2>3. Cardinality(UntrackedRules(past[rules], job, "RUNNING")) = 0
    BY <2>2, CatchAlls
  <2>4. job.id \in 1..MaxJobs /\ untracked_queue \in [1..MaxJobs -> Nat]
    BY <2>1, RoutingBounds DEF JobsOK, EndsOK
  <2>5. untracked_queue' = [untracked_queue EXCEPT ![job.id] = @ + 0]
    BY <2>1, <2>3 DEF Emit
  <2>6. untracked_queue' = untracked_queue
    BY <2>4, <2>5
  <2> QED
    BY <1>1, <2>1, <2>6
<1>3. ASSUME NEW s \in TERMINAL_STATUSES, EndJob(s) PROVE EndsOK'
  BY <1>3, EndJobStep
<1>4. ASSUME \/ \E queue \in Queues, definition \in Definitions, tag \in Tags :
                   SubmitJob(queue, definition, tag)
             \/ \E h \in handled, c \in Configs(Live) : Resubmit(h, c)
             \/ \E i \in invocations : Handle(i)
             \/ \E app \in Apps : DeployApp(app)
             \/ RollBackApp \/ UpdateFunctions \/ UpdateRules \/ UNCHANGED routing_vars
      PROVE  UNCHANGED <<ended, untracked_queue>>
  BY <1>4 DEF SubmitJob, Handle, Resubmit, DeployApp, RollBackApp, UpdateFunctions,
     UpdateRules, routing_vars
<1> QED
  BY <1>1, <1>2, <1>3, <1>4 DEF RoutingNext

\* The handler that raises or records a job without parameters has a resolver.
LEMMA ResolvedOutcome ==
    ASSUME NEW j, NEW T \in Identified(j), j.tag = Absent, Outcome(j, T) # "UNTRACKED"
    PROVE  ResolvedBy(Live, Outcome(j, T))
<1>1. T # Absent
  BY DEF Outcome
<1>2. Live.custom
  BY <1>1 DEF Identified
<1>3. Outcome(j, T) # "raised" =>
         /\ Outcome(j, T) = T
         /\ \E config \in Named(Live, T) : ~config.requires_bejm_parameters
  BY <1>1 DEF Outcome
<1> QED
  BY <1>2, <1>3 DEF ResolvedBy

\* Events are handled by functions no older than the rules that handed them over.
LEMMA ResolvedStep ==
    ASSUME RoutingInv, ResolvedOK, [RoutingNext]_routing_vars
    PROVE  ResolvedOK'
<1>0. /\ \A x \in Deliveries : x.rules \in 1..rules
      /\ rules \in 1..Len(past) /\ functions \in rules..Len(past)
      /\ Len(past) \in Nat /\ Len(past') \in Nat /\ Len(past') >= Len(past)
      /\ \A k \in 1..Len(past) : past'[k] = past[k]
  BY DeploymentStep DEF RoutingInv, DeploymentOK, Emitted
<1>1. ASSUME NEW h \in handled, h.job.tag = Absent, h.outcome # "UNTRACKED"
      PROVE  \E k \in h.rules .. Len(past') : ResolvedBy(past'[k], h.outcome)
  <2>1. PICK k \in h.rules .. Len(past) : ResolvedBy(past[k], h.outcome)
    BY <1>1 DEF ResolvedOK
  <2>2. h.rules \in 1..rules
    BY <1>0 DEF Deliveries
  <2>3. k \in h.rules .. Len(past') /\ past'[k] = past[k]
    BY <1>0, <2>2
  <2>4. ResolvedBy(past'[k], h.outcome)
    BY <2>1, <2>3
  <2> QED
    BY <2>3, <2>4
<1>2. CASE handled' = handled
  BY <1>1, <1>2 DEF ResolvedOK
<1>3. ASSUME NEW i \in invocations, Handle(i) PROVE ResolvedOK'
  <2>1. PICK T \in Identified(i.job) : \E h :
           /\ handled' = handled \cup {h} /\ h.job = i.job /\ h.rules = i.rules
           /\ h.outcome = Outcome(i.job, T)
    BY <1>3, HandleFacts
  <2>2. PICK h : /\ handled' = handled \cup {h} /\ h.job = i.job /\ h.rules = i.rules
                 /\ h.outcome = Outcome(i.job, T)
    BY <2>1
  <2>3. /\ functions \in h.rules .. Len(past') /\ past'[functions] = Live
    BY <1>0, <2>2 DEF Deliveries, Live
  <2>4. ASSUME h.job.tag = Absent, h.outcome # "UNTRACKED"
        PROVE  \E k \in h.rules .. Len(past') : ResolvedBy(past'[k], h.outcome)
    <3>1. ResolvedBy(Live, h.outcome)
      BY <2>2, <2>4, ResolvedOutcome
    <3>2. ResolvedBy(past'[functions], h.outcome)
      BY <2>3, <3>1
    <3> QED
      BY <2>3, <3>2
  <2> QED
    BY <1>1, <2>2, <2>4 DEF ResolvedOK
<1>4. ASSUME \/ \E queue \in Queues, definition \in Definitions, tag \in Tags :
                   SubmitJob(queue, definition, tag)
             \/ RunJob \/ \E status \in TERMINAL_STATUSES : EndJob(status)
             \/ \E h \in handled, c \in Configs(Live) : Resubmit(h, c)
             \/ \E app \in Apps : DeployApp(app)
             \/ RollBackApp \/ UpdateFunctions \/ UpdateRules \/ UNCHANGED routing_vars
      PROVE  handled' = handled
  BY <1>4 DEF SubmitJob, RunJob, EndJob, Resubmit, DeployApp, RollBackApp, UpdateFunctions,
     UpdateRules, routing_vars
<1> QED
  BY <1>2, <1>3, <1>4 DEF RoutingNext

LEMMA EndInvInit == RoutingInit => EndInv
<1> SUFFICES ASSUME RoutingInit PROVE EndInv
  OBVIOUS
<1>1. RoutingInv
  BY RoutingInitInv
<1>2. JobsOK
  BY RoutingBounds DEF RoutingInit, JobsOK, NoJob
<1>3. EndsOK
  BY DEF RoutingInit, EndsOK
<1> QED
  BY <1>1, <1>2, <1>3 DEF RoutingInit, EndInv, ResolvedOK

\* Each job's type is that of the failure it retries, each end was delivered by the
\* rules it met, and each event of a job without parameters that raised or was
\* recorded went through a resolver, of an app no older than those rules.
THEOREM EndInvariantHolds == RoutingSpec => []EndInv
<1>1. EndInv /\ [RoutingNext]_routing_vars => EndInv'
  BY RoutingInvStep, JobsStep, EndsStep, ResolvedStep DEF EndInv
<1> QED
  BY <1>1, EndInvInit, PTL DEF RoutingSpec

-----------------------------------------------------------------------------
(* The promises to untracked and to retried jobs *)

\* Whatever the resolver answers, and whatever is deployed between a job's end and
\* its handling: the end of a job without parameters is counted once in the
\* untracked queue if a job type of its queue required them and not at all
\* otherwise, and only a resolver deployed with or after the rules that handed
\* an event over can make it raise or record it, under a job type that its app
\* does not require them of.
THEOREM UntrackedKept == RoutingSpec => []UntrackedIsKept
<1>1. ASSUME EndInv, NEW e \in ended, e.job.tag = Absent
      PROVE  /\ untracked_queue[e.job.id] =
                   IF \E c \in Configs(past[e.rules]) :
                         c.queue = e.job.queue /\ c.requires_bejm_parameters
                   THEN 1 ELSE 0
             /\ \A h \in handled : h.job = e.job /\ h.outcome # "UNTRACKED" =>
                   \E k \in h.rules .. Len(past) : ResolvedBy(past[k], h.outcome)
  <2> DEFINE requiring == {c \in Configs(past[e.rules]) :
                              c.queue = e.job.queue /\ c.requires_bejm_parameters}
  <2>1. /\ DeploymentOK /\ e.rules \in 1..Len(past) /\ e.status \in TERMINAL_STATUSES
    BY <1>1 DEF EndInv, RoutingInv, DeploymentOK, JobsOK
  <2>2. untracked_queue[e.job.id] = Cardinality(UntrackedRules(past[e.rules], e.job, e.status))
    BY <1>1 DEF EndInv, EndsOK
  <2>3. untracked_queue[e.job.id] = IF requiring = {} THEN 0 ELSE 1
    BY <1>1, <2>1, <2>2, CatchAlls
  <2>4. requiring = {} <=> ~(\E c \in Configs(past[e.rules]) :
                                c.queue = e.job.queue /\ c.requires_bejm_parameters)
    OBVIOUS
  <2>5. ASSUME NEW h \in handled, h.job = e.job, h.outcome # "UNTRACKED"
        PROVE  \E k \in h.rules .. Len(past) : ResolvedBy(past[k], h.outcome)
    BY <1>1, <2>5 DEF EndInv, ResolvedOK
  <2> HIDE DEF requiring
  <2> QED
    BY <2>3, <2>4, <2>5
<1>2. EndInv => UntrackedIsKept
  BY <1>1 DEF UntrackedIsKept, ResolvedBy
<1> QED
  BY <1>2, EndInvariantHolds, PTL

\* Resubmission retries a failure that the handler recorded, and hands Batch the
\* job type's own parameters: the end of the retried job matches that job type's
\* rule, unless deployments have moved the job type or taken it away.
THEOREM RetriedFollowed == RoutingSpec => []RetriedIsFollowed
<1>1. ASSUME EndInv, NEW e \in ended, e.job.id > 1
      PROVE  \E h \in handled :
                /\ e.job.id = h.job.id + 1 /\ h.status = "FAILED" /\ h.routed
                /\ h.outcome = e.job.tag /\ h.outcome \in JobTypes
                /\ \/ \E x \in Deliveries : /\ x.job = e.job /\ x.status = e.status
                                            /\ x.path = "tracked" /\ x.rule = h.outcome
                   \/ Moved(h.outcome)
                   \/ \E k \in DOMAIN past : Named(past[k], h.outcome) = {}
  <2>1. /\ DeploymentOK /\ e.rules \in 1..Len(past) /\ DOMAIN past = 1..Len(past)
        /\ e.status \in TERMINAL_STATUSES /\ Provenance(e.job)
    BY <1>1 DEF EndInv, RoutingInv, DeploymentOK, JobsOK
  <2>2. PICK h \in handled :
           /\ e.job.id = h.job.id + 1 /\ h.status = "FAILED" /\ h.routed
           /\ h.outcome = e.job.tag /\ e.job.tag \in JobTypes
           /\ \E k \in 1..Len(past) : \E c \in Named(past[k], e.job.tag) : InScope(c, e.job)
    BY <2>1 DEF Provenance
  <2>3. ASSUME ~Moved(h.outcome), \A k \in DOMAIN past : Named(past[k], h.outcome) # {}
        PROVE  \E x \in Deliveries : /\ x.job = e.job /\ x.status = e.status
                                     /\ x.path = "tracked" /\ x.rule = h.outcome
    <3>0. PICK k \in 1..Len(past) : \E c \in Named(past[k], h.outcome) : InScope(c, e.job)
      BY <2>2
    <3>1. PICK c \in Named(past[k], h.outcome) : InScope(c, e.job)
      BY <3>0
    <3>2. PICK d \in Named(past[e.rules], h.outcome) : TRUE
      BY <2>1, <2>3
    <3>3. /\ [queue |-> c.queue, definition |-> c.definition] \in Scopes(h.outcome)
          /\ [queue |-> d.queue, definition |-> d.definition] \in Scopes(h.outcome)
      BY <2>1 DEF Scopes
    <3>4. d.queue = c.queue /\ d.definition = c.definition
      <4>1. [queue |-> c.queue, definition |-> c.definition]
               = [queue |-> d.queue, definition |-> d.definition]
        BY <2>3, <3>3 DEF Moved
      <4> QED
        BY <4>1
    <3>5. /\ d \in Configs(past[e.rules]) /\ d.job_type = h.outcome
          /\ e.status \in d.tracked_statuses /\ d.job_type # Absent
      BY <2>1, AppFacts DEF Named
    <3>6. d \in TrackedRules(past[e.rules], e.job, e.status)
      BY <2>2, <3>1, <3>4, <3>5 DEF TrackedRules, InScope
    <3> QED
      BY <1>1, <3>5, <3>6 DEF EndInv, EndsOK
  <2> QED
    BY <2>2, <2>3
<1>2. EndInv => RetriedIsFollowed
  BY <1>1 DEF RetriedIsFollowed
<1> QED
  BY <1>2, EndInvariantHolds, PTL
===============================================================================
