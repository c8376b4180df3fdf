------------------------------ MODULE JobDetails ------------------------------
(***************************************************************************)
(* How a job type's exit-code taxonomy is built and deployed (models.py),  *)
(* and how JobDetails.classify (job_details.py) turns the detail of a job  *)
(* state change event into a processing state under it.                    *)
(*                                                                         *)
(* A Python dict is a sequence of entries in insertion order.  An exit     *)
(* code is a name; a status reason is "spot" when it starts with a         *)
(* spot-interruption prefix and "other" when it does not.  None stands for *)
(* a field that is absent, at whatever depth of the detail it is missing.  *)
(***************************************************************************)
EXTENDS ProcessingStates, SequencesExt

CONSTANTS
    Codes,   \* exit codes a container may end with
    Names,   \* names an outcome may be given
    MaxAdds  \* bound: calls of ExitCodeOutcomesBuilder.add

ASSUME AddsAssumption == MaxAdds \in Nat

None == "none"

BATCH_EVENT_STATUSES ==
    {"PENDING", "RUNNABLE", "STARTING", "RUNNING", "SUCCEEDED", "FAILED"}
AWAITING_STATUSES == {"PENDING", "RUNNABLE", "STARTING", "RUNNING"}

ExitCodeOutcome == [name : Names, dlq : BOOLEAN, retryable : BOOLEAN]

\* A field of the detail at the top level, and in its last attempt.
Field(values) == [top : values \cup {None}, last : values \cup {None}]
Detail == [status : BATCH_EVENT_STATUSES, exitCode : Field(Codes),
           statusReason : Field({"spot", "other"})]

\* Before the first event.
NoDetail ==
    [status |-> None, exitCode |-> [top |-> None, last |-> None],
     statusReason |-> [top |-> None, last |-> None]]
NoState == [name |-> None, kind |-> None, dlq |-> FALSE]

VARIABLES
    by_exit_code, \* the outcomes declared so far
    adds,         \* calls of the builder's add
    detail,       \* the event at hand
    state         \* what classify returned for it

vars == <<by_exit_code, adds, detail, state>>

-----------------------------------------------------------------------------
\* dict[key] = value: an entry that is there keeps its place.
Assign(dict, key, value) ==
    IF \E i \in DOMAIN dict : dict[i].key = key
    THEN [i \in DOMAIN dict |->
             IF dict[i].key = key THEN [key |-> key, value |-> value] ELSE dict[i]]
    ELSE Append(dict, [key |-> key, value |-> value])

to_processing_state(outcome) ==
    [name |-> outcome.name, dlq |-> outcome.dlq,
     kind |-> IF outcome.retryable THEN "RETRYABLE_FAILURE" ELSE "NONRETRYABLE_FAILURE"]

\* Mutant: exit codes that share a name each declare a state.
states_uncollapsed(outcomes) ==
    BASELINE_PROCESSING_STATES
        \o [i \in DOMAIN outcomes |-> to_processing_state(outcomes[i].value)]

\* Mutant: the taxonomy replaces the baseline failures.
states_without_baseline(outcomes) ==
    <<AWAITING, SUCCESS>> \o [i \in DOMAIN outcomes |-> to_processing_state(outcomes[i].value)]

\* The states the outcomes declare, by name: of a name, the last one given.
declared(outcomes) ==
    LET by_name[n \in 0..Len(outcomes)] ==
            IF n = 0 THEN <<>>
            ELSE Assign(by_name[n - 1], outcomes[n].value.name,
                        to_processing_state(outcomes[n].value))
    IN  by_name[Len(outcomes)]

\* ExitCodeOutcomes.states(): the baseline states, then one per declared name.
states(outcomes) ==
    BASELINE_PROCESSING_STATES
        \o [i \in DOMAIN declared(outcomes) |-> declared(outcomes)[i].value]

\* Mutant: a value of the last attempt overrides the top level's.
LastFirst(field) == IF field.last # None THEN field.last ELSE field.top

\* exit_code, status_reason, log_stream_name, started_at, stopped_at: the top
\* level, then the last attempt.
Fallback(field) == IF field.top # None THEN field.top ELSE field.last

\* ExitCodeOutcomes.get: at most one entry has the code.
get(outcomes, code) ==
    {outcomes[i].value : i \in {j \in DOMAIN outcomes : outcomes[j].key = code}}

classify(d, outcomes) ==
    LET matching == get(outcomes, Fallback(d.exitCode))
    IN  CASE d.status \in AWAITING_STATUSES -> AWAITING
          [] d.status = "SUCCEEDED" -> SUCCESS
          [] d.status = "FAILED" /\ matching # {} ->
                 to_processing_state(CHOOSE outcome \in matching : TRUE)
          [] d.status = "FAILED" /\ matching = {} ->
                 IF Fallback(d.statusReason) = "spot"
                 THEN FAILURE_RETRYABLE ELSE FAILURE_NONRETRYABLE

-----------------------------------------------------------------------------
Init ==
    /\ by_exit_code = <<>>
    /\ adds = 0
    /\ detail = NoDetail
    /\ state = NoState

\* ExitCodeOutcomesBuilder.add, before the taxonomy is deployed or deployed anew.
Add(code, outcome) ==
    /\ adds < MaxAdds
    /\ detail = NoDetail
    /\ by_exit_code' = Assign(by_exit_code, code, outcome)
    /\ adds' = adds + 1
    /\ UNCHANGED <<detail, state>>

\* An invocation classifies its event under the deployed taxonomy, and ends.
Classify(d) ==
    /\ detail = NoDetail
    /\ detail' = d
    /\ state' = classify(d, by_exit_code)
    /\ UNCHANGED <<by_exit_code, adds>>

EndInvocation ==
    /\ detail # NoDetail
    /\ detail' = NoDetail /\ state' = NoState
    /\ UNCHANGED <<by_exit_code, adds>>

Next ==
    \/ EndInvocation
    \/ \E code \in Codes, outcome \in ExitCodeOutcome : Add(code, outcome)
    \/ \E d \in Detail : Classify(d)

Spec == Init /\ [][Next]_vars

-----------------------------------------------------------------------------
StateNames == {s.name : s \in ToSet(BASELINE_PROCESSING_STATES)} \cup Names
\* The taxonomy maps codes to outcomes, one each; a classification is a state.
TypeOK ==
    /\ by_exit_code \in Seq([key : Codes, value : ExitCodeOutcome])
    /\ \A i, j \in DOMAIN by_exit_code : by_exit_code[i].key = by_exit_code[j].key => i = j
    /\ adds \in 0..MaxAdds
    /\ detail \in Detail \cup {NoDetail}
    /\ state # NoState => IsProcessingState(state) /\ state.name \in StateNames

\* The state classify returns is one of outcomes.states(), which is all that the
\* pointer lookups of later events scan: "The bounded set of ProcessingStates
\* this job_type can produce."
ClassifiedIsScanned == state # NoState => state \in ToSet(states(by_exit_code))

\* Exit codes that share a name agree on what it means.
Consistent ==
    \A i, j \in DOMAIN by_exit_code :
        by_exit_code[i].value.name = by_exit_code[j].value.name
            => by_exit_code[i].value = by_exit_code[j].value

\* It is, when the exit codes that share a name agree.
ConsistentIsScanned == Consistent => ClassifiedIsScanned

\* In any case a pointer in that state's name is found.
ClassifiedNameIsScanned ==
    state # NoState => \E s \in ToSet(states(by_exit_code)) : s.name = state.name

\* Names that are no baseline state's stay one state each: the premise under
\* which the monitor tells its pointers apart by name.
NamesAreUnique ==
    Names \cap {s.name : s \in ToSet(BASELINE_PROCESSING_STATES)} = {} =>
        LET scanned == states(by_exit_code)
        IN  \A i, j \in DOMAIN scanned : scanned[i].name = scanned[j].name => i = j

\* A declared outcome decides a failure whatever its status reason says and
\* wherever the detail carries the exit code: two details of one failure, one of
\* which has the code in its last attempt only, are classified alike.
ClassificationIsStable ==
    detail.status = "FAILED" =>
        \A reason \in Field({"spot", "other"}) :
            LET code == detail.exitCode
                moved == [detail EXCEPT !.exitCode = [top |-> None, last |-> code.top],
                                        !.statusReason = reason]
            IN  code.top # None /\ get(by_exit_code, code.top) # {} =>
                    classify(moved, by_exit_code) = state
===============================================================================
