--------------------------- MODULE ProcessingStates ---------------------------
(***************************************************************************)
(* The processing states of models.py: what a state is, how states are     *)
(* ranked, when one is terminal, and the four baseline lifecycle states.   *)
(* A state is compared as the frozen dataclass is: by name, kind and dlq.  *)
(***************************************************************************)
EXTENDS Naturals, Sequences

\* _Kind, the lifecycle archetype a state behaves as.
Kinds == {"SUBMITTER", "AWAITING", "SUCCESS", "RETRYABLE_FAILURE",
          "NONRETRYABLE_FAILURE"}

IsProcessingState(s) ==
    /\ DOMAIN s = {"name", "kind", "dlq"}
    /\ s.kind \in Kinds
    /\ s.dlq \in BOOLEAN

\* The members of the ProcessingStates registry; dlq defaults to True.
AWAITING == [name |-> "AWAITING", kind |-> "AWAITING", dlq |-> TRUE]
SUCCESS  == [name |-> "SUCCESS", kind |-> "SUCCESS", dlq |-> TRUE]
FAILURE_RETRYABLE ==
    [name |-> "FAILURE_RETRYABLE", kind |-> "RETRYABLE_FAILURE", dlq |-> TRUE]
FAILURE_NONRETRYABLE ==
    [name |-> "FAILURE_NONRETRYABLE", kind |-> "NONRETRYABLE_FAILURE", dlq |-> TRUE]

BASELINE_PROCESSING_STATES ==
    <<AWAITING, SUCCESS, FAILURE_RETRYABLE, FAILURE_NONRETRYABLE>>

\* ProcessingState.submitter(name).
submitter(name) == [name |-> name, kind |-> "SUBMITTER", dlq |-> TRUE]

retryable(s) == s.kind = "RETRYABLE_FAILURE"

\* Lifecycle rank: submitter below awaiting below every outcome.
rank(s) ==
    IF s.kind = "SUBMITTER" THEN 0 ELSE IF s.kind = "AWAITING" THEN 1 ELSE 2

\* A retryable failure is terminal once its attempts are used up.
is_terminal(s, attempt, max_attempts) ==
    /\ s.kind \notin {"SUBMITTER", "AWAITING"}
    /\ retryable(s) => attempt >= max_attempts

\* Where monitor_job routes an outcome once it is fresh.
goes_to_retry_queue(s, attempt, max_attempts) ==
    retryable(s) /\ ~is_terminal(s, attempt, max_attempts)

goes_to_failure_dlq(s, attempt, max_attempts) ==
    is_terminal(s, attempt, max_attempts) /\ s # SUCCESS /\ s.dlq
===============================================================================
