----------------------------- MODULE MCJobMonitor -----------------------------
(***************************************************************************)
(* Small instances of JobMonitor for TLC.                                  *)
(***************************************************************************)
EXTENDS JobMonitorInvariant, TLC

CONSTANTS i1, i2
OneInvocation == {i1}
TwoInvocations == {i1, i2}
InvocationSymmetry == Permutations(TwoInvocations)

Event(job, group_, attempt_, state_, log_) ==
    [job |-> job, group |-> group_, output |-> "out", attempt |-> attempt_,
     state |-> state_, log_stream |-> log_]

NoSubmitterStates == <<>>
ClaimStates == <<"SUBMITTED">>
BaselineStates == BASELINE_PROCESSING_STATES
CLOUDY == [name |-> "CLOUDY", kind |-> "NONRETRYABLE_FAILURE", dlq |-> FALSE]

\* A job that runs, is interrupted, and whose next attempt runs and succeeds.
RetriedJob ==
    {Event("job1", <<"g1">>, 1, AWAITING, "none"),
     Event("job1", <<"g1">>, 1, FAILURE_RETRYABLE, "log1"),
     Event("job2", <<"g1">>, 2, AWAITING, "none"),
     Event("job2", <<"g1">>, 2, SUCCESS, "log2")}

\* Twin entities sharing a Batch job that is interrupted, of which one is then
\* run again alone and exhausts its attempts.
ExhaustedTwin ==
    {Event("job1", <<"g1", "g2">>, 1, FAILURE_RETRYABLE, "log1"),
     Event("job2", <<"g2">>, 2, FAILURE_RETRYABLE, "log2")}

\* The events of such a pair from the start to the end of the second attempt,
\* one of them with a custom outcome that opts out of the dead-letter queue.
CloudyTwinJob ==
    {Event("job1", <<"g1", "g2">>, 1, AWAITING, "none"),
     Event("job1", <<"g1", "g2">>, 1, FAILURE_RETRYABLE, "log1"),
     Event("job2", <<"g2">>, 2, AWAITING, "none"),
     Event("job2", <<"g2">>, 2, CLOUDY, "log2"),
     Event("job3", <<"g1">>, 2, FAILURE_NONRETRYABLE, "log3")}
CloudyStates == BASELINE_PROCESSING_STATES \o <<CLOUDY>>
===============================================================================
