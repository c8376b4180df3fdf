SPECIFICATION Spec
CONSTANTS
    Entities = {"g1"}
    Jobs <- ResubmittedJobs
    Invocations = {"i1", "i2"}
    MaxDeliveries = 2
    Crashes = FALSE
INVARIANTS OneAttemptPerJob
