SPECIFICATION Spec
CONSTANTS
    Entities = {"g1", "g2", "g3"}
    Jobs <- CompositeJobs
    Invocations = {"i1"}
    MaxDeliveries = 2
    Crashes = TRUE
INVARIANTS OneAttemptPerJob SharedEntitiesApart
