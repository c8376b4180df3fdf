SPECIFICATION Spec
CONSTANTS
    i1 = i1
    i2 = i2
    Entities = {"g1"}
    Events <- RetriedJob
    Invocations <- TwoInvocations
    States <- BaselineStates
    SubmitterStates <- NoSubmitterStates
    max_attempts = 2
    retry_queue_url = TRUE
    dlq_url = TRUE
    MaxTries = 1
    Crashes = TRUE
    ReadFaults = FALSE
    DeleteFaults = FALSE
SYMMETRY InvocationSymmetry
INVARIANTS IInv
PROPERTIES PointerNeverRegresses ImplementsTracking
