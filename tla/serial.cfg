SPECIFICATION Spec
CONSTANTS
    i1 = i1
    i2 = i2
    Entities = {"g1", "g2"}
    Events <- CloudyTwinJob
    Invocations <- OneInvocation
    States <- CloudyStates
    SubmitterStates <- ClaimStates
    max_attempts = 2
    retry_queue_url = TRUE
    dlq_url = TRUE
    MaxTries = 2
    Crashes = FALSE
    ReadFaults = FALSE
    DeleteFaults = FALSE
INVARIANTS OnePointerPerEntity HandledEventIsRecorded SubmitterPointersCleared
PROPERTIES LogStreamNeverErased
