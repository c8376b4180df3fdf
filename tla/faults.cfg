SPECIFICATION Spec
CONSTANTS
    i1 = i1
    i2 = i2
    Entities = {"g1", "g2"}
    Events <- ExhaustedTwin
    Invocations <- TwoInvocations
    States <- BaselineStates
    SubmitterStates <- NoSubmitterStates
    max_attempts = 2
    retry_queue_url = TRUE
    dlq_url = TRUE
    MaxTries = 2
    Crashes = TRUE
    ReadFaults = TRUE
    DeleteFaults = TRUE
SYMMETRY InvocationSymmetry
INVARIANTS TypeOK HandledIsReflected HandledTerminalIsIndexed HandledFailureIsRouted
