SPECIFICATION Spec
CONSTANTS
    Groups = {"g1"}
    Outcomes <- RetryableOnly
    max_attempts = 2
    async_retries = 1
    max_receive_count = 2
    batch_size = 2
    MaxFaults = 2
INVARIANTS TypeOK AttemptsBounded OneJobPerAttempt FailureAccounted
PROPERTIES FailureSettles LoopEnds
