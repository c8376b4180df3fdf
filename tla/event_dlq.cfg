SPECIFICATION Spec
CONSTANTS
    Groups = {"g1"}
    Outcomes <- RetryableOnly
    max_attempts = 2
    async_retries = 2
    max_receive_count = 5
    batch_size = 2
    MaxFaults = 3
INVARIANTS NoEventDropped
