SPECIFICATION Spec
CONSTANTS
    Keys <- TwoKeys
    natural_key <- OneRow
    Preexisting <- TwoKeys
    EventTimes <- InterleavedTimes
    Unreadable <- FirstOfK1
    max_keys = 2
    max_depth = 2
    receive_batch = 2
    max_receive_count = 2
    page_size = 1
    MaxFaults = 2
INVARIANTS TypeOK BehindIsQueued NoneAbandoned
PROPERTIES RowNeverOlder TableCatchesUp BackfillCompletes
