SPECIFICATION Spec
CONSTANTS
    Keys <- OneKey
    natural_key <- OwnRow
    Preexisting = {}
    EventTimes <- LateEvent
    Unreadable = {}
    max_keys = 2
    max_depth = 2
    receive_batch = 2
    max_receive_count = 2
    page_size = 1
    MaxFaults = 0
INVARIANTS EnqueuedKeyIsMerged
