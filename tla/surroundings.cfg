SPECIFICATION MCSpec
CONSTANTS
    Apps <- SmallApps
    JobTypes = {"A", "B"}
    Queues = {"q1", "q2"}
    Definitions = {"d1", "d2"}
    MaxApps = 2
    MaxJobs = 2
    Versions <- Schemas
    MaxDeploys = 4
    MaxFaults = 2
    s1 = s1
    s2 = s2
    Group <- Twins
    Awaited = {"g1"}
    States <- LookedUp
    Submitters <- TwoSubmitters
    MaxAttempt = 2
    MaxTriggers = 2
    MaxRuns = 2
    MaxLookups = 1
SYMMETRY SubmitterSymmetry
INVARIANTS OnePath TerminalIsRecorded UntrackedIsKept RetriedIsFollowed
           DdlTypeOK DeclaredIsLive RejectedUpdateRollsBack
           ClaimExcludes WaitingIsKept NextAttemptIsNew
PROPERTIES TableOfStackIsKept
