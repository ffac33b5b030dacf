SPECIFICATION FairSpec
CONSTANTS
    MaxJobs = 3
    Plans <- ShortPlans
    MaxReviews = 2
    BreakerThreshold = 2
    Priorities <- One
    SlackJobs <- NoSlack
    MaxExits = 1
INVARIANTS
    BreakerQuiet
PROPERTIES
    PendingServed
    RunEnds
    InterruptedResumed
    RunningCancelResolves
CHECK_DEADLOCK FALSE
