SPECIFICATION FairSpec
CONSTANTS
    MaxJobs = 2
    Plans <- ReversedPlan
    MaxReviews = 2
    BreakerThreshold = 2
    Priorities <- One
    SlackJobs <- FirstSlack
    MaxExits = 1
INVARIANTS
    RunningNodeOwned
PROPERTIES
    NoNodeAfterCancel
    RunShortens
    RunEnds
CHECK_DEADLOCK FALSE
