SPECIFICATION FairSpec
CONSTANTS
    MaxJobs = 1
    Plans <- BrokenPlans
    MaxReviews = 2
    BreakerThreshold = 2
    Priorities <- One
    SlackJobs <- NoSlack
    MaxExits = 1
INVARIANTS
    DoneComplete
CHECK_DEADLOCK FALSE
