SPECIFICATION FairSpec
CONSTANTS
    MaxJobs = 1
    Plans <- ValidPlans
    MaxReviews = 2
    BreakerThreshold = 2
    Priorities <- One
    SlackJobs <- NoSlack
    MaxExits = 1
INVARIANTS
    NoRedo
CHECK_DEADLOCK FALSE
