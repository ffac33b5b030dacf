SPECIFICATION FairSpec
CONSTANTS
    MaxJobs = 1
    Plans <- ShortPlans
    MaxReviews = 2
    BreakerThreshold = 2
    Priorities <- One
    SlackJobs <- NoSlack
    MaxExits = 0
PROPERTIES
    CancelResolves
CHECK_DEADLOCK FALSE
