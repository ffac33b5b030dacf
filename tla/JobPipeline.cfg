SPECIFICATION FairSpec
CONSTANTS
    MaxJobs = 2
    Plans <- ValidPlans
    MaxReviews = 2
    BreakerThreshold = 2
    Priorities <- One
    SlackJobs <- NoSlack
    MaxExits = 2
INVARIANTS
    TypeOK
    WorkerOwnsJob
    ExecutingIsOwned
    RunningNodeOwned
    DepsOrder
    DoneComplete
    ReviewBudget
PROPERTIES
    NoNodeAfterCancel
    ImplementsLifecycle
CHECK_DEADLOCK FALSE
