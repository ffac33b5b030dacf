SPECIFICATION Spec
CONSTANTS
    ann = ann
    bob = bob
    report = report
    NoWorker = NoWorker
    NoJob = NoJob
    Workers <- TwoWorkers
    Jobs <- OneJob
    MaxAttempts = 3
    MaxCrashes = 1
    MaxStalls = 1
INVARIANTS
    TypeOK
    OneHolder
    DoneWasRun
    RerunsPaid
PROPERTIES
    NotReopened
    JobsComeBack
CHECK_DEADLOCK FALSE
