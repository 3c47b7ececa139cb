CONSTANTS
    Main = Main
    Workers = {w1, w2}
    MAX_JOBS = 4
    MAX_INITS = 2
    None = None
SPECIFICATION FairSpec
INVARIANTS
    TypeOK
    IdsUnique
    RunsAtMostOnce
    ProducerOrder
    QuietAfterShutdown
    JobsOfJobsNotDropped
PROPERTIES
    QueuedJobRuns
    ShutdownReturns
