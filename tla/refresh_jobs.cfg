SPECIFICATION FairSpec
CONSTANTS
    Handler = {h1, h2}
    MaxJobs = 2
    CycleBudget = 5
    OperationTimeout = 1
    Grace = 3
    Cooldown = 6
    Deadline = 11
    CatalogTime = 3
    CatalogInRequest = TRUE
    Foreign = TRUE
    BatchMarkets = 1
    Batches = 2
    None = None
INVARIANTS TypeOK WorkReadsAsRunning OneRequestWorks LockHasWorker
PROPERTY BoardSpec
