SPECIFICATION Spec
CONSTANTS
    Handler = {h1, h2}
    MaxJobs = 2
    CycleBudget = 5
    OperationTimeout = 1
    Grace = 3
    Cooldown = 6
    Deadline = 11
    CatalogTime = 3
    CatalogInRequest = FALSE
    Foreign = TRUE
    BatchMarkets = 2
    Batches = 2
    None = None
INVARIANT WorkReadsAsRunning
