SPECIFICATION FairSpec
CONSTANTS
    Provider = {yahoo, twse}
    Second = 2
    Budgets = {3, 8}
    OperationTimeout = 2
    MaxAttempts = 3
    Library = {yahoo}
    Official = {twse}
    Headers = {0, 3, 9}
    Longest = 5
    DefaultWait = 4
    None = None
INVARIANT TypeOK
PROPERTIES RunnerHonoursWaits LastCooldownHolds VisitEnds
