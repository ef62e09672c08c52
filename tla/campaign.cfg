SPECIFICATION FairCSpec
CONSTANTS
    tw = tw
    us = us
    tTW = tTW
    tUS = tUS
    tNew = tNew
    yahoo = yahoo
    finnhub = finnhub
    Kinds = {"monitor"}
    Client = {c1}
    Campaign = {p1, p2}
    Run = {r1, r2}
    Cycle = {k1, k2, k3}
    Attempt = {a1, a2, a3, a4}
    Ticker = {tTW}
    Market = {tw}
    Provider = {yahoo}
    Unresolved = {}
    MaxAttempts = 2
    BatchSize = 1
    Opening = 1
    Closing = 2
    OpeningDelay = 1
    Observation = 1
    Duration = 2
    MaxTime = 3
    Poll = 1
    Valuation = yahoo
    Home = tw
    Maintenance = {1}
    Regular <- MCRegular
    None = None
    Slot <- MCSlot
    SourcesOf <- MCSourcesOf
    MarketOf <- MCMarketOf
    Opens <- MCOpens
    Opportunity <- MCOpportunity
INVARIANTS CompletedRunMissedNothing NonePassedOver SectionsAgree FreshnessIsEarned
PROPERTIES CollectorEnds LockComesFree EndedReportIsFinal
CHECK_DEADLOCK FALSE
