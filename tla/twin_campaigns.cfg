SPECIFICATION CSpec
CONSTANTS
    tw = tw
    us = us
    tTW = tTW
    tUS = tUS
    tNew = tNew
    yahoo = yahoo
    finnhub = finnhub
    Kinds = {"monitor"}
    Client = {c1, c2}
    Campaign = {p1, p2}
    Run = {r1, r2}
    Cycle = {k1, k2}
    Attempt = {a1, a2}
    Ticker = {tTW}
    Market = {tw}
    Provider = {yahoo}
    Unresolved = {}
    MaxAttempts = 1
    BatchSize = 1
    Opening = 1
    Closing = 1
    OpeningDelay = 0
    Observation = 1
    Duration = 2
    MaxTime = 3
    Poll = 1
    Valuation = yahoo
    Home = tw
    None = None
    Slot <- MCSlot
    SourcesOf <- MCSourcesOf
    MarketOf <- MCMarketOf
    Opens <- MCOpens
    Opportunity <- MCOpportunity
INVARIANT SoleActiveCampaign
CHECK_DEADLOCK FALSE
