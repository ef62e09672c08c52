SPECIFICATION CSpec
CONSTANTS
    tw = tw
    us = us
    tTW = tTW
    tUS = tUS
    tNew = tNew
    yahoo = yahoo
    finnhub = finnhub
    Kinds = {"quote", "refresh"}
    Client = {c1}
    Campaign = {p1}
    Run = {r1, r2, r3}
    Cycle = {k1, k2, k3}
    Attempt = {a1, a2, a3}
    Ticker = {tTW, tUS, tNew}
    Market = {tw, us}
    Provider = {yahoo}
    Unresolved = {tNew}
    MaxAttempts = 1
    BatchSize = 1
    Opening = 0
    Closing = 0
    OpeningDelay = 0
    Observation = 1
    Duration = 1
    MaxTime = 0
    Poll = 1
    Valuation = yahoo
    Home = tw
    None = None
    Slot <- MCSlot
    SourcesOf <- MCSourcesOf
    MarketOf <- MCMarketOf
    Opens <- MCOpens
    Opportunity <- MCOpportunity
INVARIANTS EveryHoldingWasAsked TotalIsWhole
