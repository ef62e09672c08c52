SPECIFICATION Spec
CONSTANTS
    tw = tw
    us = us
    tTW = tTW
    tUS = tUS
    Client = {c1}
    Campaign = {p1}
    Opportunity = {o1}
    Run = {r1,r2}
    Cycle = {k1, k2}
    Attempt = {a1,a2}
    Ticker = {tTW}
    Market = {tw}
    Slot = {s1}
    MarketOf <- MCMarketOf
    None = None
SYMMETRY MCSymmetry
INVARIANTS TypeOK OpenWorkIsNested QuoteIffSuccess CompletedIffValued ValuationHasQuote OpportunityClaimedOnce RecoveredTogether
PROPERTY EndedRowsAreFinal
CHECK_DEADLOCK FALSE
