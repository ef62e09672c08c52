------------------------------- MODULE Totals -------------------------------
(***************************************************************************)
(* What is added up from stored quotes, and what it may claim to be:       *)
(*   valuation.value_holdings as storage.finish_cycle calls it, the totals *)
(*     of one cycle;                                                       *)
(*   dashboard.Dashboard.valuation and calculate, the totals of the page.  *)
(*                                                                         *)
(* A sum is modelled by the set of holdings whose values it adds: two sums *)
(* agree when they are over the same holdings.  A market has one currency, *)
(* so the holdings of a market are those of a currency.                    *)
(***************************************************************************)
EXTENDS Collectors

CONSTANT Home      \* the market of HOME_CURRENCY

\* value_holding: the quote is of this very holding and gives no reason not to
\* price it (currency, clock, price kind, session).
Priced(a, t) == a \in Attempt /\ quotes[a] = "usable" /\ attempts[a].ticker = t

-----------------------------------------------------------------------------
(* The totals of a cycle *)

\* Mutant: a quote of an earlier cycle is not flagged as cached.
ReusedNever(k, t) == FALSE

\* finish_cycle flags a quote that an attempt of another cycle obtained; a flagged
\* valuation is degraded.  (A quote's own flags may degrade it too: not modelled,
\* so "complete" is read here in more states than in the code.)
Reused(k, t) == attempts[valuations[k][t]].cycle # k

Valued(k) == {t \in Group(k) : Priced(valuations[k][t], t)}

Completeness(k) ==
    IF Valued(k) = {} THEN "unavailable"
    ELSE IF Valued(k) # Group(k) THEN "partial"
    ELSE IF \E t \in Valued(k) : Reused(k, t) THEN "degraded"
    ELSE "complete"

-----------------------------------------------------------------------------
(* The totals of the page *)

\* Dashboard.valuation: the newest stored quote of the valuation source that
\* prices the holding.
Candidates(held) ==
    {t \in held : \E a \in Attempt : Priced(a, t) /\ attempts[a].slot[1] = Valuation}

Filtered(held, market) == {t \in held : market \in {"ALL", MarketOf[t]}}

\* Mutant: a total is shown as soon as something is known.
calculate_of_known(held, priced, rate) ==
    LET needs_fx == ~rate /\ \E t \in held : MarketOf[t] # Home
        coverage == held \cap priced
        complete == coverage # {} /\ ~needs_fx
    IN [total   |-> IF complete THEN coverage ELSE {},
        known   |-> IF needs_fx THEN {} ELSE coverage,
        cost    |-> IF needs_fx THEN {} ELSE held,
        missing |-> held \ coverage,
        status  |-> IF coverage = {} \/ needs_fx THEN "unavailable"
                    ELSE IF complete THEN "degraded" ELSE "partial"]

\* Without a rate nothing foreign is converted, and no sum is shown at all; with
\* one, the total is shown when every holding has a value.  Every quote the page
\* values was stored before, hence flagged as cached: it never reads "complete".
calculate(held, priced, rate) ==
    LET needs_fx == ~rate /\ \E t \in held : MarketOf[t] # Home
        coverage == held \cap priced
        complete == coverage = held /\ ~needs_fx
    IN [total   |-> IF complete THEN coverage ELSE {},
        known   |-> IF needs_fx THEN {} ELSE coverage,
        cost    |-> IF needs_fx THEN {} ELSE held,
        missing |-> held \ coverage,
        status  |-> IF coverage = {} \/ needs_fx THEN "unavailable"
                    ELSE IF complete THEN "degraded" ELSE "partial"]

View(held, market, rate) ==
    LET shown == Filtered(held, market) IN calculate(shown, Candidates(shown), rate)

-----------------------------------------------------------------------------
(* Properties *)

\* A cycle's totals read complete only when the valuation source answered in this
\* very cycle about every holding of the group with a quote that prices it: no
\* cached quote, no comparison source and no missing holding hides behind it.
CompleteMeansFresh ==
    \A k \in Cycle : cycles[k].status = "completed" /\ Completeness(k) = "complete" =>
        \A t \in Group(k) : \E a \in Attempt :
            /\ attempts[a].cycle = k /\ attempts[a].status = "success"
            /\ attempts[a].slot[1] = Valuation
            /\ Priced(a, t)

\* For the holdings the collectors were asked about, whatever quotes were stored
\* by now: the page shows a total only for all of them, the profit compares values
\* and costs of the same holdings, a status other than "degraded" comes without a
\* total, and the view of all markets shows one exactly when each market's does.
TotalIsWhole ==
    LET held   == UNION {runs[r].held : r \in Run}
        sound(v) == /\ v.total # {} <=> v.status = "degraded"
                    /\ v.total # {} => v.total = v.cost /\ v.missing = {}
    IN held # {} => \A rate \in BOOLEAN :
        LET all   == View(held, "ALL", rate)
            views == {View(held, m, rate) : m \in MarketsOf(held)}
        IN /\ sound(all) /\ \A v \in views : sound(v)
           /\ all.total # {} <=> \A v \in views : v.total # {}
           /\ all.total # {} => all.total = UNION {v.total : v \in views}
=============================================================================
